------------------------- MODULE UploadQueue_proofs -------------------------
(***************************************************************************)
(* Proof that what the upload page shows of an item is so, for any items,  *)
(* any number of chunks, submissions and of requests under way at once.    *)
(*                                                                         *)
(* Every submission makes its sessions under a number that is new, so the  *)
(* requests under way, the answers on their way and the aborts that are    *)
(* owed name only sessions already begun (Past, NetOK), and the server     *)
(* carries out one commit or write of a session at a time (ServesOK). The  *)
(* contexts of the page, the runs and the list fit one another (PageOK,    *)
(* OfferOK): an item that is shown as done has a session that was          *)
(* committed, and one shown as aborted has no session that can still be.   *)
(***************************************************************************)
EXTENDS UploadQueue, FiniteSetTheorems, TLAPS

(* ------------------------- the uploads: records ------------------------- *)

CtxStages == {"none", "init", "up", "merge", "over"}
CtxLive(c) == c.at \in {"init", "up", "merge"} /\ ~c.dead

LEMMA UpConstants ==
  /\ UpChunks \in Nat /\ UpLimit \in Nat /\ UpTries \in Nat /\ UpSubmits \in Nat
  /\ UpChunks > 0 /\ UpLimit > 0 /\ UpTries > 0 /\ UpSubmits > 0
  /\ UpFiles \cap UpDirs = {} /\ UpItems = UpFiles \cup UpDirs
  /\ 0 \in UpParts /\ 1 .. UpChunks \subseteq UpParts
BY UpAssumption DEF UpAssumption, UpItems, UpParts

LEMMA CtxTyped ==
  ASSUME NEW c \in UpContexts
  PROVE  /\ c.at \in CtxStages /\ c.k \in 0 .. UpSubmits /\ c.dead \in BOOLEAN
         /\ c.next \in 1 .. (UpChunks + 1) /\ c.fly \in SUBSET (1 .. UpChunks)
         /\ c.tries \in [UpParts -> 0 .. UpTries] /\ c.known \in BOOLEAN
BY DEF UpContexts, CtxStages

(* What does not change of a context.                                      *)
Steady(c, d) == d.k = c.k /\ d.dead = c.dead /\ (d.known => c.known)

LEMMA NoCtxTyped ==
  /\ NoCtx \in UpContexts /\ NoCtx.at = "none" /\ NoCtx.k = 0 /\ NoCtx.fly = {}
  /\ ~NoCtx.known /\ ~NoCtx.dead
<1>1. \A dead, known \in BOOLEAN, at \in CtxStages, next \in 1 .. (UpChunks + 1),
         tries \in [UpParts -> 0 .. UpTries], k \in 0 .. UpSubmits :
        LET e == [at |-> at, k |-> k, dead |-> dead, next |-> next, fly |-> {},
                  tries |-> tries, known |-> known]
        IN /\ e \in UpContexts /\ e.at = at /\ e.dead = dead /\ e.k = k
           /\ e.known = known /\ e.fly = {}
  BY DEF UpContexts, CtxStages
<1>2. "none" \in CtxStages /\ 1 \in 1 .. (UpChunks + 1) /\ 0 \in 0 .. UpSubmits
  BY UpConstants DEF CtxStages
<1>3. FALSE \in BOOLEAN
  OBVIOUS
<1>4. [c \in UpParts |-> 0] \in [UpParts -> 0 .. UpTries]
  BY UpConstants
<1>5. LET e == [at |-> "none", k |-> 0, dead |-> FALSE, next |-> 1, fly |-> {},
                tries |-> [c \in UpParts |-> 0], known |-> FALSE]
      IN /\ e \in UpContexts /\ e.at = "none" /\ e.dead = FALSE /\ e.k = 0
         /\ e.known = FALSE /\ e.fly = {}
  BY <1>1, <1>2, <1>3, <1>4, Zenon
<1> QED BY <1>5, Zenon DEF NoCtx

LEMMA CtxNew ==
  ASSUME NEW k \in 0 .. UpSubmits
  PROVE  LET d == [NoCtx EXCEPT !.at = "init", !.k = k]
         IN /\ d \in UpContexts /\ d.at = "init" /\ ~d.dead /\ d.k = k
            /\ ~d.known /\ d.fly = {}
<1>1. \A c \in UpContexts :
        LET e == [c EXCEPT !.at = "init", !.k = k]
        IN /\ e \in UpContexts /\ e.at = "init" /\ e.dead = c.dead /\ e.k = k
           /\ e.known = c.known /\ e.fly = c.fly
  BY DEF UpContexts
<1>2. LET e == [NoCtx EXCEPT !.at = "init", !.k = k]
      IN /\ e \in UpContexts /\ e.at = "init" /\ e.dead = NoCtx.dead /\ e.k = k
         /\ e.known = NoCtx.known /\ e.fly = NoCtx.fly
  BY <1>1, NoCtxTyped, Zenon
<1> QED BY <1>2, NoCtxTyped, Zenon

LEMMA RunTyped ==
  ASSUME NEW r \in UpRuns
  PROVE  /\ r.at \in {"idle", "scan", "init", "mkdir", "race", "tail"}
         /\ r.k \in 0 .. UpSubmits /\ r.item \in UpItems \cup {""}
         /\ r.left \in SUBSET UpItems /\ r.all \in SUBSET UpItems
         /\ r.won \in BOOLEAN /\ r.fin \in BOOLEAN
BY DEF UpRuns

RunStages == {"idle", "scan", "init", "mkdir", "race", "tail"}
LEMMA RunMoves ==
  ASSUME NEW r \in UpRuns, NEW at \in RunStages, NEW item \in UpItems \cup {""},
         NEW left \in SUBSET UpItems, NEW won \in BOOLEAN, NEW fin \in BOOLEAN
  PROVE  /\ LET s == [r EXCEPT !.at = at, !.item = item, !.left = left]
            IN /\ s \in UpRuns /\ s.at = at /\ s.item = item /\ s.left = left
               /\ s.k = r.k /\ s.all = r.all
         /\ LET s == [r EXCEPT !.at = at, !.item = item]
            IN /\ s \in UpRuns /\ s.at = at /\ s.item = item /\ s.left = r.left
               /\ s.k = r.k /\ s.all = r.all
         /\ LET s == [r EXCEPT !.won = won, !.fin = fin]
            IN /\ s \in UpRuns /\ s.at = r.at /\ s.item = r.item /\ s.left = r.left
               /\ s.k = r.k /\ s.all = r.all
         /\ LET s == [r EXCEPT !.fin = fin]
            IN /\ s \in UpRuns /\ s.at = r.at /\ s.item = r.item /\ s.left = r.left
               /\ s.k = r.k /\ s.all = r.all
BY DEF UpRuns, RunStages

LEMMA RunMade ==
  ASSUME NEW k \in 0 .. UpSubmits, NEW left \in SUBSET UpItems
  PROVE  /\ LET s == [NoUpRun EXCEPT !.k = k, !.left = left, !.all = left]
            IN s \in UpRuns /\ s.at = "idle" /\ s.k = k /\ s.left = left /\ s.all = left
         /\ LET s == [NoUpRun EXCEPT !.at = "scan", !.k = k]
            IN s \in UpRuns /\ s.at = "scan" /\ s.k = k /\ s.left = {} /\ s.all = {}
         /\ NoUpRun \in UpRuns /\ NoUpRun.at = "idle" /\ NoUpRun.k = 0
         /\ NoUpRun.left = {} /\ NoUpRun.all = {}
<1>1. \A won, fin \in BOOLEAN, at \in RunStages, n \in 0 .. UpSubmits,
         l, all \in SUBSET UpItems :
        LET r == [at |-> at, k |-> n, item |-> "", left |-> l, all |-> all,
                  won |-> won, fin |-> fin]
        IN r \in UpRuns /\ r.at = at /\ r.k = n /\ r.left = l /\ r.all = all
  BY DEF UpRuns, RunStages
<1>2. "idle" \in RunStages /\ 0 \in 0 .. UpSubmits
  BY UpConstants DEF RunStages
<1>3. FALSE \in BOOLEAN /\ {} \in SUBSET UpItems
  OBVIOUS
<1>4. LET r == [at |-> "idle", k |-> 0, item |-> "", left |-> {}, all |-> {},
                won |-> FALSE, fin |-> FALSE]
      IN r \in UpRuns /\ r.at = "idle" /\ r.k = 0 /\ r.left = {} /\ r.all = {}
  BY <1>1, <1>2, <1>3, Zenon
<1>5. /\ NoUpRun \in UpRuns /\ NoUpRun.at = "idle" /\ NoUpRun.k = 0
      /\ NoUpRun.left = {} /\ NoUpRun.all = {}
  BY <1>4, Zenon DEF NoUpRun
<1>6. \A r \in UpRuns :
        /\ LET s == [r EXCEPT !.k = k, !.left = left, !.all = left]
           IN s \in UpRuns /\ s.at = r.at /\ s.k = k /\ s.left = left /\ s.all = left
        /\ LET t == [r EXCEPT !.at = "scan", !.k = k]
           IN t \in UpRuns /\ t.at = "scan" /\ t.k = k /\ t.left = r.left /\ t.all = r.all
  BY DEF UpRuns
<1>7. LET s == [NoUpRun EXCEPT !.k = k, !.left = left, !.all = left]
      IN s \in UpRuns /\ s.at = "idle" /\ s.k = k /\ s.left = left /\ s.all = left
  BY <1>5, <1>6, Zenon
<1>8. LET t == [NoUpRun EXCEPT !.at = "scan", !.k = k]
      IN t \in UpRuns /\ t.at = "scan" /\ t.k = k /\ t.left = {} /\ t.all = {}
  BY <1>5, <1>6, Zenon
<1> QED BY <1>5, <1>7, <1>8

(* ---------------------------- filling the slots ------------------------- *)

LEMMA SentSteady ==
  ASSUME NEW cx \in [UpFiles -> UpContexts], NEW n \in [UpFiles -> 0 .. UpLimit],
         Fills(cx, n), NEW i \in UpFiles, NEW d, d = Sent(cx, n)[i]
  PROVE  /\ d \in UpContexts /\ d.at = cx[i].at /\ d.dead = cx[i].dead
         /\ d.k = cx[i].k /\ d.known = cx[i].known
         /\ d.fly # {} \/ (d.fly = cx[i].fly /\ d.next = cx[i].next)
         /\ cx[i].fly \subseteq d.fly
         /\ d.fly # cx[i].fly => cx[i].at = "up"
<1> DEFINE c == cx[i]
           now == c.next .. c.next + n[i] - 1
           tries == [p \in UpParts |-> IF p \in now THEN 1 ELSE c.tries[p]]
<1>1. c \in UpContexts /\ n[i] \in 0 .. UpLimit
  OBVIOUS
<1>2. d = [c EXCEPT !.fly = c.fly \cup now, !.next = c.next + n[i], !.tries = tries]
  BY DEF Sent
<1>3. n[i] > 0 => c.at = "up" /\ n[i] <= UpChunks + 1 - c.next
  BY DEF Fills, Schedulable
<1>4. /\ c.next \in 1 .. (UpChunks + 1) /\ c.fly \in SUBSET (1 .. UpChunks)
      /\ c.tries \in [UpParts -> 0 .. UpTries]
  BY <1>1, CtxTyped
<1> HIDE DEF c
<1>5. /\ now \in SUBSET (1 .. UpChunks) /\ c.next + n[i] \in 1 .. (UpChunks + 1)
      /\ n[i] = 0 => now = {} /\ c.next + n[i] = c.next
      /\ n[i] > 0 => now # {}
  <2>1. n[i] \in Nat /\ c.next \in Nat /\ c.next >= 1 /\ c.next <= UpChunks + 1
    BY <1>1, <1>4, UpConstants
  <2>2. \A x \in now : x \in 1 .. UpChunks
    BY <2>1, <1>3, UpConstants
  <2>3. n[i] > 0 => c.next \in now
    BY <2>1
  <2>4. n[i] = 0 => now = {}
    BY <2>1
  <2> QED BY <2>1, <2>2, <2>3, <2>4, <1>3, UpConstants
<1>6. tries \in [UpParts -> 0 .. UpTries]
  BY <1>4, UpConstants
<1> HIDE DEF now, tries
<1>7. c.fly \cup now \in SUBSET (1 .. UpChunks)
  BY <1>4, <1>5
<1>8. /\ d \in UpContexts /\ d.at = c.at /\ d.dead = c.dead /\ d.k = c.k
      /\ d.known = c.known /\ d.fly = c.fly \cup now /\ d.next = c.next + n[i]
  <2> DEFINE fly == c.fly \cup now
             next == c.next + n[i]
  <2>1. fly \in SUBSET (1 .. UpChunks) /\ next \in 1 .. (UpChunks + 1)
    BY <1>5, <1>7
  <2>2. d = [c EXCEPT !.fly = fly, !.next = next, !.tries = tries]
    BY <1>2
  <2> HIDE DEF fly, next
  <2>3. /\ d \in UpContexts /\ d.at = c.at /\ d.dead = c.dead /\ d.k = c.k
        /\ d.known = c.known /\ d.fly = fly /\ d.next = next
    BY <1>1, <1>6, <2>1, <2>2 DEF UpContexts, CtxStages
  <2> QED BY <2>3 DEF fly, next
<1>9. n[i] = 0 \/ n[i] > 0
  BY <1>1
<1> QED BY <1>3, <1>5, <1>8, <1>9 DEF c

LEMMA CompleteSteady ==
  ASSUME NEW f \in [UpFiles -> UpContexts], NEW i \in UpFiles,
         NEW d, d = MaybeComplete(f)[i]
  PROVE  /\ d \in UpContexts /\ d.dead = f[i].dead /\ d.k = f[i].k
         /\ d.known = f[i].known /\ d.fly = f[i].fly
         /\ d.at = f[i].at \/ (f[i].at = "up" /\ ~f[i].dead /\ d.at = "merge")
         /\ (f[i].at = "up" /\ ~f[i].dead /\ f[i].fly = {} /\ f[i].next > UpChunks)
              => d.at = "merge"
<1> DEFINE c == f[i]
           done == c.at = "up" /\ ~c.dead /\ c.fly = {} /\ c.next > UpChunks
           tries == [c.tries EXCEPT ![0] = IF c.known THEN 0 ELSE 1]
<1>1. c \in UpContexts
  OBVIOUS
<1>2. c.tries \in [UpParts -> 0 .. UpTries]
  BY <1>1, CtxTyped
<1>3. tries \in [UpParts -> 0 .. UpTries]
  BY <1>2, UpConstants
<1>4. d = IF done THEN [c EXCEPT !.at = "merge", !.tries = tries] ELSE c
  BY DEF MaybeComplete
<1>5. CASE done
  <2>1. d = [c EXCEPT !.at = "merge", !.tries = tries]
    BY <1>4, <1>5
  <2>2. "merge" \in CtxStages
    BY DEF CtxStages
  <2> HIDE DEF tries, c
  <2>3. /\ d \in UpContexts /\ d.at = "merge" /\ d.dead = c.dead /\ d.k = c.k
        /\ d.known = c.known /\ d.fly = c.fly
    BY <1>1, <1>3, <2>1, <2>2 DEF UpContexts, CtxStages
  <2> QED BY <2>3, <1>5 DEF c
<1>6. CASE ~done
  BY <1>1, <1>4, <1>6
<1> QED BY <1>5, <1>6

LEMMA Filled ==
  ASSUME NEW cx \in [UpFiles -> UpContexts],
         NEW y \in {MaybeComplete(f) : f \in FillSlots(cx)}
  PROVE  /\ y \in [UpFiles -> UpContexts]
         /\ \A i \in UpFiles :
              /\ Steady(cx[i], y[i])
              /\ y[i].at = cx[i].at
                 \/ (cx[i].at = "up" /\ ~cx[i].dead /\ y[i].at = "merge")
              /\ y[i].fly # cx[i].fly => cx[i].at = "up"
         /\ InFlight(y) = {} =>
              /\ \A i \in UpFiles : ~(y[i].at = "up" /\ ~y[i].dead)
              /\ Cardinality(ActiveContexts(cx)) < UpLimit
<1>1. PICK n \in [UpFiles -> 0 .. UpLimit] : Fills(cx, n) /\ y = MaybeComplete(Sent(cx, n))
  BY DEF FillSlots
<1> DEFINE f == Sent(cx, n)
<1>2. \A i \in UpFiles :
        /\ f[i] \in UpContexts /\ f[i].at = cx[i].at /\ f[i].dead = cx[i].dead
        /\ f[i].k = cx[i].k /\ f[i].known = cx[i].known
        /\ f[i].fly # {} \/ (f[i].fly = cx[i].fly /\ f[i].next = cx[i].next)
        /\ cx[i].fly \subseteq f[i].fly
        /\ f[i].fly # cx[i].fly => cx[i].at = "up"
  BY <1>1, SentSteady
<1>3. f \in [UpFiles -> UpContexts]
  <2>1. DOMAIN f = UpFiles /\ f = [i \in UpFiles |-> f[i]]
    BY DEF Sent
  <2> HIDE DEF f
  <2> QED BY <2>1, <1>2
<1>4. InFlight(f) = {} => \A i \in UpFiles : f[i].fly = {} /\ ~Schedulable(f[i])
  <2> SUFFICES ASSUME InFlight(f) = {} PROVE \A i \in UpFiles : f[i].fly = {} /\ ~Schedulable(f[i])
    OBVIOUS
  <2>1. Cardinality(InFlight(f)) = 0
    BY FS_EmptySet
  <2>2. {i \in UpFiles : Schedulable(f[i])} = {}
    BY <1>1, <2>1, UpConstants DEF Fills
  <2>3. \A i \in UpFiles : {i} \X f[i].fly \subseteq InFlight(f)
    BY DEF InFlight
  <2> HIDE DEF f
  <2>4. \A i \in UpFiles : f[i].fly = {}
    <3> SUFFICES ASSUME NEW i \in UpFiles, NEW x \in f[i].fly PROVE FALSE
      OBVIOUS
    <3>1. <<i, x>> \in {i} \X f[i].fly
      OBVIOUS
    <3> QED BY <2>3, <3>1
  <2> QED BY <2>2, <2>4
<1>5. y = MaybeComplete(f)
  BY <1>1
<1> HIDE DEF f
<1>6. \A i \in UpFiles :
        /\ y[i] \in UpContexts /\ y[i].dead = f[i].dead /\ y[i].k = f[i].k
        /\ y[i].known = f[i].known /\ y[i].fly = f[i].fly
        /\ y[i].at = f[i].at \/ (f[i].at = "up" /\ ~f[i].dead /\ y[i].at = "merge")
        /\ (f[i].at = "up" /\ ~f[i].dead /\ f[i].fly = {} /\ f[i].next > UpChunks)
             => y[i].at = "merge"
  BY <1>3, <1>5, CompleteSteady
<1>7. y \in [UpFiles -> UpContexts]
  <2>1. DOMAIN y = UpFiles /\ y = [i \in UpFiles |-> y[i]]
    BY <1>5 DEF MaybeComplete
  <2> QED BY <2>1, <1>6
<1>8. InFlight(y) = InFlight(f)
  BY <1>6 DEF InFlight
<1>9. InFlight(y) = {} => \A i \in UpFiles : ~(y[i].at = "up" /\ ~y[i].dead)
  <2> SUFFICES ASSUME InFlight(y) = {}, NEW i \in UpFiles, y[i].at = "up", ~y[i].dead
               PROVE FALSE
    OBVIOUS
  <2>1. f[i].at = "up" /\ ~f[i].dead /\ f[i].fly = {} /\ ~Schedulable(f[i])
    BY <1>4, <1>6, <1>8
  <2>2. f[i].next > UpChunks
    <3>1. f[i].next \in Nat
      BY <1>2, CtxTyped, UpConstants
    <3> QED BY <2>1, <3>1, UpConstants DEF Schedulable
  <2> QED BY <1>6, <2>1, <2>2
<1>10. InFlight(y) = {} => Cardinality(ActiveContexts(cx)) < UpLimit
  <2> SUFFICES ASSUME InFlight(y) = {} PROVE ActiveContexts(cx) = {}
    BY FS_EmptySet, UpConstants
  <2> SUFFICES ASSUME NEW i \in ActiveContexts(cx) PROVE FALSE
    OBVIOUS
  <2>1. i \in UpFiles /\ (cx[i].fly # {} \/ Schedulable(cx[i]))
    BY DEF ActiveContexts
  <2>2. f[i].fly = {} /\ ~Schedulable(f[i])
    BY <1>4, <1>8, <2>1
  <2>3. f[i].fly = cx[i].fly /\ f[i].next = cx[i].next
    BY <1>2, <2>1, <2>2
  <2>4. f[i].at = cx[i].at /\ f[i].dead = cx[i].dead
    BY <1>2, <2>1
  <2> QED BY <2>1, <2>2, <2>3, <2>4 DEF Schedulable
<1> QED BY <1>2, <1>6, <1>7, <1>9, <1>10 DEF Steady

(* ------------------------- what fillSlots can do ------------------------ *)

(* The next item of the run is taken.                                      *)
Takes(run, cx, list, reqs, asks, i) ==
  /\ i \in run.left /\ UpListed(list, i)
  /\ upReq' = reqs /\ upList' = list
  /\ upRun'.left = run.left \ {i} /\ upRun'.item = i
  /\ \/ i \in UpDirs /\ upRun'.at = "mkdir" /\ upCtx' = cx /\ upAsk' = asks
     \/ /\ i \in UpFiles /\ i \notin UpDirs /\ upRun'.at = "init"
        /\ \A j \in UpFiles \ {i} : upCtx'[j] = cx[j]
        /\ upCtx'[i].at = "init" /\ ~upCtx'[i].dead /\ upCtx'[i].k = run.k
        /\ ~upCtx'[i].known /\ upCtx'[i].fly = {}
        /\ upAsk' = asks \cup {[sid |-> <<i, run.k>>, at |-> "sent"]}

(* A chunk or a complete request that is sent for file i.                  *)
NewFor(cx, i, r) == /\ cx[i].at = "up" /\ r.sid = <<i, cx[i].k>> /\ r.at = "sent"

(* The slots are filled.                                                   *)
Refills(run, cx, list, reqs, asks) ==
  /\ upAsk' = asks /\ upRun'.left = run.left
  /\ \A i \in UpFiles :
       /\ Steady(cx[i], upCtx'[i])
       /\ upCtx'[i].at = cx[i].at
          \/ (cx[i].at = "up" /\ ~cx[i].dead /\ upCtx'[i].at = "merge")
       /\ upCtx'[i].fly # cx[i].fly => cx[i].at = "up"
  /\ \A r \in upReq' : r \in reqs \/ \E i \in UpFiles : NewFor(cx, i, r)
  /\ \A i \in UpItems :
       upList'[i] = list[i]
       \/ /\ upList'[i] = "MERGING" /\ UpListed(list, i)
          /\ i \in UpFiles /\ cx[i].at = "up" /\ ~cx[i].dead
  /\ \/ upRun'.at = "race"
     \/ /\ upRun'.at = "tail"
        /\ \A i \in run.left : ~UpListed(list, i)
        /\ \A i \in UpFiles : ~(upCtx'[i].at = "up" /\ ~upCtx'[i].dead)

RunOnTypes ==
  /\ upRun' \in UpRuns /\ upCtx' \in [UpFiles -> UpContexts]
  /\ upList' \in [UpItems -> UpStatus]
  /\ upReq' \subseteq UpRequests /\ upAsk' \subseteq UpAsks

LEMMA SidTyped ==
  ASSUME NEW i \in UpFiles, NEW k \in 1 .. UpSubmits
  PROVE  <<i, k>> \in UpSids /\ <<i, k>>[1] = i /\ <<i, k>>[2] = k
BY DEF UpSids

LEMMA AskMade ==
  ASSUME NEW sid \in UpSids
  PROVE  LET a == [sid |-> sid, at |-> "sent"]
         IN a \in UpAsks /\ a.sid = sid /\ a.at = "sent"
BY DEF UpAsks

LEMMA RequestMade ==
  ASSUME NEW sid \in UpSids, NEW part \in UpParts
  PROVE  LET r == [sid |-> sid, part |-> part, at |-> "sent", live |-> TRUE]
         IN r \in UpRequests /\ r.sid = sid /\ r.at = "sent"
<1>1. \A live \in BOOLEAN :
        LET r == [sid |-> sid, part |-> part, at |-> "sent", live |-> live]
        IN r \in UpRequests /\ r.sid = sid /\ r.at = "sent"
  BY DEF UpRequests
<1>2. TRUE \in BOOLEAN
  OBVIOUS
<1> QED BY <1>1, <1>2, Zenon

LEMMA SentRequests ==
  ASSUME NEW old \in [UpFiles -> UpContexts], NEW cx \in [UpFiles -> UpContexts],
         \A i \in UpFiles :
           /\ Steady(old[i], cx[i])
           /\ cx[i].at = old[i].at \/ (old[i].at = "up" /\ cx[i].at = "merge")
           /\ cx[i].fly # old[i].fly => old[i].at = "up"
           /\ old[i].at # "none" => old[i].k > 0,
         NEW r \in NewRequests(old, cx)
  PROVE  r \in UpRequests /\ \E i \in UpFiles : NewFor(old, i, r)
<1>1. PICK i \in UpFiles, p \in UpParts :
        /\ r = [sid |-> <<i, cx[i].k>>, part |-> p, at |-> "sent", live |-> TRUE]
        /\ old[i].at = "up"
  <2> DEFINE merges(i) == cx[i].at = "merge" /\ old[i].at # "merge" /\ ~cx[i].known
             parts(i) == (cx[i].fly \ old[i].fly) \cup (IF merges(i) THEN {0} ELSE {})
             request(i, p) == [sid |-> <<i, cx[i].k>>, part |-> p, at |-> "sent",
                               live |-> TRUE]
  <2>1. PICK i \in UpFiles : r \in {request(i, p) : p \in parts(i)}
    BY DEF NewRequests
  <2>2. PICK p \in parts(i) : r = request(i, p)
    BY <2>1
  <2>3. CASE p \in cx[i].fly \ old[i].fly
    <3>1. cx[i].fly \in SUBSET (1 .. UpChunks)
      BY CtxTyped
    <3>2. p \in UpParts /\ cx[i].fly # old[i].fly
      BY <2>3, <3>1, UpConstants
    <3> QED BY <2>2, <3>2
  <2>4. CASE merges(i) /\ p = 0
    BY <2>2, <2>4, UpConstants
  <2> QED BY <2>2, <2>3, <2>4
<1>2. cx[i].k = old[i].k /\ old[i].k \in 1 .. UpSubmits
  <2>1. old[i].k \in 0 .. UpSubmits
    BY CtxTyped
  <2>2. old[i].k > 0
    BY <1>1
  <2> QED BY <2>1, <2>2, UpConstants DEF Steady
<1>3. <<i, cx[i].k>> \in UpSids
  BY <1>2, SidTyped
<1>4. LET q == [sid |-> <<i, cx[i].k>>, part |-> p, at |-> "sent", live |-> TRUE]
      IN q \in UpRequests /\ q.sid = <<i, cx[i].k>> /\ q.at = "sent"
  BY <1>3, RequestMade, Zenon
<1>5. r \in UpRequests /\ r.sid = <<i, cx[i].k>> /\ r.at = "sent"
  BY <1>1, <1>4, Zenon
<1> QED BY <1>1, <1>2, <1>5 DEF NewFor

LEMMA FillDoes ==
  ASSUME NEW run \in UpRuns, NEW cx \in [UpFiles -> UpContexts],
         NEW list \in [UpItems -> UpStatus], NEW reqs \in SUBSET UpRequests,
         NEW asks \in SUBSET UpAsks,
         run.k > 0, \A i \in UpFiles : cx[i].at # "none" => cx[i].k > 0,
         TakeOrFill(run, cx, list, reqs, asks)
  PROVE  /\ RunOnTypes
         /\ upRun'.k = run.k /\ upRun'.all = run.all
         /\ \/ \E i \in run.left : Takes(run, cx, list, reqs, asks, i)
            \/ Refills(run, cx, list, reqs, asks)
<1> DEFINE next == {i \in run.left : UpListed(list, i)}
           room == Cardinality(ActiveContexts(cx)) < UpLimit
           taken == /\ room /\ upReq' = reqs /\ upList' = list
                    /\ \E i \in next :
                         /\ upRun' = [run EXCEPT !.at = IF i \in UpDirs THEN "mkdir" ELSE "init",
                                                 !.item = i, !.left = @ \ {i}]
                         /\ upCtx' = IF i \in UpDirs THEN cx
                                     ELSE [cx EXCEPT ![i] = [NoCtx EXCEPT
                                             !.at = "init", !.k = run.k]]
                         /\ upAsk' = IF i \in UpDirs THEN asks
                                     ELSE asks \cup {[sid |-> <<i, run.k>>, at |-> "sent"]}
           filled == /\ ~room \/ next = {}
                     /\ upCtx' \in {MaybeComplete(f) : f \in FillSlots(cx)}
                     /\ upReq' = reqs \cup NewRequests(cx, upCtx')
                     /\ upAsk' = asks
                     /\ upRun' = [run EXCEPT !.at = IF InFlight(upCtx') = {} THEN "tail"
                                                    ELSE "race", !.item = ""]
                     /\ upList' = Merging(cx, upCtx', list)
<1>1. taken \/ filled
  BY DEF TakeOrFill
<1>2. run.k \in 1 .. UpSubmits /\ run.k \in 0 .. UpSubmits /\ run.left \in SUBSET UpItems
  <2>1. run.k \in 0 .. UpSubmits /\ run.left \in SUBSET UpItems
    BY RunTyped
  <2> QED BY <2>1, UpConstants
<1>3. CASE taken
  <2>1. PICK i \in next :
          /\ upRun' = [run EXCEPT !.at = IF i \in UpDirs THEN "mkdir" ELSE "init",
                                  !.item = i, !.left = @ \ {i}]
          /\ upCtx' = IF i \in UpDirs THEN cx
                      ELSE [cx EXCEPT ![i] = [NoCtx EXCEPT !.at = "init", !.k = run.k]]
          /\ upAsk' = IF i \in UpDirs THEN asks
                      ELSE asks \cup {[sid |-> <<i, run.k>>, at |-> "sent"]}
    BY <1>3
  <2>2. i \in run.left /\ UpListed(list, i) /\ i \in UpItems
    BY <1>2
  <2>3. upReq' = reqs /\ upList' = list
    BY <1>3
  <2>4. /\ upRun' \in UpRuns /\ upRun'.item = i /\ upRun'.left = run.left \ {i}
        /\ upRun'.at = (IF i \in UpDirs THEN "mkdir" ELSE "init")
        /\ upRun'.k = run.k /\ upRun'.all = run.all
    <3> DEFINE at == IF i \in UpDirs THEN "mkdir" ELSE "init"
               left == run.left \ {i}
    <3>1. at \in RunStages /\ left \in SUBSET UpItems /\ i \in UpItems \cup {""}
      BY <1>2, <2>2 DEF RunStages
    <3>2. upRun' = [run EXCEPT !.at = at, !.item = i, !.left = left]
      BY <2>1
    <3> HIDE DEF at, left
    <3>3. /\ upRun' \in UpRuns /\ upRun'.item = i /\ upRun'.left = left
          /\ upRun'.at = at /\ upRun'.k = run.k /\ upRun'.all = run.all
      BY <3>1, <3>2 DEF UpRuns, RunStages
    <3> QED BY <3>3 DEF at, left
  <2>5. CASE i \in UpDirs
    <3>1. upCtx' = cx /\ upAsk' = asks /\ upRun'.at = "mkdir"
      BY <2>1, <2>4, <2>5
    <3>2. Takes(run, cx, list, reqs, asks, i)
      BY <2>2, <2>3, <2>4, <2>5, <3>1 DEF Takes
    <3>3. RunOnTypes
      BY <2>3, <2>4, <3>1 DEF RunOnTypes
    <3> QED BY <2>2, <2>4, <3>2, <3>3
  <2>6. CASE i \notin UpDirs
    <3> DEFINE new == [NoCtx EXCEPT !.at = "init", !.k = run.k]
               ask == [sid |-> <<i, run.k>>, at |-> "sent"]
    <3>1. i \in UpFiles
      BY <2>2, <2>6 DEF UpItems
    <3>2. /\ new \in UpContexts /\ new.at = "init" /\ ~new.dead /\ new.k = run.k
          /\ ~new.known /\ new.fly = {}
      <4>1. run.k \in 0 .. UpSubmits
        BY <1>2
      <4> QED BY <4>1, CtxNew, Zenon
    <3>3. ask \in UpAsks
      BY <1>2, <3>1, SidTyped, AskMade
    <3>4. upCtx' = [cx EXCEPT ![i] = new] /\ upAsk' = asks \cup {ask} /\ upRun'.at = "init"
      BY <2>1, <2>4, <2>6
    <3> HIDE DEF new
    <3>5. /\ upCtx' \in [UpFiles -> UpContexts] /\ upCtx'[i] = new
          /\ \A j \in UpFiles \ {i} : upCtx'[j] = cx[j]
      BY <3>1, <3>2, <3>4
    <3>6. upAsk' \subseteq UpAsks
      BY <3>3, <3>4
    <3>7. Takes(run, cx, list, reqs, asks, i)
      BY <2>2, <2>3, <2>4, <2>6, <3>1, <3>2, <3>4, <3>5 DEF Takes
    <3>8. RunOnTypes
      BY <2>3, <2>4, <3>5, <3>6 DEF RunOnTypes
    <3> QED BY <2>2, <2>4, <3>7, <3>8
  <2> QED BY <2>5, <2>6
<1>4. CASE filled
  <2>1. upCtx' \in {MaybeComplete(f) : f \in FillSlots(cx)}
    BY <1>4
  <2>2. /\ upCtx' \in [UpFiles -> UpContexts]
        /\ \A i \in UpFiles :
             /\ Steady(cx[i], upCtx'[i])
             /\ upCtx'[i].at = cx[i].at
                \/ (cx[i].at = "up" /\ ~cx[i].dead /\ upCtx'[i].at = "merge")
             /\ upCtx'[i].fly # cx[i].fly => cx[i].at = "up"
        /\ InFlight(upCtx') = {} =>
             /\ \A i \in UpFiles : ~(upCtx'[i].at = "up" /\ ~upCtx'[i].dead)
             /\ Cardinality(ActiveContexts(cx)) < UpLimit
    BY <2>1, Filled
  <2>3. /\ upReq' = reqs \cup NewRequests(cx, upCtx') /\ upAsk' = asks
        /\ upRun' = [run EXCEPT !.at = IF InFlight(upCtx') = {} THEN "tail"
                                       ELSE "race", !.item = ""]
        /\ upList' = [i \in UpItems |->
             IF i \in UpFiles /\ cx[i].at = "up" /\ upCtx'[i].at = "merge"
                /\ UpListed(list, i) THEN "MERGING" ELSE list[i]]
        /\ ~room \/ next = {}
    BY <1>4 DEF Merging
  <2>4. /\ upRun' \in UpRuns /\ upRun'.left = run.left
        /\ upRun'.at = (IF InFlight(upCtx') = {} THEN "tail" ELSE "race")
        /\ upRun'.k = run.k /\ upRun'.all = run.all
    <3> DEFINE at == IF InFlight(upCtx') = {} THEN "tail" ELSE "race"
    <3>1. at \in RunStages
      BY DEF RunStages
    <3>2. upRun' = [run EXCEPT !.at = at, !.item = ""]
      BY <2>3
    <3> HIDE DEF at
    <3>3. /\ upRun' \in UpRuns /\ upRun'.left = run.left
          /\ upRun'.at = at /\ upRun'.k = run.k /\ upRun'.all = run.all
      BY <3>1, <3>2 DEF UpRuns, RunStages
    <3> QED BY <3>3 DEF at
  <2>5. \A r \in NewRequests(cx, upCtx') :
          r \in UpRequests /\ \E i \in UpFiles : NewFor(cx, i, r)
    BY <2>2, SentRequests
  <2>6. upList' \in [UpItems -> UpStatus]
    BY <2>3 DEF UpStatus
  <2>7. \A i \in UpItems :
          upList'[i] = list[i]
          \/ /\ upList'[i] = "MERGING" /\ UpListed(list, i)
             /\ i \in UpFiles /\ cx[i].at = "up" /\ ~cx[i].dead
    <3> SUFFICES ASSUME NEW i \in UpItems, upList'[i] # list[i]
                 PROVE  /\ upList'[i] = "MERGING" /\ UpListed(list, i)
                        /\ i \in UpFiles /\ cx[i].at = "up" /\ ~cx[i].dead
      OBVIOUS
    <3>1. /\ i \in UpFiles /\ cx[i].at = "up" /\ upCtx'[i].at = "merge"
          /\ UpListed(list, i) /\ upList'[i] = "MERGING"
      BY <2>3
    <3> QED BY <2>2, <3>1
  <2>8. \/ upRun'.at = "race"
        \/ /\ upRun'.at = "tail"
           /\ \A i \in run.left : ~UpListed(list, i)
           /\ \A i \in UpFiles : ~(upCtx'[i].at = "up" /\ ~upCtx'[i].dead)
    BY <2>2, <2>3, <2>4
  <2>9. \A r \in upReq' : r \in UpRequests /\ (r \in reqs \/ \E i \in UpFiles : NewFor(cx, i, r))
    BY <2>3, <2>5
  <2>10. Refills(run, cx, list, reqs, asks)
    BY <2>2, <2>3, <2>4, <2>7, <2>8, <2>9 DEF Refills
  <2>11. RunOnTypes
    BY <2>2, <2>3, <2>4, <2>6, <2>9 DEF RunOnTypes
  <2> QED BY <2>4, <2>10, <2>11
<1> QED BY <1>1, <1>3, <1>4

(* -------------------- the invariant of the upload page ------------------ *)

Past(cx, s) == s[2] <= cx[s[1]].k

(* The numbers of the submits: a context is of a submit there was, and what *)
(* a run has still to take has no context of this run yet.                  *)
CountOK(run, cx, n) ==
  /\ run.k <= n /\ (run.at # "idle" => run.k > 0)
  /\ \A i \in UpFiles : /\ cx[i].k <= n
                        /\ cx[i].at # "none" => cx[i].k > 0
                        /\ cx[i].at \in {"none", "init"} => cx[i].fly = {}
                        /\ run.at = "scan" \/ i \in run.left => cx[i].k < run.k

(* An init request is the first of its session: nothing else names it yet.  *)
NetOK(cx, reqs, asks, abort, sess, cut, stored) ==
  /\ \A s \in abort \cup cut \cup stored : Past(cx, s)
  /\ \A q \in reqs : Past(cx, q.sid)
  /\ \A s \in UpSids : sess[s].st # "none" => Past(cx, s)
  /\ \A a \in asks :
       /\ Past(cx, a.sid)
       /\ a.sid[2] = cx[a.sid[1]].k => cx[a.sid[1]].at = "init"
       /\ a.sid \notin abort \cup cut \cup stored
       /\ \A q \in reqs : q.sid # a.sid
       /\ a.at = "sent" => sess[a.sid].st = "none"
  /\ \A a, b \in asks : a.sid = b.sid => a = b

(* The server: what was canceled is not stored, a session that is committed *)
(* is stored, and one request at a time puts it in its place.               *)
ServesOK(reqs, sess, cut, stored) ==
  /\ \A s \in UpSids : /\ s \in cut => sess[s].st \in {"canceled", "none"}
                       /\ s \in stored => sess[s].st \in {"committed", "none"}
                       /\ sess[s].st = "committed" => s \in stored
                       /\ s \notin cut \/ s \notin stored
  /\ \A q \in reqs : /\ q.at = "commit" => sess[q.sid].st = "completing"
                     /\ q.at \in {"write", "wait"} => sess[q.sid].st # "none"
                     /\ q.at = "done" => q.sid \in stored
                     /\ q.at = "write" => q.part # 0
  /\ \A q, r \in reqs : q.sid = r.sid /\ q.at = "commit" /\ r.at = "commit" => q = r

StoredItem(i, made, stored) == IF i \in UpDirs THEN i \in made
                               ELSE \E s \in stored : s[1] = i
Settled(i, list, made, stored) ==
  list[i] \in {"gone", "FAILED"} \/ StoredItem(i, made, stored)
Running(run) == run.at \notin {"idle", "scan"}

(* What is so of a run at any time, also while it takes an answer: past are *)
(* the items of the runs before.                                            *)
ListOK(run, cx, list, made, stored, past) ==
  /\ run.left \subseteq run.all
  /\ \A i \in run.all \cup past : list[i] # "new"
  /\ \A i \in run.left : list[i] \in {"WAITING", "gone"}
  /\ \A i \in past : \/ Settled(i, list, made, stored) \/ i \in run.all
                     \/ run.at = "scan" /\ list[i] = "WAITING"
  /\ \A i \in UpDirs : list[i] = "DONE" => i \in made
  /\ \A i \in UpFiles : /\ list[i] = "DONE" => <<i, cx[i].k>> \in stored
                        /\ cx[i].known => <<i, cx[i].k>> \in stored
                        /\ CtxLive(cx[i]) => i \in run.all \ run.left

(* The loop of a run is about to take the next item or to fill the slots.   *)
LoopOK(run, cx, list, made, stored, past) ==
  /\ ListOK(run, cx, list, made, stored, past)
  /\ run.at # "scan" /\ run.k > 0
  /\ \A i \in UpFiles : CtxLive(cx[i]) => cx[i].at # "init"
  /\ \A i \in run.all : \/ Settled(i, list, made, stored) \/ i \in run.left
                        \/ i \in UpFiles /\ CtxLive(cx[i])

(* The run waits: for an answer, for a chunk or for what is merged.         *)
PageOK(run, cx, list, made, stored, past) ==
  /\ ListOK(run, cx, list, made, stored, past)
  /\ ~Running(run) => run.all = {}
  /\ run.at = "init" => run.item \in (UpFiles \cap run.all) \ run.left
  /\ run.at = "mkdir" => run.item \in (UpDirs \cap run.all) \ run.left
  /\ \A i \in UpFiles : CtxLive(cx[i]) =>
       /\ cx[i].at = "init" => run.at = "init" /\ run.item = i
       /\ run.at = "tail" => cx[i].at = "merge"
  /\ \A i \in run.all : \/ Settled(i, list, made, stored) \/ i \in run.left
                        \/ run.at = "mkdir" /\ run.item = i
                        \/ i \in UpFiles /\ CtxLive(cx[i])
  /\ run.at = "tail" => \A i \in run.left : list[i] = "gone"

(* What has not been chosen yet.                                            *)
FreshOK(list, scan, reading) ==
  /\ \A i \in reading : list[i] = "new" /\ i \notin UpKids
  /\ scan \in {"none", "scanning"} => \A i \in UpDirs : list[i] = "new"

(* CONFIRM is offered when no run is under way and what ran is settled.     *)
OfferOK(run, list, made, stored, taken) ==
  /\ run.at = "idle"
  /\ \A i \in taken : list[i] = "gone" \/ StoredItem(i, made, stored)

Earlier == upTaken \cup UNION upEnding
UpCountInv == CountOK(upRun, upCtx, upCount["submit"])
UpNetInv == NetOK(upCtx, upReq, upAsk, upAbort, upSess, upCut, upStored)
UpServeInv == ServesOK(upReq, upSess, upCut, upStored)
UpPageInv == PageOK(upRun, upCtx, upList, upMade, upStored, Earlier)
UpFreshInv == FreshOK(upList, upScan, upReading)
UpOfferInv == upAwait /\ ~upEarly => OfferOK(upRun, upList, upMade, upStored, upTaken)
UpInv == /\ UpTypeOK /\ UpCountInv /\ UpNetInv /\ UpServeInv
         /\ UpPageInv /\ UpFreshInv /\ UpOfferInv

LEMMA SidParts ==
  ASSUME NEW s \in UpSids
  PROVE  s[1] \in UpFiles /\ s[2] \in Nat /\ s[2] \in 1 .. UpSubmits /\ s = <<s[1], s[2]>>
BY UpConstants DEF UpSids

LEMMA AskTyped ==
  ASSUME NEW a \in UpAsks
  PROVE  a.sid \in UpSids /\ a.at \in {"sent", "made", "bad"}
BY DEF UpAsks

LEMMA RequestTyped ==
  ASSUME NEW q \in UpRequests
  PROVE  /\ q.sid \in UpSids /\ q.part \in UpParts /\ q.live \in BOOLEAN
         /\ q.at \in {"sent", "write", "commit", "wait", "ok", "done", "err"}
BY DEF UpRequests

LEMMA CtxNumber ==
  ASSUME NEW cx \in [UpFiles -> UpContexts], NEW i \in UpFiles
  PROVE  cx[i].k \in Nat
<1>1. cx[i].k \in 0 .. UpSubmits
  BY CtxTyped
<1> QED BY <1>1, UpConstants

(* Nothing in this list or in these contexts is set back.                  *)
LEMMA PageKept ==
  ASSUME NEW run, NEW cx, NEW list, NEW made, NEW stored, NEW past,
         NEW cx2, NEW list2, NEW made2, NEW stored2, NEW past2,
         PageOK(run, cx, list, made, stored, past),
         run.all \subseteq UpItems, past \subseteq UpItems, past2 \subseteq past,
         made \subseteq made2, stored \subseteq stored2,
         \A i \in UpItems : \/ list2[i] = list[i] \/ list2[i] = "gone"
                            \/ list[i] = "new" /\ list2[i] = "WAITING",
         \A i \in UpFiles :
           /\ cx2[i].k = cx[i].k
           /\ cx2[i].known => cx[i].known \/ <<i, cx[i].k>> \in stored2
           /\ CtxLive(cx2[i]) => CtxLive(cx[i]) /\ cx2[i].at = cx[i].at
           /\ CtxLive(cx[i]) => CtxLive(cx2[i]) \/ list2[i] = "gone"
  PROVE  /\ PageOK(run, cx2, list2, made2, stored2, past2)
         /\ \A i \in past : list[i] = "gone" \/ StoredItem(i, made, stored)
              => list2[i] = "gone" \/ StoredItem(i, made2, stored2)
<1> USE DEF StoredItem
<1>1. \A i \in UpItems : list[i] # "new" =>
        (list2[i] = list[i] \/ list2[i] = "gone") /\ list2[i] # "new"
  OBVIOUS
<1>2. \A i \in UpItems : list[i] # "new" =>
        (Settled(i, list, made, stored) => Settled(i, list2, made2, stored2))
  BY <1>1 DEF Settled
<1>3. /\ run.left \subseteq run.all /\ \A i \in run.all \cup past : list[i] # "new"
      /\ \A i \in run.left : list[i] \in {"WAITING", "gone"}
      /\ \A i \in past : \/ Settled(i, list, made, stored) \/ i \in run.all
                         \/ run.at = "scan" /\ list[i] = "WAITING"
      /\ \A i \in UpDirs : list[i] = "DONE" => i \in made
      /\ \A i \in UpFiles : /\ list[i] = "DONE" => <<i, cx[i].k>> \in stored
                            /\ cx[i].known => <<i, cx[i].k>> \in stored
                            /\ CtxLive(cx[i]) => i \in run.all \ run.left
  BY DEF PageOK, ListOK
<1>4. /\ ~Running(run) => run.all = {}
      /\ run.at = "init" => run.item \in (UpFiles \cap run.all) \ run.left
      /\ run.at = "mkdir" => run.item \in (UpDirs \cap run.all) \ run.left
      /\ \A i \in UpFiles : CtxLive(cx[i]) =>
           /\ cx[i].at = "init" => run.at = "init" /\ run.item = i
           /\ run.at = "tail" => cx[i].at = "merge"
      /\ \A i \in run.all : \/ Settled(i, list, made, stored) \/ i \in run.left
                            \/ run.at = "mkdir" /\ run.item = i
                            \/ i \in UpFiles /\ CtxLive(cx[i])
      /\ run.at = "tail" => \A i \in run.left : list[i] = "gone"
  BY DEF PageOK
<1>5. UpFiles \subseteq UpItems /\ UpDirs \subseteq UpItems
  BY DEF UpItems
<1>6. ListOK(run, cx2, list2, made2, stored2, past2)
  <2>1. \A i \in past2 : \/ Settled(i, list2, made2, stored2) \/ i \in run.all
                         \/ run.at = "scan" /\ list2[i] = "WAITING"
    BY <1>1, <1>2, <1>3 DEF Settled
  <2>2. \A i \in UpDirs : list2[i] = "DONE" => i \in made2
    BY <1>3, <1>5
  <2>3. \A i \in UpFiles : /\ list2[i] = "DONE" => <<i, cx2[i].k>> \in stored2
                           /\ cx2[i].known => <<i, cx2[i].k>> \in stored2
                           /\ CtxLive(cx2[i]) => i \in run.all \ run.left
    BY <1>3, <1>5
  <2>4. /\ \A i \in run.all \cup past2 : list2[i] # "new"
        /\ \A i \in run.left : list2[i] \in {"WAITING", "gone"}
    BY <1>1, <1>3
  <2> QED BY <1>3, <2>1, <2>2, <2>3, <2>4 DEF ListOK
<1>7. \A i \in run.all : \/ Settled(i, list2, made2, stored2) \/ i \in run.left
                         \/ run.at = "mkdir" /\ run.item = i
                         \/ i \in UpFiles /\ CtxLive(cx2[i])
  <2> SUFFICES ASSUME NEW i \in run.all
               PROVE  \/ Settled(i, list2, made2, stored2) \/ i \in run.left
                      \/ run.at = "mkdir" /\ run.item = i
                      \/ i \in UpFiles /\ CtxLive(cx2[i])
    OBVIOUS
  <2>1. CASE Settled(i, list, made, stored)
    BY <2>1, <1>2, <1>3
  <2>2. CASE i \in UpFiles /\ CtxLive(cx[i])
    BY <2>2 DEF Settled
  <2> QED BY <2>1, <2>2, <1>4
<1>8. /\ \A i \in UpFiles : CtxLive(cx2[i]) =>
           /\ cx2[i].at = "init" => run.at = "init" /\ run.item = i
           /\ run.at = "tail" => cx2[i].at = "merge"
      /\ run.at = "tail" => \A i \in run.left : list2[i] = "gone"
  BY ZenonT(40), <1>1, <1>3, <1>4
<1>9. PageOK(run, cx2, list2, made2, stored2, past2)
  BY <1>4, <1>6, <1>7, <1>8 DEF PageOK
<1>10. \A i \in past : list[i] = "gone" \/ StoredItem(i, made, stored)
          => list2[i] = "gone" \/ StoredItem(i, made2, stored2)
  BY <1>1, <1>3
<1> QED BY <1>9, <1>10

(* Requests and aborts of sessions whose init was answered.                *)
LEMMA NetKept ==
  ASSUME NEW cx \in [UpFiles -> UpContexts], NEW cx2 \in [UpFiles -> UpContexts],
         NEW reqs \in SUBSET UpRequests, NEW reqs2 \in SUBSET UpRequests,
         NEW asks \in SUBSET UpAsks, NEW asks2 \in SUBSET asks,
         NEW abort, NEW abort2, NEW sess, NEW cut, NEW stored,
         NetOK(cx, reqs, asks, abort, sess, cut, stored),
         abort2 \cup cut \cup stored \subseteq UpSids,
         \A i \in UpFiles : cx2[i].k = cx[i].k,
         \A a \in asks2 : cx[a.sid[1]].at = "init" /\ a.sid[2] = cx[a.sid[1]].k
                            => cx2[a.sid[1]].at = "init",
         \A r \in reqs2 : \/ \E q \in reqs : q.sid = r.sid
                          \/ \E i \in UpFiles : /\ r.sid = <<i, cx[i].k>>
                                                /\ cx[i].at # "init",
         \A s \in abort2 : \/ s \in abort
                           \/ \E i \in UpFiles : s = <<i, cx[i].k>> /\ cx[i].at # "init"
  PROVE  NetOK(cx2, reqs2, asks2, abort2, sess, cut, stored)
<1>1. /\ \A s \in abort \cup cut \cup stored : Past(cx, s)
      /\ \A q \in reqs : Past(cx, q.sid)
      /\ \A s \in UpSids : sess[s].st # "none" => Past(cx, s)
  BY DEF NetOK
<1>2. \A a \in asks :
        /\ Past(cx, a.sid)
        /\ a.sid[2] = cx[a.sid[1]].k => cx[a.sid[1]].at = "init"
        /\ a.sid \notin abort \cup cut \cup stored
        /\ \A q \in reqs : q.sid # a.sid
        /\ a.at = "sent" => sess[a.sid].st = "none"
  BY DEF NetOK
<1>3. \A s \in UpSids : Past(cx, s) <=> Past(cx2, s)
  BY SidParts DEF Past
<1>4. \A i \in UpFiles : Past(cx, <<i, cx[i].k>>)
  BY CtxNumber DEF Past
<1>5. \A s \in abort2 \cup cut \cup stored : Past(cx2, s)
  BY <1>1, <1>3, <1>4
<1>6. \A q \in reqs2 : Past(cx2, q.sid)
  <2> SUFFICES ASSUME NEW r \in reqs2 PROVE Past(cx2, r.sid)
    OBVIOUS
  <2>1. r.sid \in UpSids
    BY RequestTyped
  <2>2. Past(cx, r.sid)
    BY <1>1, <1>4
  <2> QED BY <1>3, <2>1, <2>2
<1>7. \A s \in UpSids : sess[s].st # "none" => Past(cx2, s)
  BY <1>1, <1>3
<1>8. \A a \in asks2 :
        /\ Past(cx2, a.sid)
        /\ a.sid[2] = cx2[a.sid[1]].k => cx2[a.sid[1]].at = "init"
        /\ a.sid \notin abort2 \cup cut \cup stored
        /\ \A q \in reqs2 : q.sid # a.sid
        /\ a.at = "sent" => sess[a.sid].st = "none"
  <2> SUFFICES ASSUME NEW a \in asks2
               PROVE  /\ Past(cx2, a.sid)
                      /\ a.sid[2] = cx2[a.sid[1]].k => cx2[a.sid[1]].at = "init"
                      /\ a.sid \notin abort2 \cup cut \cup stored
                      /\ \A q \in reqs2 : q.sid # a.sid
                      /\ a.at = "sent" => sess[a.sid].st = "none"
    OBVIOUS
  <2>1. a \in asks /\ a.sid \in UpSids /\ a.sid[1] \in UpFiles
    BY AskTyped, SidParts
  <2>2. \A i \in UpFiles : cx[i].at # "init" => a.sid # <<i, cx[i].k>>
    BY <1>2, <2>1
  <2> QED BY <1>2, <1>3, <2>1, <2>2
<1>9. \A a, b \in asks2 : a.sid = b.sid => a = b
  BY DEF NetOK
<1> QED BY <1>5, <1>6, <1>7, <1>8, <1>9 DEF NetOK

(* A file is taken: its session is new.                                    *)
LEMMA NetTakes ==
  ASSUME NEW cx \in [UpFiles -> UpContexts], NEW cx2 \in [UpFiles -> UpContexts],
         NEW reqs \in SUBSET UpRequests, NEW asks \in SUBSET UpAsks, NEW asks2,
         NEW abort, NEW sess, NEW cut, NEW stored,
         NetOK(cx, reqs, asks, abort, sess, cut, stored),
         abort \cup cut \cup stored \subseteq UpSids,
         NEW i \in UpFiles, NEW k \in 1 .. UpSubmits, cx[i].k < k,
         \A j \in UpFiles \ {i} : cx2[j] = cx[j],
         cx2[i].k = k, cx2[i].at = "init",
         asks2 = asks \cup {[sid |-> <<i, k>>, at |-> "sent"]}
  PROVE  NetOK(cx2, reqs, asks2, abort, sess, cut, stored)
<1> DEFINE new == [sid |-> <<i, k>>, at |-> "sent"]
           sid == <<i, k>>
<1>1. /\ \A s \in abort \cup cut \cup stored : Past(cx, s)
      /\ \A q \in reqs : Past(cx, q.sid)
      /\ \A s \in UpSids : sess[s].st # "none" => Past(cx, s)
  BY DEF NetOK
<1>2. \A a \in asks :
        /\ Past(cx, a.sid)
        /\ a.sid[2] = cx[a.sid[1]].k => cx[a.sid[1]].at = "init"
        /\ a.sid \notin abort \cup cut \cup stored
        /\ \A q \in reqs : q.sid # a.sid
        /\ a.at = "sent" => sess[a.sid].st = "none"
  BY DEF NetOK
<1>3. sid \in UpSids /\ sid[1] = i /\ sid[2] = k /\ k \in Nat /\ cx[i].k \in Nat
  BY SidTyped, CtxNumber, UpConstants
<1>4. \A s \in UpSids : Past(cx, s) => Past(cx2, s) /\ s # sid
  <2> SUFFICES ASSUME NEW s \in UpSids, Past(cx, s) PROVE Past(cx2, s) /\ s # sid
    OBVIOUS
  <2>1. s[1] \in UpFiles /\ s[2] \in Nat /\ s[2] <= cx[s[1]].k
    BY SidParts DEF Past
  <2>2. CASE s[1] = i
    BY <1>3, <2>1, <2>2 DEF Past
  <2>3. CASE s[1] # i
    BY <1>3, <2>1, <2>3 DEF Past
  <2> QED BY <2>2, <2>3
<1>5. new.sid = sid /\ new.at = "sent"
  OBVIOUS
<1> HIDE DEF sid
<1>6. /\ \A s \in abort \cup cut \cup stored : Past(cx2, s) /\ s # sid
      /\ \A q \in reqs : Past(cx2, q.sid) /\ q.sid # sid
      /\ \A s \in UpSids : sess[s].st # "none" => Past(cx2, s) /\ s # sid
  <2>1. \A q \in reqs : q.sid \in UpSids
    BY RequestTyped
  <2> QED BY <1>1, <1>4, <2>1
<1>7. /\ Past(cx2, sid) /\ cx2[sid[1]].at = "init"
      /\ sid \notin abort \cup cut \cup stored /\ \A q \in reqs : q.sid # sid
      /\ sess[sid].st = "none"
  <2>1. Past(cx2, sid)
    BY <1>3 DEF Past
  <2> QED BY <1>3, <1>6, <2>1
<1>8. \A a \in asks : a.sid # sid /\ Past(cx2, a.sid)
                      /\ (a.sid[2] = cx2[a.sid[1]].k => cx2[a.sid[1]].at = "init")
  <2> SUFFICES ASSUME NEW a \in asks
               PROVE  a.sid # sid /\ Past(cx2, a.sid)
                      /\ (a.sid[2] = cx2[a.sid[1]].k => cx2[a.sid[1]].at = "init")
    OBVIOUS
  <2>1. a.sid \in UpSids /\ a.sid[1] \in UpFiles
    BY AskTyped, SidParts
  <2> QED BY <1>2, <1>4, <2>1
<1> HIDE DEF new
<1>9. \A a \in asks2 : a \in asks \/ a = new
  BY DEF new
<1>10. \A a \in asks2 :
        /\ Past(cx2, a.sid)
        /\ a.sid[2] = cx2[a.sid[1]].k => cx2[a.sid[1]].at = "init"
        /\ a.sid \notin abort \cup cut \cup stored
        /\ \A q \in reqs : q.sid # a.sid
        /\ a.at = "sent" => sess[a.sid].st = "none"
  BY <1>2, <1>5, <1>7, <1>8, <1>9
<1>11. \A a, b \in asks2 : a.sid = b.sid => a = b
  <2>1. \A a, b \in asks : a.sid = b.sid => a = b
    BY DEF NetOK
  <2> QED BY <2>1, <1>5, <1>8, <1>9
<1> QED BY <1>6, <1>10, <1>11 DEF NetOK

(* The page drops requests and sends new ones.                             *)
LEMMA ServesKept ==
  ASSUME NEW reqs, NEW reqs2, NEW sess, NEW cut, NEW stored,
         ServesOK(reqs, sess, cut, stored),
         \A r \in reqs2 : r.at = "sent" \/ \E q \in reqs : q.sid = r.sid /\ q.at = r.at /\ q.part = r.part,
         \A q, r \in reqs2 : q.sid = r.sid /\ q.at = "commit" /\ r.at = "commit" => q = r
  PROVE  ServesOK(reqs2, sess, cut, stored)
BY DEF ServesOK

(* ---------------------- the loop of a run goes on ----------------------- *)

LoopMid(run, cx, list, reqs, asks, abort, sess, cut, made, stored, past, n) ==
  /\ run \in UpRuns /\ cx \in [UpFiles -> UpContexts] /\ list \in [UpItems -> UpStatus]
  /\ reqs \in SUBSET UpRequests /\ asks \in SUBSET UpAsks
  /\ abort \cup cut \cup stored \subseteq UpSids
  /\ past \subseteq UpItems /\ n \in Nat
  /\ CountOK(run, cx, n) /\ LoopOK(run, cx, list, made, stored, past)
  /\ NetOK(cx, reqs, asks, abort, sess, cut, stored)
  /\ ServesOK(reqs, sess, cut, stored)

LoopDone(list, abort, sess, cut, made, stored, past, n) ==
  /\ CountOK(upRun', upCtx', n)
  /\ PageOK(upRun', upCtx', upList', made, stored, past)
  /\ NetOK(upCtx', upReq', upAsk', abort, sess, cut, stored)
  /\ ServesOK(upReq', sess, cut, stored)
  /\ \A i \in UpItems : list[i] = "new" => upList'[i] = "new"

LEMMA LoopTakes ==
  ASSUME NEW run, NEW cx, NEW list, NEW reqs, NEW asks, NEW abort, NEW sess, NEW cut,
         NEW made, NEW stored, NEW past, NEW n,
         LoopMid(run, cx, list, reqs, asks, abort, sess, cut, made, stored, past, n),
         RunOnTypes, upRun'.k = run.k, upRun'.all = run.all,
         NEW i \in run.left, Takes(run, cx, list, reqs, asks, i)
  PROVE  LoopDone(list, abort, sess, cut, made, stored, past, n)
<1>1. /\ run \in UpRuns /\ cx \in [UpFiles -> UpContexts]
      /\ reqs \in SUBSET UpRequests /\ asks \in SUBSET UpAsks
      /\ abort \cup cut \cup stored \subseteq UpSids /\ n \in Nat
      /\ CountOK(run, cx, n) /\ LoopOK(run, cx, list, made, stored, past)
      /\ NetOK(cx, reqs, asks, abort, sess, cut, stored)
      /\ ServesOK(reqs, sess, cut, stored)
  BY DEF LoopMid
<1>2. /\ upRun' \in UpRuns /\ upCtx' \in [UpFiles -> UpContexts]
  BY DEF RunOnTypes
<1>3. /\ i \in run.left /\ UpListed(list, i) /\ upReq' = reqs /\ upList' = list
      /\ upRun'.left = run.left \ {i} /\ upRun'.item = i
      /\ \/ i \in UpDirs /\ upRun'.at = "mkdir" /\ upCtx' = cx /\ upAsk' = asks
         \/ /\ i \in UpFiles /\ i \notin UpDirs /\ upRun'.at = "init"
            /\ \A j \in UpFiles \ {i} : upCtx'[j] = cx[j]
            /\ upCtx'[i].at = "init" /\ ~upCtx'[i].dead /\ upCtx'[i].k = run.k
            /\ ~upCtx'[i].known /\ upCtx'[i].fly = {}
            /\ upAsk' = asks \cup {[sid |-> <<i, run.k>>, at |-> "sent"]}
  BY DEF Takes
<1>4. /\ run.left \subseteq run.all
      /\ \A j \in run.all \cup past : list[j] # "new"
      /\ \A j \in run.left : list[j] \in {"WAITING", "gone"}
      /\ \A j \in past : Settled(j, list, made, stored) \/ j \in run.all
      /\ \A j \in UpDirs : list[j] = "DONE" => j \in made
      /\ \A j \in UpFiles : /\ list[j] = "DONE" => <<j, cx[j].k>> \in stored
                            /\ cx[j].known => <<j, cx[j].k>> \in stored
                            /\ CtxLive(cx[j]) => j \in run.all \ run.left
      /\ run.at # "scan" /\ run.k > 0
      /\ \A j \in UpFiles : CtxLive(cx[j]) => cx[j].at # "init"
      /\ \A j \in run.all : \/ Settled(j, list, made, stored) \/ j \in run.left
                            \/ j \in UpFiles /\ CtxLive(cx[j])
  BY <1>1 DEF LoopOK, ListOK
<1>5. /\ run.k <= n
      /\ \A j \in UpFiles : /\ cx[j].k <= n
                            /\ cx[j].at # "none" => cx[j].k > 0
                            /\ cx[j].at \in {"none", "init"} => cx[j].fly = {}
                            /\ j \in run.left => cx[j].k < run.k
  BY <1>1 DEF CountOK
<1>6. run.k \in 1 .. UpSubmits
  <2>1. run.k \in 0 .. UpSubmits
    BY <1>1, RunTyped
  <2> QED BY <1>4, <2>1, UpConstants
<1>7. \A j \in UpItems : list[j] = "new" => upList'[j] = "new"
  BY <1>3
<1>8. CASE i \in UpDirs /\ upRun'.at = "mkdir" /\ upCtx' = cx /\ upAsk' = asks
  <2>1. i \notin UpFiles
    BY <1>8, UpConstants
  <2>2. CountOK(upRun', upCtx', n)
    BY <1>3, <1>4, <1>5, <1>8 DEF CountOK
  <2>3. ListOK(upRun', upCtx', upList', made, stored, past)
    BY <1>3, <1>4, <1>8, <2>1 DEF ListOK
  <2>4. PageOK(upRun', upCtx', upList', made, stored, past)
    BY <1>3, <1>4, <1>8, <2>1, <2>3 DEF PageOK, Running
  <2> QED BY <1>1, <1>3, <1>7, <1>8, <2>2, <2>4 DEF LoopDone
<1>9. CASE /\ i \in UpFiles /\ i \notin UpDirs /\ upRun'.at = "init"
           /\ \A j \in UpFiles \ {i} : upCtx'[j] = cx[j]
           /\ upCtx'[i].at = "init" /\ ~upCtx'[i].dead /\ upCtx'[i].k = run.k
           /\ ~upCtx'[i].known /\ upCtx'[i].fly = {}
           /\ upAsk' = asks \cup {[sid |-> <<i, run.k>>, at |-> "sent"]}
  <2>1. CtxLive(upCtx'[i])
    BY <1>9 DEF CtxLive
  <2>2. CountOK(upRun', upCtx', n)
    <3>1. upRun'.k <= n /\ upRun'.k > 0 /\ upRun'.at # "scan"
      BY <1>4, <1>5, <1>9
    <3>2. \A j \in UpFiles : /\ upCtx'[j].k <= n
                             /\ upCtx'[j].at # "none" => upCtx'[j].k > 0
                             /\ upCtx'[j].at \in {"none", "init"} => upCtx'[j].fly = {}
                             /\ j \in upRun'.left => upCtx'[j].k < upRun'.k
      <4> SUFFICES ASSUME NEW j \in UpFiles
                   PROVE  /\ upCtx'[j].k <= n
                          /\ upCtx'[j].at # "none" => upCtx'[j].k > 0
                          /\ upCtx'[j].at \in {"none", "init"} => upCtx'[j].fly = {}
                          /\ j \in upRun'.left => upCtx'[j].k < upRun'.k
        OBVIOUS
      <4>1. CASE j = i
        BY <1>3, <1>4, <1>5, <1>9, <4>1
      <4>2. CASE j # i
        BY <1>3, <1>4, <1>5, <1>9, <4>2
      <4> QED BY <4>1, <4>2
    <3> QED BY <3>1, <3>2 DEF CountOK
  <2>3. ListOK(upRun', upCtx', upList', made, stored, past)
    <3>1. \A j \in UpFiles : /\ upList'[j] = "DONE" => <<j, upCtx'[j].k>> \in stored
                             /\ upCtx'[j].known => <<j, upCtx'[j].k>> \in stored
                             /\ CtxLive(upCtx'[j]) => j \in upRun'.all \ upRun'.left
      <4> SUFFICES ASSUME NEW j \in UpFiles
                   PROVE  /\ upList'[j] = "DONE" => <<j, upCtx'[j].k>> \in stored
                          /\ upCtx'[j].known => <<j, upCtx'[j].k>> \in stored
                          /\ CtxLive(upCtx'[j]) => j \in upRun'.all \ upRun'.left
        OBVIOUS
      <4>1. CASE j = i
        BY <1>3, <1>4, <1>9, <4>1
      <4>2. CASE j # i
        BY <1>3, <1>4, <1>9, <4>2
      <4> QED BY <4>1, <4>2
    <3> QED BY <1>3, <1>4, <3>1 DEF ListOK
  <2>4. \A j \in UpFiles : CtxLive(upCtx'[j]) => (upCtx'[j].at = "init" => j = i)
    BY <1>4, <1>9
  <2>5. \A j \in run.all : \/ Settled(j, list, made, stored) \/ j \in upRun'.left
                           \/ j \in UpFiles /\ CtxLive(upCtx'[j])
    BY <1>3, <1>4, <1>9, <2>1
  <2>6. PageOK(upRun', upCtx', upList', made, stored, past)
    BY <1>3, <1>4, <1>9, <2>3, <2>4, <2>5 DEF PageOK, Running
  <2>7. NetOK(upCtx', upReq', upAsk', abort, sess, cut, stored)
    <3>1. cx[i].k < run.k
      BY <1>5, <1>9
    <3> QED BY <1>1, <1>2, <1>3, <1>6, <1>9, <3>1, NetTakes
  <2> QED BY <1>1, <1>3, <1>7, <2>2, <2>6, <2>7 DEF LoopDone
<1> QED BY <1>3, <1>8, <1>9

LEMMA LoopRefills ==
  ASSUME NEW run, NEW cx, NEW list, NEW reqs, NEW asks, NEW abort, NEW sess, NEW cut,
         NEW made, NEW stored, NEW past, NEW n,
         LoopMid(run, cx, list, reqs, asks, abort, sess, cut, made, stored, past, n),
         RunOnTypes, upRun'.k = run.k, upRun'.all = run.all,
         Refills(run, cx, list, reqs, asks)
  PROVE  LoopDone(list, abort, sess, cut, made, stored, past, n)
<1>1. /\ run \in UpRuns /\ cx \in [UpFiles -> UpContexts]
      /\ reqs \in SUBSET UpRequests /\ asks \in SUBSET UpAsks
      /\ abort \cup cut \cup stored \subseteq UpSids /\ n \in Nat /\ past \subseteq UpItems
      /\ CountOK(run, cx, n) /\ LoopOK(run, cx, list, made, stored, past)
      /\ NetOK(cx, reqs, asks, abort, sess, cut, stored)
      /\ ServesOK(reqs, sess, cut, stored)
  BY DEF LoopMid
<1>2. /\ upRun' \in UpRuns /\ upCtx' \in [UpFiles -> UpContexts]
      /\ upReq' \in SUBSET UpRequests
  BY DEF RunOnTypes
<1>3. /\ upAsk' = asks /\ upRun'.left = run.left
      /\ \A i \in UpFiles :
           /\ Steady(cx[i], upCtx'[i])
           /\ upCtx'[i].at = cx[i].at
              \/ (cx[i].at = "up" /\ ~cx[i].dead /\ upCtx'[i].at = "merge")
           /\ upCtx'[i].fly # cx[i].fly => cx[i].at = "up"
      /\ \A r \in upReq' : r \in reqs \/ \E i \in UpFiles : NewFor(cx, i, r)
      /\ \A i \in UpItems :
           upList'[i] = list[i]
           \/ /\ upList'[i] = "MERGING" /\ UpListed(list, i)
              /\ i \in UpFiles /\ cx[i].at = "up" /\ ~cx[i].dead
      /\ \/ upRun'.at = "race"
         \/ /\ upRun'.at = "tail"
            /\ \A i \in run.left : ~UpListed(list, i)
            /\ \A i \in UpFiles : ~(upCtx'[i].at = "up" /\ ~upCtx'[i].dead)
  BY DEF Refills
<1>4. /\ run.left \subseteq run.all
      /\ \A j \in run.all \cup past : list[j] # "new"
      /\ \A j \in run.left : list[j] \in {"WAITING", "gone"}
      /\ \A j \in past : Settled(j, list, made, stored) \/ j \in run.all
      /\ \A j \in UpDirs : list[j] = "DONE" => j \in made
      /\ \A j \in UpFiles : /\ list[j] = "DONE" => <<j, cx[j].k>> \in stored
                            /\ cx[j].known => <<j, cx[j].k>> \in stored
                            /\ CtxLive(cx[j]) => j \in run.all \ run.left
      /\ run.at # "scan" /\ run.k > 0
      /\ \A j \in UpFiles : CtxLive(cx[j]) => cx[j].at # "init"
      /\ \A j \in run.all : \/ Settled(j, list, made, stored) \/ j \in run.left
                            \/ j \in UpFiles /\ CtxLive(cx[j])
  BY <1>1 DEF LoopOK, ListOK
<1>5. /\ run.k <= n
      /\ \A j \in UpFiles : /\ cx[j].k <= n
                            /\ cx[j].at # "none" => cx[j].k > 0
                            /\ cx[j].at \in {"none", "init"} => cx[j].fly = {}
                            /\ j \in run.left => cx[j].k < run.k
  BY <1>1 DEF CountOK
<1>6. \A j \in UpFiles : /\ upCtx'[j].k = cx[j].k /\ upCtx'[j].dead = cx[j].dead
                         /\ upCtx'[j].known => cx[j].known
                         /\ upCtx'[j].at # "none" => cx[j].at # "none"
                         /\ upCtx'[j].at \in {"none", "init"} =>
                              upCtx'[j].at = cx[j].at /\ upCtx'[j].fly = cx[j].fly
                         /\ CtxLive(upCtx'[j]) <=> CtxLive(cx[j])
  BY <1>3 DEF Steady, CtxLive
<1>7. \A j \in UpItems : \/ upList'[j] = list[j]
                         \/ /\ upList'[j] = "MERGING" /\ list[j] \notin {"new", "gone"}
                            /\ j \in UpFiles /\ CtxLive(cx[j])
  BY <1>3 DEF UpListed, CtxLive
<1>8. run.all \subseteq UpItems /\ UpFiles \subseteq UpItems /\ UpDirs \subseteq UpItems
  <2>1. run.all \in SUBSET UpItems
    BY <1>1, RunTyped
  <2> QED BY <2>1 DEF UpItems
<1>9. CountOK(upRun', upCtx', n)
  BY <1>3, <1>4, <1>5, <1>6 DEF CountOK
<1>10. \A j \in run.all \cup past : Settled(j, list, made, stored) =>
         Settled(j, upList', made, stored) \/ (j \in UpFiles /\ CtxLive(upCtx'[j]))
  BY <1>1, <1>6, <1>7, <1>8 DEF Settled
<1>11. ListOK(upRun', upCtx', upList', made, stored, past)
  <2>1. \A j \in run.all \cup past : upList'[j] # "new"
    BY <1>1, <1>4, <1>7, <1>8
  <2>2. \A j \in run.left : upList'[j] \in {"WAITING", "gone"}
    BY <1>4, <1>7, <1>8
  <2>3. \A j \in past : Settled(j, upList', made, stored) \/ j \in run.all
    BY <1>4, <1>6, <1>10
  <2>4. \A j \in UpDirs : upList'[j] = "DONE" => j \in made
    BY <1>4, <1>7, <1>8
  <2>5. \A j \in UpFiles : /\ upList'[j] = "DONE" => <<j, upCtx'[j].k>> \in stored
                           /\ upCtx'[j].known => <<j, upCtx'[j].k>> \in stored
                           /\ CtxLive(upCtx'[j]) => j \in run.all \ run.left
    BY <1>4, <1>6, <1>7, <1>8
  <2> QED BY <1>3, <1>4, <2>1, <2>2, <2>3, <2>4, <2>5 DEF ListOK
<1>12. PageOK(upRun', upCtx', upList', made, stored, past)
  <2>1. \A j \in run.all : \/ Settled(j, upList', made, stored) \/ j \in run.left
                           \/ j \in UpFiles /\ CtxLive(upCtx'[j])
    BY <1>4, <1>6, <1>10
  <2>2. \A j \in UpFiles : CtxLive(upCtx'[j]) => upCtx'[j].at # "init"
    BY <1>4, <1>6
  <2>3. upRun'.at = "tail" =>
          /\ \A j \in UpFiles : CtxLive(upCtx'[j]) => upCtx'[j].at = "merge"
          /\ \A j \in run.left : upList'[j] = "gone"
    <3> SUFFICES ASSUME upRun'.at = "tail"
                 PROVE  /\ \A j \in UpFiles : CtxLive(upCtx'[j]) => upCtx'[j].at = "merge"
                        /\ \A j \in run.left : upList'[j] = "gone"
      OBVIOUS
    <3>1. /\ \A i \in run.left : ~UpListed(list, i)
          /\ \A i \in UpFiles : ~(upCtx'[i].at = "up" /\ ~upCtx'[i].dead)
      BY <1>3
    <3>2. \A j \in UpFiles : CtxLive(upCtx'[j]) => upCtx'[j].at = "merge"
      BY <2>2, <3>1 DEF CtxLive
    <3>3. \A j \in run.left : upList'[j] = "gone"
      BY <1>4, <1>7, <1>8, <3>1 DEF UpListed
    <3> QED BY <3>2, <3>3
  <2> QED BY <1>3, <1>11, <2>1, <2>2, <2>3 DEF PageOK, Running
<1>13. NetOK(upCtx', upReq', upAsk', abort, sess, cut, stored)
  <2>1. \A i \in UpFiles : upCtx'[i].k = cx[i].k
    BY <1>6
  <2>2. \A a \in asks : cx[a.sid[1]].at = "init" /\ a.sid[2] = cx[a.sid[1]].k
                          => upCtx'[a.sid[1]].at = "init"
    <3>1. \A a \in asks : a.sid[1] \in UpFiles
      BY <1>1, AskTyped, SidParts
    <3> QED BY <1>3, <3>1
  <2>3. \A r \in upReq' : \/ \E q \in reqs : q.sid = r.sid
                          \/ \E i \in UpFiles : r.sid = <<i, cx[i].k>> /\ cx[i].at # "init"
    BY <1>3 DEF NewFor
  <2> QED BY <1>1, <1>2, <1>3, <2>1, <2>2, <2>3, NetKept
<1>14. ServesOK(upReq', sess, cut, stored)
  <2>1. \A r \in upReq' : r \in reqs \/ r.at = "sent"
    BY <1>3 DEF NewFor
  <2>2. \A q, r \in upReq' : q.sid = r.sid /\ q.at = "commit" /\ r.at = "commit" => q = r
    BY <1>1, <2>1 DEF ServesOK
  <2> QED BY <1>1, <2>1, <2>2, ServesKept
<1>15. \A j \in UpItems : list[j] = "new" => upList'[j] = "new"
  BY <1>7
<1> QED BY <1>9, <1>12, <1>13, <1>14, <1>15 DEF LoopDone

(* A file whose last chunk has settled begins to be merged.                *)
LEMMA LoopMerges ==
  ASSUME NEW run, NEW cx, NEW list, NEW reqs, NEW asks, NEW abort, NEW sess, NEW cut,
         NEW made, NEW stored, NEW past, NEW n,
         LoopMid(run, cx, list, reqs, asks, abort, sess, cut, made, stored, past, n),
         NEW cx2, cx2 = MaybeComplete(cx), NEW list2, list2 = Merging(cx, cx2, list),
         NEW reqs2, reqs2 = reqs \cup NewRequests(cx, cx2)
  PROVE  /\ LoopMid(run, cx2, list2, reqs2, asks, abort, sess, cut, made, stored, past, n)
         /\ \A i \in UpItems : list[i] = "new" => list2[i] = "new"
<1>1. /\ run \in UpRuns /\ cx \in [UpFiles -> UpContexts] /\ list \in [UpItems -> UpStatus]
      /\ reqs \in SUBSET UpRequests /\ asks \in SUBSET UpAsks
      /\ abort \cup cut \cup stored \subseteq UpSids /\ n \in Nat /\ past \subseteq UpItems
      /\ CountOK(run, cx, n) /\ LoopOK(run, cx, list, made, stored, past)
      /\ NetOK(cx, reqs, asks, abort, sess, cut, stored)
      /\ ServesOK(reqs, sess, cut, stored)
  BY DEF LoopMid
<1>2. \A i \in UpFiles :
        /\ cx2[i] \in UpContexts /\ cx2[i].dead = cx[i].dead /\ cx2[i].k = cx[i].k
        /\ cx2[i].known = cx[i].known /\ cx2[i].fly = cx[i].fly
        /\ cx2[i].at = cx[i].at \/ (cx[i].at = "up" /\ ~cx[i].dead /\ cx2[i].at = "merge")
  BY <1>1, CompleteSteady
<1>3. cx2 \in [UpFiles -> UpContexts]
  <2>1. DOMAIN cx2 = UpFiles /\ cx2 = [i \in UpFiles |-> cx2[i]]
    BY DEF MaybeComplete
  <2> QED BY <1>2, <2>1
<1>4. \A j \in UpItems : \/ list2[j] = list[j]
                         \/ /\ list2[j] = "MERGING" /\ list[j] \notin {"new", "gone"}
                            /\ j \in UpFiles /\ CtxLive(cx[j])
  <2> SUFFICES ASSUME NEW j \in UpItems, list2[j] # list[j]
               PROVE  /\ list2[j] = "MERGING" /\ list[j] \notin {"new", "gone"}
                      /\ j \in UpFiles /\ CtxLive(cx[j])
    OBVIOUS
  <2>1. /\ j \in UpFiles /\ cx[j].at = "up" /\ cx2[j].at = "merge"
        /\ UpListed(list, j) /\ list2[j] = "MERGING"
    BY DEF Merging
  <2>2. ~cx[j].dead
    BY <1>2, <2>1
  <2> QED BY <2>1, <2>2 DEF UpListed, CtxLive
<1>5. list2 \in [UpItems -> UpStatus]
  BY <1>1 DEF Merging, UpStatus
<1>6. \A r \in reqs2 : r \in UpRequests /\ (r \in reqs \/ \E i \in UpFiles : NewFor(cx, i, r))
  <2>1. \A i \in UpFiles :
          /\ Steady(cx[i], cx2[i])
          /\ cx2[i].at = cx[i].at \/ (cx[i].at = "up" /\ cx2[i].at = "merge")
          /\ cx2[i].fly # cx[i].fly => cx[i].at = "up"
          /\ cx[i].at # "none" => cx[i].k > 0
    BY <1>1, <1>2 DEF Steady, CountOK
  <2>2. \A r \in NewRequests(cx, cx2) :
          r \in UpRequests /\ \E i \in UpFiles : NewFor(cx, i, r)
    BY <1>1, <1>3, <2>1, SentRequests
  <2> QED BY <1>1, <2>2
<1>7. reqs2 \in SUBSET UpRequests
  BY <1>6
<1>8. \A j \in UpFiles : CtxLive(cx2[j]) <=> CtxLive(cx[j])
  BY <1>2 DEF CtxLive
<1>9. CountOK(run, cx2, n)
  BY <1>1, <1>2 DEF CountOK
<1>10. run.all \subseteq UpItems /\ UpFiles \subseteq UpItems /\ UpDirs \subseteq UpItems
       /\ UpFiles \cap UpDirs = {}
  <2>1. run.all \in SUBSET UpItems
    BY <1>1, RunTyped
  <2> QED BY <2>1, UpConstants DEF UpItems
<1>11. LoopOK(run, cx2, list2, made, stored, past)
  <2>1. /\ run.left \subseteq run.all
        /\ \A j \in run.all \cup past : list[j] # "new"
        /\ \A j \in run.left : list[j] \in {"WAITING", "gone"}
        /\ \A j \in past : Settled(j, list, made, stored) \/ j \in run.all
        /\ \A j \in UpDirs : list[j] = "DONE" => j \in made
        /\ \A j \in UpFiles : /\ list[j] = "DONE" => <<j, cx[j].k>> \in stored
                              /\ cx[j].known => <<j, cx[j].k>> \in stored
                              /\ CtxLive(cx[j]) => j \in run.all \ run.left
        /\ run.at # "scan" /\ run.k > 0
        /\ \A j \in UpFiles : CtxLive(cx[j]) => cx[j].at # "init"
        /\ \A j \in run.all : \/ Settled(j, list, made, stored) \/ j \in run.left
                              \/ j \in UpFiles /\ CtxLive(cx[j])
    BY <1>1 DEF LoopOK, ListOK
  <2>2. \A j \in run.all \cup past : Settled(j, list, made, stored) =>
          Settled(j, list2, made, stored) \/ (j \in UpFiles /\ CtxLive(cx2[j]))
    BY <1>1, <1>4, <1>8, <1>10 DEF Settled
  <2>3. \A j \in run.all \cup past : list2[j] # "new"
    BY <1>1, <1>4, <1>10, <2>1
  <2>4. \A j \in run.left : list2[j] \in {"WAITING", "gone"}
    BY <1>4, <1>10, <2>1
  <2>5. \A j \in past : Settled(j, list2, made, stored) \/ j \in run.all
    BY <1>8, <2>1, <2>2
  <2>6. \A j \in UpDirs : list2[j] = "DONE" => j \in made
    BY <1>4, <1>10, <2>1
  <2>7. \A j \in UpFiles : /\ list2[j] = "DONE" => <<j, cx2[j].k>> \in stored
                           /\ cx2[j].known => <<j, cx2[j].k>> \in stored
                           /\ CtxLive(cx2[j]) => j \in run.all \ run.left
    BY <1>2, <1>4, <1>8, <1>10, <2>1
  <2>8. \A j \in UpFiles : CtxLive(cx2[j]) => cx2[j].at # "init"
    BY <1>2, <1>8, <2>1
  <2>9. \A j \in run.all : \/ Settled(j, list2, made, stored) \/ j \in run.left
                           \/ j \in UpFiles /\ CtxLive(cx2[j])
    BY <1>8, <2>1, <2>2
  <2>10. ListOK(run, cx2, list2, made, stored, past)
    BY <2>1, <2>3, <2>4, <2>5, <2>6, <2>7 DEF ListOK
  <2> QED BY <2>1, <2>8, <2>9, <2>10 DEF LoopOK
<1>12. NetOK(cx2, reqs2, asks, abort, sess, cut, stored)
  <2>1. \A i \in UpFiles : cx2[i].k = cx[i].k
    BY <1>2
  <2>2. \A a \in asks : cx[a.sid[1]].at = "init" /\ a.sid[2] = cx[a.sid[1]].k
                          => cx2[a.sid[1]].at = "init"
    <3>1. \A a \in asks : a.sid[1] \in UpFiles
      BY <1>1, AskTyped, SidParts
    <3> QED BY <1>2, <3>1
  <2>3. \A r \in reqs2 : \/ \E q \in reqs : q.sid = r.sid
                         \/ \E i \in UpFiles : r.sid = <<i, cx[i].k>> /\ cx[i].at # "init"
    BY <1>6 DEF NewFor
  <2> QED BY <1>1, <1>3, <1>7, <2>1, <2>2, <2>3, NetKept
<1>13. ServesOK(reqs2, sess, cut, stored)
  <2>1. \A r \in reqs2 : r \in reqs \/ r.at = "sent"
    BY <1>6 DEF NewFor
  <2>2. \A q, r \in reqs2 : q.sid = r.sid /\ q.at = "commit" /\ r.at = "commit" => q = r
    BY <1>1, <2>1 DEF ServesOK
  <2> QED BY <1>1, <2>1, <2>2, ServesKept
<1> QED BY <1>1, <1>3, <1>4, <1>5, <1>7, <1>9, <1>11, <1>12, <1>13 DEF LoopMid

LEMMA LoopFills ==
  ASSUME NEW run, NEW cx, NEW list, NEW reqs, NEW asks, NEW abort, NEW sess, NEW cut,
         NEW made, NEW stored, NEW past, NEW n,
         LoopMid(run, cx, list, reqs, asks, abort, sess, cut, made, stored, past, n),
         TakeOrFill(run, cx, list, reqs, asks)
  PROVE  RunOnTypes /\ LoopDone(list, abort, sess, cut, made, stored, past, n)
<1>1. /\ run \in UpRuns /\ cx \in [UpFiles -> UpContexts] /\ list \in [UpItems -> UpStatus]
      /\ reqs \in SUBSET UpRequests /\ asks \in SUBSET UpAsks
  BY DEF LoopMid
<1>2. run.k > 0 /\ \A i \in UpFiles : cx[i].at # "none" => cx[i].k > 0
  BY DEF LoopMid, LoopOK, CountOK
<1>3. /\ RunOnTypes
      /\ upRun'.k = run.k /\ upRun'.all = run.all
      /\ \/ \E i \in run.left : Takes(run, cx, list, reqs, asks, i)
         \/ Refills(run, cx, list, reqs, asks)
  BY <1>1, <1>2, FillDoes
<1>4. CASE \E i \in run.left : Takes(run, cx, list, reqs, asks, i)
  BY <1>3, <1>4, LoopTakes
<1>5. CASE Refills(run, cx, list, reqs, asks)
  BY <1>3, <1>5, LoopRefills
<1> QED BY <1>3, <1>4, <1>5

LEMMA LoopsOn ==
  ASSUME NEW run, NEW cx, NEW list, NEW reqs, NEW asks, NEW abort, NEW sess, NEW cut,
         NEW made, NEW stored, NEW past, NEW n,
         LoopMid(run, cx, list, reqs, asks, abort, sess, cut, made, stored, past, n),
         RunOn(run, cx, list, reqs, asks)
  PROVE  RunOnTypes /\ LoopDone(list, abort, sess, cut, made, stored, past, n)
<1> DEFINE cx2 == MaybeComplete(cx)
           list2 == Merging(cx, cx2, list)
           reqs2 == reqs \cup NewRequests(cx, cx2)
<1>1. TakeOrFill(run, cx2, list2, reqs2, asks)
  BY DEF RunOn
<1>2. /\ LoopMid(run, cx2, list2, reqs2, asks, abort, sess, cut, made, stored, past, n)
      /\ \A i \in UpItems : list[i] = "new" => list2[i] = "new"
  BY LoopMerges
<1> HIDE DEF cx2, list2, reqs2
<1>3. RunOnTypes /\ LoopDone(list2, abort, sess, cut, made, stored, past, n)
  BY <1>1, <1>2, LoopFills
<1> QED BY <1>2, <1>3 DEF LoopDone

(* ----------------- steps that leave the run where it is ----------------- *)

LEMMA UpTypes ==
  ASSUME UpTypeOK
  PROVE  /\ upList \in [UpItems -> UpStatus] /\ upRun \in UpRuns
         /\ {upLocked, upAwait, upEarly} \subseteq BOOLEAN
         /\ upScan \in {"none", "scanning", "over"} /\ upReading \subseteq UpFiles
         /\ upCtx \in [UpFiles -> UpContexts]
         /\ upReq \in SUBSET UpRequests /\ upAsk \in SUBSET UpAsks
         /\ upAbort \cup upCut \cup upStored \subseteq UpSids
         /\ upSess \in [UpSids -> UpSessions]
         /\ upMade \subseteq UpDirs /\ Earlier \subseteq UpItems
         /\ upEnding \subseteq SUBSET UpItems /\ upTaken \subseteq UpItems
         /\ upCount \in [{"submit", "fault", "remove"} -> Nat] /\ upCount["submit"] \in Nat
BY DEF UpTypeOK, Earlier

LEMMA CutKeeps ==
  ASSUME UpTypeOK, UpCountInv, UpServeInv, NEW I
  PROVE  /\ CutCtx(upCtx, I) \in [UpFiles -> UpContexts]
         /\ \A i \in UpFiles :
              /\ CutCtx(upCtx, I)[i].k = upCtx[i].k /\ CutCtx(upCtx, I)[i].at = upCtx[i].at
              /\ CutCtx(upCtx, I)[i].known = upCtx[i].known
              /\ CutCtx(upCtx, I)[i].fly = upCtx[i].fly
              /\ CtxLive(CutCtx(upCtx, I)[i]) <=> CtxLive(upCtx[i]) /\ i \notin I
         /\ CutReq(upReq, I) \in SUBSET UpRequests
         /\ \A r \in CutReq(upReq, I) : \E q \in upReq : q.sid = r.sid /\ q.at = r.at /\ q.part = r.part
         /\ \A q, r \in CutReq(upReq, I) :
              q.sid = r.sid /\ q.at = "commit" /\ r.at = "commit" => q = r
         /\ CutTold(I) \subseteq UpSids
         /\ \A s \in CutTold(I) : \E i \in UpFiles : /\ s = <<i, upCtx[i].k>>
                                                     /\ upCtx[i].at # "init"
<1> DEFINE cx == CutCtx(upCtx, I)
<1>1. \A i \in UpFiles : UpLive(i) <=> CtxLive(upCtx[i])
  BY DEF UpLive, CtxLive
<1>2. \A i \in UpFiles :
        /\ cx[i] \in UpContexts
        /\ cx[i].k = upCtx[i].k /\ cx[i].at = upCtx[i].at
        /\ cx[i].known = upCtx[i].known /\ cx[i].fly = upCtx[i].fly
        /\ CtxLive(cx[i]) <=> CtxLive(upCtx[i]) /\ i \notin I
  <2> SUFFICES ASSUME NEW i \in UpFiles
               PROVE  /\ cx[i] \in UpContexts
                      /\ cx[i].k = upCtx[i].k /\ cx[i].at = upCtx[i].at
                      /\ cx[i].known = upCtx[i].known /\ cx[i].fly = upCtx[i].fly
                      /\ CtxLive(cx[i]) <=> CtxLive(upCtx[i]) /\ i \notin I
    OBVIOUS
  <2>1. upCtx[i] \in UpContexts
    BY UpTypes
  <2>2. cx[i] = IF i \in I /\ UpLive(i) THEN [upCtx[i] EXCEPT !.dead = TRUE] ELSE upCtx[i]
    BY DEF CutCtx
  <2>3. CASE i \in I /\ UpLive(i)
    <3> DEFINE c == upCtx[i]
               d == cx[i]
    <3>1. c \in UpContexts /\ d = [c EXCEPT !.dead = TRUE]
      BY <2>1, <2>2, <2>3
    <3> HIDE DEF c, d
    <3>2. /\ d \in UpContexts /\ d.k = c.k /\ d.at = c.at /\ d.known = c.known
          /\ d.fly = c.fly /\ d.dead
      BY <3>1 DEF UpContexts
    <3> QED BY <3>2, <2>3 DEF c, d, CtxLive
  <2>4. CASE ~(i \in I /\ UpLive(i))
    BY <1>1, <2>1, <2>2, <2>4
  <2> QED BY <2>3, <2>4
<1>3. cx \in [UpFiles -> UpContexts]
  <2>1. cx = [i \in UpFiles |-> cx[i]]
    BY DEF CutCtx
  <2> HIDE DEF cx
  <2> QED BY <1>2, <2>1
<1>4. \A q \in upReq : LET r == [q EXCEPT !.live = @ /\ q.sid \notin CutSids(I)]
                       IN r \in UpRequests /\ r.sid = q.sid /\ r.at = q.at /\ r.part = q.part
  <2> SUFFICES ASSUME NEW q \in upReq
               PROVE  LET r == [q EXCEPT !.live = @ /\ q.sid \notin CutSids(I)]
                      IN r \in UpRequests /\ r.sid = q.sid /\ r.at = q.at /\ r.part = q.part
    OBVIOUS
  <2>1. q \in UpRequests
    BY UpTypes
  <2>2. \A b \in BOOLEAN : LET r == [q EXCEPT !.live = b]
                           IN r \in UpRequests /\ r.sid = q.sid /\ r.at = q.at /\ r.part = q.part
    BY <2>1 DEF UpRequests
  <2>3. (q.live /\ q.sid \notin CutSids(I)) \in BOOLEAN
    OBVIOUS
  <2> QED BY <2>2, <2>3, Zenon
<1>5. \A r \in CutReq(upReq, I) :
        \E q \in upReq : r = [q EXCEPT !.live = @ /\ q.sid \notin CutSids(I)]
  BY DEF CutReq
<1>6. \A r \in CutReq(upReq, I) :
        r \in UpRequests /\ \E q \in upReq : q.sid = r.sid /\ q.at = r.at /\ q.part = r.part
  <2> SUFFICES ASSUME NEW r \in CutReq(upReq, I)
               PROVE  r \in UpRequests /\ \E q \in upReq : q.sid = r.sid /\ q.at = r.at /\ q.part = r.part
    OBVIOUS
  <2>1. PICK q \in upReq : r = [q EXCEPT !.live = @ /\ q.sid \notin CutSids(I)]
    BY <1>5
  <2>2. r \in UpRequests /\ r.sid = q.sid /\ r.at = q.at /\ r.part = q.part
    BY <1>4, <2>1, Zenon
  <2> QED BY <2>2
<1>7. \A q, r \in CutReq(upReq, I) :
        q.sid = r.sid /\ q.at = "commit" /\ r.at = "commit" => q = r
  <2> SUFFICES ASSUME NEW q \in CutReq(upReq, I), NEW r \in CutReq(upReq, I),
                      q.sid = r.sid, q.at = "commit", r.at = "commit"
               PROVE  q = r
    OBVIOUS
  <2>1. PICK q0 \in upReq : q = [q0 EXCEPT !.live = @ /\ q0.sid \notin CutSids(I)]
    BY <1>5
  <2>2. PICK r0 \in upReq : r = [r0 EXCEPT !.live = @ /\ r0.sid \notin CutSids(I)]
    BY <1>5
  <2>3. q.sid = q0.sid /\ q.at = q0.at /\ r.sid = r0.sid /\ r.at = r0.at
    BY <1>4, <2>1, <2>2, Zenon
  <2>4. q0 = r0
    BY <2>3 DEF UpServeInv, ServesOK
  <2> QED BY <2>1, <2>2, <2>4
<1>8. \A s \in CutTold(I) :
        s \in UpSids /\ \E i \in UpFiles : s = <<i, upCtx[i].k>> /\ upCtx[i].at # "init"
  <2> SUFFICES ASSUME NEW s \in CutTold(I)
               PROVE  s \in UpSids /\ \E i \in UpFiles : /\ s = <<i, upCtx[i].k>>
                                                         /\ upCtx[i].at # "init"
    OBVIOUS
  <2>1. PICK i \in UpFiles : UpLive(i) /\ s = <<i, upCtx[i].k>> /\ upCtx[s[1]].at # "init"
    BY DEF CutTold, CutSids, UpSid
  <2>2. upCtx[i].at # "init" /\ upCtx[i].at # "none"
    BY <2>1 DEF UpLive
  <2>3. upCtx[i].k \in 1 .. UpSubmits
    <3>1. upCtx[i].k \in 0 .. UpSubmits
      BY UpTypes, CtxTyped
    <3>2. upCtx[i].k > 0
      BY <2>2 DEF UpCountInv, CountOK
    <3> QED BY <3>1, <3>2, UpConstants
  <2> QED BY <2>1, <2>2, <2>3, SidTyped
<1> QED BY <1>2, <1>3, <1>6, <1>7, <1>8

Still == UNCHANGED <<upRun, upAsk, upSess, upCut, upStored, upMade, upTaken>>

LEMMA KeptStep ==
  ASSUME UpInv, Still,
         upCtx' \in [UpFiles -> UpContexts], upReq' \in SUBSET UpRequests,
         upAbort' \subseteq UpSids, upCount'["submit"] = upCount["submit"],
         Earlier' \subseteq Earlier,
         \A i \in UpItems : \/ upList'[i] = upList[i] \/ upList'[i] = "gone"
                            \/ upList[i] = "new" /\ upList'[i] = "WAITING",
         \A i \in UpFiles :
           /\ upCtx'[i].k = upCtx[i].k /\ upCtx'[i].at = upCtx[i].at
           /\ upCtx'[i].fly = upCtx[i].fly /\ upCtx'[i].known = upCtx[i].known
           /\ CtxLive(upCtx'[i]) => CtxLive(upCtx[i])
           /\ CtxLive(upCtx[i]) => CtxLive(upCtx'[i]) \/ upList'[i] = "gone",
         \A r \in upReq' : \/ \E q \in upReq : q.sid = r.sid /\ q.at = r.at /\ q.part = r.part
                           \/ /\ r.at = "sent"
                              /\ \E i \in UpFiles : /\ r.sid = <<i, upCtx[i].k>>
                                                    /\ upCtx[i].at # "init",
         \A q, r \in upReq' : q.sid = r.sid /\ q.at = "commit" /\ r.at = "commit" => q = r,
         \A s \in upAbort' : \/ s \in upAbort
                             \/ \E i \in UpFiles : /\ s = <<i, upCtx[i].k>>
                                                   /\ upCtx[i].at # "init"
  PROVE  /\ UpCountInv' /\ UpNetInv' /\ UpServeInv' /\ UpPageInv'
         /\ OfferOK(upRun, upList, upMade, upStored, upTaken)
              => OfferOK(upRun', upList', upMade', upStored', upTaken')
<1>1. /\ upCtx \in [UpFiles -> UpContexts] /\ upReq \in SUBSET UpRequests
      /\ upAsk \in SUBSET UpAsks /\ upAbort \cup upCut \cup upStored \subseteq UpSids
      /\ Earlier \subseteq UpItems /\ upRun \in UpRuns
  BY UpTypes DEF UpInv
<1>2. /\ upRun' = upRun /\ upAsk' = upAsk /\ upSess' = upSess /\ upCut' = upCut
      /\ upStored' = upStored /\ upMade' = upMade /\ upTaken' = upTaken
  BY DEF Still
<1>3. UpCountInv'
  BY <1>2 DEF UpInv, UpCountInv, CountOK
<1>4. UpNetInv'
  <2>1. NetOK(upCtx, upReq, upAsk, upAbort, upSess, upCut, upStored)
    BY DEF UpInv, UpNetInv
  <2>2. upAbort' \cup upCut \cup upStored \subseteq UpSids
    BY <1>1
  <2>3. \A a \in upAsk : upCtx[a.sid[1]].at = "init" /\ a.sid[2] = upCtx[a.sid[1]].k
                           => upCtx'[a.sid[1]].at = "init"
    <3>1. \A a \in upAsk : a.sid[1] \in UpFiles
      BY <1>1, AskTyped, SidParts
    <3> QED BY <3>1
  <2>4. \A r \in upReq' : \/ \E q \in upReq : q.sid = r.sid
                          \/ \E i \in UpFiles : /\ r.sid = <<i, upCtx[i].k>>
                                                /\ upCtx[i].at # "init"
    OBVIOUS
  <2>5. NetOK(upCtx', upReq', upAsk, upAbort', upSess, upCut, upStored)
    BY <1>1, <2>1, <2>2, <2>3, <2>4, NetKept
  <2> QED BY <1>2, <2>5 DEF UpNetInv
<1>5. UpServeInv'
  <2>1. ServesOK(upReq, upSess, upCut, upStored)
    BY DEF UpInv, UpServeInv
  <2>2. ServesOK(upReq', upSess, upCut, upStored)
    BY <2>1, ServesKept
  <2> QED BY <1>2, <2>2 DEF UpServeInv
<1>6. /\ PageOK(upRun, upCtx', upList', upMade, upStored, Earlier')
      /\ \A i \in Earlier : upList[i] = "gone" \/ StoredItem(i, upMade, upStored)
           => upList'[i] = "gone" \/ StoredItem(i, upMade, upStored)
  <2>1. PageOK(upRun, upCtx, upList, upMade, upStored, Earlier)
    BY DEF UpInv, UpPageInv
  <2>2. upRun.all \subseteq UpItems
    BY <1>1, RunTyped
  <2> QED BY <1>1, <2>1, <2>2, PageKept
<1>7. UpPageInv'
  BY <1>2, <1>6 DEF UpPageInv
<1>8. OfferOK(upRun, upList, upMade, upStored, upTaken)
        => OfferOK(upRun', upList', upMade', upStored', upTaken')
  BY <1>2, <1>6 DEF OfferOK, Earlier
<1> QED BY <1>3, <1>4, <1>5, <1>7, <1>8

(* ------------------------- choosing and removing ------------------------ *)

LEMMA AppendTypes ==
  ASSUME UpInv, NEW i \in UpFiles, upList[i] = "new", AppendItem(i)
  PROVE  /\ Still /\ upList' \in [UpItems -> UpStatus] /\ upCount' = upCount
         /\ ~upAwait' /\ upEarly' = upEarly /\ upLocked' = upLocked /\ upScan' = upScan
         /\ upEnding' = upEnding
         /\ upCtx' \in [UpFiles -> UpContexts] /\ upReq' \in SUBSET UpRequests
         /\ upAbort' \subseteq UpSids
         /\ \A j \in UpItems : \/ upList'[j] = upList[j]
                               \/ upList[j] # "new" /\ upList'[j] = "gone"
                               \/ j = i /\ upList'[j] = "WAITING"
         /\ UpCountInv' /\ UpNetInv' /\ UpServeInv' /\ UpPageInv'
<1> DEFINE twins == {j \in Leaves \ UpKids : UpName[j] = UpName[i]}
<1>1. /\ upAwait' = FALSE
      /\ upList' = [j \in UpItems |-> IF j = i THEN "WAITING"
                                      ELSE IF j \in twins THEN "gone"
                                      ELSE upList[j]]
      /\ upCtx' = CutCtx(upCtx, twins)
      /\ upReq' = CutReq(upReq, twins)
      /\ upAbort' = upAbort \cup CutTold(twins)
      /\ Still /\ upCount' = upCount /\ upEarly' = upEarly /\ upLocked' = upLocked
      /\ upScan' = upScan /\ upEnding' = upEnding
  BY DEF AppendItem, Still, upServer, upEnded
<1>2. \A j \in twins : UpListed(upList, j)
  BY DEF Leaves
<1> HIDE DEF twins
<1>3. /\ upCtx' \in [UpFiles -> UpContexts]
      /\ \A j \in UpFiles :
           /\ upCtx'[j].k = upCtx[j].k /\ upCtx'[j].at = upCtx[j].at
           /\ upCtx'[j].known = upCtx[j].known /\ upCtx'[j].fly = upCtx[j].fly
           /\ CtxLive(upCtx'[j]) <=> CtxLive(upCtx[j]) /\ j \notin twins
      /\ upReq' \in SUBSET UpRequests
      /\ \A r \in upReq' : \E q \in upReq : q.sid = r.sid /\ q.at = r.at /\ q.part = r.part
      /\ \A q, r \in upReq' : q.sid = r.sid /\ q.at = "commit" /\ r.at = "commit" => q = r
      /\ CutTold(twins) \subseteq UpSids
      /\ \A s \in CutTold(twins) : \E j \in UpFiles : /\ s = <<j, upCtx[j].k>>
                                                      /\ upCtx[j].at # "init"
  BY <1>1, CutKeeps DEF UpInv
<1>4. /\ upList' \in [UpItems -> UpStatus]
      /\ \A j \in UpItems : \/ upList'[j] = upList[j]
                            \/ upList[j] # "new" /\ upList'[j] = "gone"
                            \/ j = i /\ upList'[j] = "WAITING"
  <2>1. upList \in [UpItems -> UpStatus]
    BY UpTypes DEF UpInv
  <2> QED BY <1>1, <1>2, <2>1 DEF UpListed, UpStatus
<1>5. upAbort' \subseteq UpSids
  BY <1>1, <1>3, UpTypes DEF UpInv
<1>6. \A j \in UpFiles : CtxLive(upCtx[j]) => CtxLive(upCtx'[j]) \/ upList'[j] = "gone"
  <2>1. \A j \in twins \cap UpFiles : upList'[j] = "gone"
    <3>1. UpFiles \subseteq UpItems
      BY DEF UpItems
    <3> QED BY <1>1, <1>2, <3>1 DEF UpListed
  <2> QED BY <1>3, <2>1
<1>7. Earlier' = Earlier
  BY <1>1 DEF Still, Earlier
<1>8. \A s \in upAbort' : \/ s \in upAbort
                          \/ \E j \in UpFiles : /\ s = <<j, upCtx[j].k>>
                                                /\ upCtx[j].at # "init"
  BY <1>1, <1>3
<1>9. UpCountInv' /\ UpNetInv' /\ UpServeInv' /\ UpPageInv'
  BY <1>1, <1>3, <1>4, <1>5, <1>6, <1>7, <1>8, KeptStep
<1> QED BY <1>1, <1>3, <1>4, <1>5, <1>9

LEMMA TypesAgain ==
  ASSUME UpTypeOK, Still, upList' \in [UpItems -> UpStatus],
         {upLocked', upAwait', upEarly'} \subseteq BOOLEAN,
         upScan' \in {"none", "scanning", "over"}, upReading' \subseteq UpFiles,
         upEnding' \subseteq SUBSET UpItems, upCtx' \in [UpFiles -> UpContexts],
         upReq' \in SUBSET UpRequests, upAbort' \subseteq UpSids,
         upCount' \in [{"submit", "fault", "remove"} -> Nat]
  PROVE  UpTypeOK'
BY DEF UpTypeOK, Still

LEMMA StepUpPick ==
  ASSUME UpInv, NEW i \in UpFiles, UpPick(i) \/ UpDropRead(i)
  PROVE  UpInv'
<1>0. UpTypeOK
  BY DEF UpInv
<1>1. upList[i] = "new" /\ AppendItem(i) /\ upReading' = upReading \ {i}
  BY DEF UpPick, UpDropRead, UpInv, UpFreshInv, FreshOK
<1>2. /\ Still /\ upList' \in [UpItems -> UpStatus] /\ upCount' = upCount
      /\ ~upAwait' /\ upEarly' = upEarly /\ upLocked' = upLocked /\ upScan' = upScan
      /\ upEnding' = upEnding
      /\ upCtx' \in [UpFiles -> UpContexts] /\ upReq' \in SUBSET UpRequests
      /\ upAbort' \subseteq UpSids
      /\ \A j \in UpItems : \/ upList'[j] = upList[j]
                            \/ upList[j] # "new" /\ upList'[j] = "gone"
                            \/ j = i /\ upList'[j] = "WAITING"
      /\ UpCountInv' /\ UpNetInv' /\ UpServeInv' /\ UpPageInv'
  BY <1>1, AppendTypes
<1>3. upAwait' = FALSE
  BY <1>1 DEF AppendItem
<1>4. UpTypeOK'
  BY <1>0, <1>1, <1>2, <1>3, UpTypes, TypesAgain
<1>5. UpFreshInv'
  <2>1. upReading \subseteq UpFiles /\ UpFiles \subseteq UpItems /\ UpDirs \subseteq UpItems
    BY <1>0, UpTypes DEF UpItems
  <2>2. i \notin UpDirs
    BY UpConstants
  <2> QED BY <1>1, <1>2, <2>1, <2>2 DEF UpInv, UpFreshInv, FreshOK
<1> QED BY <1>2, <1>3, <1>4, <1>5 DEF UpInv, UpOfferInv

(* What a step of the list alone does.                                     *)
ListAlone == /\ Still
             /\ UNCHANGED <<upCtx, upReq, upAbort>>
             /\ upCount' = upCount

LEMMA StepList ==
  ASSUME UpInv, ListAlone, upList' \in [UpItems -> UpStatus],
         upEnding' = upEnding, upEarly' = upEarly,
         upAwait' = FALSE \/ upAwait' = upAwait, upLocked' = upLocked,
         upScan' \in {"none", "scanning", "over"}, upReading' \subseteq UpFiles,
         \A i \in UpItems : \/ upList'[i] = upList[i] \/ upList'[i] = "gone"
                            \/ upList[i] = "new" /\ upList'[i] = "WAITING",
         UpFreshInv'
  PROVE  UpInv'
<1>1. UpTypeOK /\ Still
  BY DEF UpInv, ListAlone
<1>2. upCtx' = upCtx /\ upReq' = upReq /\ upAbort' = upAbort /\ upCount' = upCount
  BY DEF ListAlone
<1>3. Earlier' = Earlier
  BY <1>1 DEF Still, Earlier
<1>4. UpTypeOK'
  <2>1. /\ upCtx' \in [UpFiles -> UpContexts] /\ upReq' \in SUBSET UpRequests
        /\ upAbort' \subseteq UpSids /\ upEnding' \subseteq SUBSET UpItems
        /\ upCount' \in [{"submit", "fault", "remove"} -> Nat]
        /\ {upLocked', upAwait', upEarly'} \subseteq BOOLEAN
    BY <1>1, <1>2, UpTypes
  <2> QED BY <1>1, <2>1, TypesAgain
<1>5. /\ upCtx' \in [UpFiles -> UpContexts] /\ upReq' \in SUBSET UpRequests
      /\ upAbort' \subseteq UpSids
  BY <1>1, <1>2, UpTypes
<1>6. \A q, r \in upReq' : q.sid = r.sid /\ q.at = "commit" /\ r.at = "commit" => q = r
  BY <1>2 DEF UpInv, UpServeInv, ServesOK
<1>7. /\ UpCountInv' /\ UpNetInv' /\ UpServeInv' /\ UpPageInv'
      /\ OfferOK(upRun, upList, upMade, upStored, upTaken)
           => OfferOK(upRun', upList', upMade', upStored', upTaken')
  BY <1>1, <1>2, <1>3, <1>5, <1>6, KeptStep
<1>8. UpOfferInv'
  <2> SUFFICES ASSUME upAwait', ~upEarly'
               PROVE  OfferOK(upRun', upList', upMade', upStored', upTaken')
    BY DEF UpOfferInv
  <2>1. upAwait /\ ~upEarly
    OBVIOUS
  <2> QED BY <1>7, <2>1 DEF UpInv, UpOfferInv
<1> QED BY <1>4, <1>7, <1>8 DEF UpInv

LEMMA StepUpDrop ==
  ASSUME UpInv, NEW i \in UpFiles, UpDrop(i)
  PROVE  UpInv'
<1>1. /\ ListAlone /\ upList' = upList /\ upEnding' = upEnding /\ upEarly' = upEarly
      /\ upAwait' = upAwait /\ upLocked' = upLocked /\ upScan' = upScan
      /\ upReading' = upReading \cup {i} /\ i \notin UpKids /\ upList[i] = "new"
  BY DEF UpDrop, ListAlone, Still, upServer, upEnded, upOffer, upNet
<1>2. UpFreshInv'
  BY <1>1 DEF UpInv, UpFreshInv, FreshOK
<1>3. /\ upList' \in [UpItems -> UpStatus] /\ upScan' \in {"none", "scanning", "over"}
      /\ upReading' \subseteq UpFiles
  BY <1>1, UpTypes DEF UpInv
<1> QED BY <1>1, <1>2, <1>3, StepList

LEMMA StepUpDropFolder ==
  ASSUME UpInv, UpDropFolder
  PROVE  UpInv'
<1>1. /\ ListAlone /\ upList' = upList /\ upEnding' = upEnding /\ upEarly' = upEarly
      /\ upAwait' = FALSE /\ upLocked' = upLocked /\ upScan' = "scanning"
      /\ upReading' = upReading /\ upScan = "none"
  BY DEF UpDropFolder, ListAlone, Still, upServer, upEnded, upNet
<1>2. UpFreshInv'
  BY <1>1 DEF UpInv, UpFreshInv, FreshOK
<1>3. /\ upList' \in [UpItems -> UpStatus] /\ upReading' \subseteq UpFiles
  BY <1>1, UpTypes DEF UpInv
<1> QED BY <1>1, <1>2, <1>3, StepList

LEMMA StepScanBatch ==
  ASSUME UpInv, NEW i \in UpFiles, HandleFolderScanBatch(i)
  PROVE  UpInv'
<1>1. /\ ListAlone /\ upList' = [upList EXCEPT ![i] = "WAITING"] /\ upEnding' = upEnding
      /\ upEarly' = upEarly /\ upAwait' = upAwait /\ upLocked' = upLocked
      /\ upScan' = upScan /\ upReading' = upReading
      /\ i \in UpKids \ UpDirs /\ upList[i] = "new"
  BY DEF HandleFolderScanBatch, ListAlone, Still, upServer, upEnded, upOffer, upNet
<1>2. upList \in [UpItems -> UpStatus] /\ upReading \subseteq UpFiles /\ upScan \in {"none", "scanning", "over"}
  BY UpTypes DEF UpInv
<1>3. UpFiles \subseteq UpItems /\ UpDirs \subseteq UpItems
  BY DEF UpItems
<1>4. /\ upList' \in [UpItems -> UpStatus]
      /\ \A j \in UpItems : \/ upList'[j] = upList[j]
                            \/ j = i /\ upList[j] = "new" /\ upList'[j] = "WAITING"
  BY <1>1, <1>2, <1>3 DEF UpStatus
<1>5. UpFreshInv'
  BY <1>1, <1>2, <1>3, <1>4 DEF UpInv, UpFreshInv, FreshOK
<1> QED BY <1>1, <1>2, <1>4, <1>5, StepList

LEMMA StepScanComplete ==
  ASSUME UpInv, HandleFolderScanComplete
  PROVE  UpInv'
<1>1. /\ ListAlone /\ upEnding' = upEnding
      /\ upList' \in {upList, [i \in UpItems |-> IF i \in UpDirs THEN "WAITING"
                                                 ELSE upList[i]]}
      /\ upEarly' = upEarly /\ upAwait' = upAwait /\ upLocked' = upLocked
      /\ upScan' = "over" /\ upReading' = upReading /\ upScan = "scanning"
  BY DEF HandleFolderScanComplete, ListAlone, Still, upServer, upEnded, upOffer, upNet
<1>2. upList \in [UpItems -> UpStatus] /\ upReading \subseteq UpFiles
  BY UpTypes DEF UpInv
<1>3. UpFiles \subseteq UpItems /\ UpDirs \subseteq UpItems /\ UpFiles \cap UpDirs = {}
  BY UpConstants DEF UpItems
<1>4. \A i \in UpDirs : upList[i] = "new"
  BY <1>1 DEF UpInv, UpFreshInv, FreshOK
<1>5. /\ upList' \in [UpItems -> UpStatus]
      /\ \A j \in UpItems : \/ upList'[j] = upList[j]
                            \/ j \in UpDirs /\ upList[j] = "new" /\ upList'[j] = "WAITING"
  BY <1>1, <1>2, <1>3, <1>4 DEF UpStatus
<1>6. UpFreshInv'
  BY <1>1, <1>2, <1>3, <1>5 DEF UpInv, UpFreshInv, FreshOK
<1> QED BY <1>1, <1>2, <1>5, <1>6, StepList

LEMMA StepDoneTimer ==
  ASSUME UpInv, NEW i \in UpItems, UpDoneTimer(i)
  PROVE  UpInv'
<1>1. /\ ListAlone /\ upList' = [upList EXCEPT ![i] = "gone"] /\ upEnding' = upEnding
      /\ upEarly' = upEarly /\ upAwait' = upAwait /\ upLocked' = upLocked
      /\ upScan' = upScan /\ upReading' = upReading /\ upList[i] = "DONE"
  BY DEF UpDoneTimer, ListAlone, Still, upServer, upEnded, upOffer, upNet
<1>2. upList \in [UpItems -> UpStatus] /\ upReading \subseteq UpFiles /\ upScan \in {"none", "scanning", "over"}
  BY UpTypes DEF UpInv
<1>3. UpFiles \subseteq UpItems /\ UpDirs \subseteq UpItems
  BY DEF UpItems
<1>4. /\ upList' \in [UpItems -> UpStatus]
      /\ \A j \in UpItems : \/ upList'[j] = upList[j]
                            \/ upList[j] = "DONE" /\ upList'[j] = "gone"
  BY <1>1, <1>2 DEF UpStatus
<1>5. UpFreshInv'
  BY <1>1, <1>2, <1>3, <1>4 DEF UpInv, UpFreshInv, FreshOK
<1> QED BY <1>1, <1>2, <1>4, <1>5, StepList

LEMMA Counted ==
  ASSUME UpTypeOK, NEW k \in {"submit", "fault", "remove"}, UpCounted(k)
  PROVE  /\ upCount' \in [{"submit", "fault", "remove"} -> Nat]
         /\ upCount'["submit"] = (IF k = "submit" THEN upCount["submit"] + 1
                                  ELSE upCount["submit"])
         /\ k = "submit" => upCount["submit"] < UpSubmits
<1>1. upCount \in [{"submit", "fault", "remove"} -> Nat]
  BY UpTypes
<1>2. upCount' = [upCount EXCEPT ![k] = @ + 1] /\ upCount[k] < UpUsed(k)
  BY DEF UpCounted
<1>3. k = "submit" => UpUsed(k) = UpSubmits
  BY DEF UpUsed
<1> QED BY <1>1, <1>2, <1>3

LEMMA CancelDoes ==
  ASSUME UpInv, NEW I \in SUBSET UpItems, \A i \in I : upList[i] # "new", CancelItems(I)
  PROVE  /\ upList' \in [UpItems -> UpStatus] /\ upCtx' \in [UpFiles -> UpContexts]
         /\ upReq' \in SUBSET UpRequests /\ upAbort' \subseteq UpSids
         /\ \A i \in I : upList'[i] = "gone"
         /\ \A i \in UpItems \ I : upList'[i] = upList[i]
         /\ \A i \in UpFiles :
              /\ upCtx'[i].k = upCtx[i].k /\ upCtx'[i].at = upCtx[i].at
              /\ upCtx'[i].known = upCtx[i].known /\ upCtx'[i].fly = upCtx[i].fly
              /\ CtxLive(upCtx'[i]) <=> CtxLive(upCtx[i]) /\ i \notin I
         /\ \A r \in upReq' : \E q \in upReq : q.sid = r.sid /\ q.at = r.at /\ q.part = r.part
         /\ \A q, r \in upReq' :
              q.sid = r.sid /\ q.at = "commit" /\ r.at = "commit" => q = r
         /\ \A s \in upAbort' : \/ s \in upAbort
                                \/ \E j \in UpFiles : /\ s = <<j, upCtx[j].k>>
                                                      /\ upCtx[j].at # "init"
<1>1. /\ upList' = [i \in UpItems |-> IF i \in I THEN "gone" ELSE upList[i]]
      /\ upCtx' = CutCtx(upCtx, I) /\ upReq' = CutReq(upReq, I)
      /\ upAbort' = upAbort \cup CutTold(I)
  BY DEF CancelItems
<1>2. upList \in [UpItems -> UpStatus] /\ upAbort \subseteq UpSids
  BY UpTypes DEF UpInv
<1>3. /\ upList' \in [UpItems -> UpStatus]
      /\ \A i \in I : upList'[i] = "gone"
      /\ \A i \in UpItems \ I : upList'[i] = upList[i]
  BY <1>1, <1>2 DEF UpStatus
<1> QED BY <1>1, <1>2, <1>3, CutKeeps DEF UpInv

LEMMA StepRemove ==
  ASSUME UpInv, NEW I \in SUBSET UpItems, RemoveFileUploadItem(I)
  PROVE  UpInv'
<1>0. UpTypeOK
  BY DEF UpInv
<1>1. /\ I \subseteq Leaves /\ UpCounted("remove") /\ CancelItems(I)
      /\ upScan' = upScan \/ upScan' = "over"
      /\ UNCHANGED <<upLocked, upOffer, upReading, upEnded, upRun, upAsk, upServer, upMade>>
  BY DEF RemoveFileUploadItem
<1>2. /\ Still /\ upEnding' = upEnding /\ upEarly' = upEarly /\ upAwait' = upAwait
      /\ upLocked' = upLocked /\ upReading' = upReading
  <2>1. /\ Still /\ upEnding' = upEnding
    BY <1>1 DEF Still, upServer, upEnded
  <2> QED BY <1>1, <2>1 DEF upOffer
<1>3. \A i \in I : upList[i] # "new"
  BY <1>1 DEF Leaves, UpListed
<1>4. /\ upList' \in [UpItems -> UpStatus] /\ upCtx' \in [UpFiles -> UpContexts]
      /\ upReq' \in SUBSET UpRequests /\ upAbort' \subseteq UpSids
      /\ \A i \in I : upList'[i] = "gone"
      /\ \A i \in UpItems \ I : upList'[i] = upList[i]
      /\ \A i \in UpFiles :
           /\ upCtx'[i].k = upCtx[i].k /\ upCtx'[i].at = upCtx[i].at
           /\ upCtx'[i].known = upCtx[i].known /\ upCtx'[i].fly = upCtx[i].fly
           /\ CtxLive(upCtx'[i]) <=> CtxLive(upCtx[i]) /\ i \notin I
      /\ \A r \in upReq' : \E q \in upReq : q.sid = r.sid /\ q.at = r.at /\ q.part = r.part
      /\ \A q, r \in upReq' : q.sid = r.sid /\ q.at = "commit" /\ r.at = "commit" => q = r
      /\ \A s \in upAbort' : \/ s \in upAbort
                             \/ \E j \in UpFiles : /\ s = <<j, upCtx[j].k>>
                                                   /\ upCtx[j].at # "init"
  BY <1>1, <1>3, CancelDoes
<1>5. /\ upCount' \in [{"submit", "fault", "remove"} -> Nat]
      /\ upCount'["submit"] = upCount["submit"]
  BY <1>0, <1>1, Counted
<1>6. Earlier' = Earlier
  BY <1>2 DEF Still, Earlier
<1>7. UpTypeOK'
  <2>1. /\ {upLocked', upAwait', upEarly'} \subseteq BOOLEAN
        /\ upScan' \in {"none", "scanning", "over"} /\ upReading' \subseteq UpFiles
        /\ upEnding' \subseteq SUBSET UpItems
    BY <1>0, <1>1, <1>2, UpTypes
  <2> QED BY <1>0, <1>2, <1>4, <1>5, <2>1, TypesAgain
<1>8. /\ UpCountInv' /\ UpNetInv' /\ UpServeInv' /\ UpPageInv'
      /\ OfferOK(upRun, upList, upMade, upStored, upTaken)
           => OfferOK(upRun', upList', upMade', upStored', upTaken')
  BY <1>2, <1>4, <1>5, <1>6, KeptStep
<1>9. UpFreshInv'
  <2>1. upReading \subseteq UpItems /\ UpDirs \subseteq UpItems
    BY <1>0, UpTypes DEF UpItems
  <2>2. \A i \in UpItems : upList[i] = "new" => upList'[i] = "new"
    BY <1>3, <1>4
  <2> QED BY <1>1, <1>2, <2>1, <2>2 DEF UpInv, UpFreshInv, FreshOK
<1>10. UpOfferInv'
  BY <1>2, <1>8 DEF UpInv, UpOfferInv
<1> QED BY <1>7, <1>8, <1>9, <1>10 DEF UpInv

LEMMA NoRunIs == /\ NoUpRun \in UpRuns /\ NoUpRun.at = "idle" /\ NoUpRun.k = 0
                 /\ NoUpRun.left = {} /\ NoUpRun.all = {}
<1>1. 0 \in 0 .. UpSubmits /\ {} \in SUBSET UpItems
  BY UpConstants
<1> QED BY <1>1, RunMade

(* Without a run: every context is given up and what ran is settled.       *)
LEMMA NoRunPage ==
  ASSUME NEW cx, NEW list, NEW made, NEW stored, NEW past,
         \A i \in UpFiles : ~CtxLive(cx[i]),
         \A i \in past : list[i] # "new" /\ Settled(i, list, made, stored),
         \A i \in UpDirs : list[i] = "DONE" => i \in made,
         \A i \in UpFiles : /\ list[i] = "DONE" => <<i, cx[i].k>> \in stored
                            /\ cx[i].known => <<i, cx[i].k>> \in stored
  PROVE  PageOK(NoUpRun, cx, list, made, stored, past)
BY NoRunIs DEF PageOK, ListOK, Running

LEMMA StepReset ==
  ASSUME UpInv, ResetFileUploadState
  PROVE  UpInv'
<1>0. UpTypeOK
  BY DEF UpInv
<1> DEFINE I == {i \in UpItems : upList[i] # "new"}
<1>1. /\ UpCounted("remove") /\ CancelItems(I)
      /\ upLocked' = FALSE /\ upAwait' = FALSE /\ upScan' = (IF upScan = "scanning" THEN "over" ELSE upScan)
      /\ upRun' = NoUpRun /\ upEnding' = {}
      /\ upEarly' = upEarly /\ upReading' = upReading /\ upTaken' = upTaken
      /\ upAsk' = upAsk /\ upMade' = upMade /\ UNCHANGED upServer
  BY DEF ResetFileUploadState
<1>2. upSess' = upSess /\ upCut' = upCut /\ upStored' = upStored
  BY <1>1 DEF upServer
<1>3. /\ upList' \in [UpItems -> UpStatus] /\ upCtx' \in [UpFiles -> UpContexts]
      /\ upReq' \in SUBSET UpRequests /\ upAbort' \subseteq UpSids
      /\ \A i \in I : upList'[i] = "gone"
      /\ \A i \in UpItems \ I : upList'[i] = upList[i]
      /\ \A i \in UpFiles :
           /\ upCtx'[i].k = upCtx[i].k /\ upCtx'[i].at = upCtx[i].at
           /\ upCtx'[i].known = upCtx[i].known /\ upCtx'[i].fly = upCtx[i].fly
           /\ CtxLive(upCtx'[i]) <=> CtxLive(upCtx[i]) /\ i \notin I
      /\ \A r \in upReq' : \E q \in upReq : q.sid = r.sid /\ q.at = r.at /\ q.part = r.part
      /\ \A q, r \in upReq' : q.sid = r.sid /\ q.at = "commit" /\ r.at = "commit" => q = r
      /\ \A s \in upAbort' : \/ s \in upAbort
                             \/ \E j \in UpFiles : /\ s = <<j, upCtx[j].k>>
                                                   /\ upCtx[j].at # "init"
  BY <1>1, CancelDoes
<1>4. /\ upCount' \in [{"submit", "fault", "remove"} -> Nat]
      /\ upCount'["submit"] = upCount["submit"]
  BY <1>0, <1>1, Counted
<1>5. /\ upList \in [UpItems -> UpStatus] /\ upCtx \in [UpFiles -> UpContexts]
      /\ upReq \in SUBSET UpRequests /\ upAsk \in SUBSET UpAsks
      /\ upAbort \cup upCut \cup upStored \subseteq UpSids
      /\ Earlier \subseteq UpItems /\ upRun \in UpRuns /\ upCount["submit"] \in Nat
  BY <1>0, UpTypes
<1>6. PageOK(upRun, upCtx, upList, upMade, upStored, Earlier)
  BY DEF UpInv, UpPageInv
<1>7. UpTypeOK'
  <2>1. upRun' \in UpRuns
    BY <1>1, NoRunIs
  <2>2. upScan' \in {"none", "scanning", "over"}
    BY <1>0, <1>1, UpTypes
  <2> QED BY <1>0, <1>1, <1>2, <1>3, <1>4, <2>1, <2>2 DEF UpTypeOK
<1>8. UpCountInv'
  <2>1. CountOK(upRun, upCtx, upCount["submit"])
    BY DEF UpInv, UpCountInv
  <2> QED BY <1>1, <1>3, <1>4, <1>5, <2>1, NoRunIs DEF UpCountInv, CountOK
<1>9. UpNetInv'
  <2>1. NetOK(upCtx, upReq, upAsk, upAbort, upSess, upCut, upStored)
    BY DEF UpInv, UpNetInv
  <2>2. upAbort' \cup upCut \cup upStored \subseteq UpSids
    BY <1>3, <1>5
  <2>3. \A a \in upAsk : upCtx[a.sid[1]].at = "init" /\ a.sid[2] = upCtx[a.sid[1]].k
                           => upCtx'[a.sid[1]].at = "init"
    <3>1. \A a \in upAsk : a.sid[1] \in UpFiles
      BY <1>5, AskTyped, SidParts
    <3> QED BY <1>3, <3>1
  <2>4. /\ \A i \in UpFiles : upCtx'[i].k = upCtx[i].k
        /\ \A r \in upReq' : \E q \in upReq : q.sid = r.sid
        /\ \A s \in upAbort' : \/ s \in upAbort
                               \/ \E j \in UpFiles : /\ s = <<j, upCtx[j].k>>
                                                     /\ upCtx[j].at # "init"
        /\ upCtx' \in [UpFiles -> UpContexts] /\ upReq' \in SUBSET UpRequests
    BY <1>3
  <2>5. NetOK(upCtx', upReq', upAsk, upAbort', upSess, upCut, upStored)
    BY SMTT(30), <1>5, <2>1, <2>2, <2>3, <2>4, NetKept
  <2> QED BY <1>1, <1>2, <2>5 DEF UpNetInv
<1>10. UpServeInv'
  <2>1. ServesOK(upReq, upSess, upCut, upStored)
    BY DEF UpInv, UpServeInv
  <2>2. ServesOK(upReq', upSess, upCut, upStored)
    BY <1>3, <2>1, ServesKept
  <2> QED BY <1>2, <2>2 DEF UpServeInv
<1>11. UpPageInv'
  <2>1. Earlier' \subseteq Earlier
    BY <1>1 DEF Earlier
  <2>2. /\ \A i \in upRun.all \cup Earlier : upList[i] # "new"
        /\ \A i \in UpDirs : upList[i] = "DONE" => i \in upMade
        /\ \A i \in UpFiles : /\ upList[i] = "DONE" => <<i, upCtx[i].k>> \in upStored
                              /\ upCtx[i].known => <<i, upCtx[i].k>> \in upStored
                              /\ CtxLive(upCtx[i]) => i \in upRun.all \ upRun.left
    BY <1>6 DEF PageOK, ListOK
  <2>3. UpFiles \subseteq UpItems /\ UpDirs \subseteq UpItems
    BY DEF UpItems
  <2>4. \A i \in UpFiles : ~CtxLive(upCtx'[i])
    BY <1>3, <2>2, <2>3
  <2>5. \A i \in UpItems : upList'[i] \in {"new", "gone"}
    BY <1>3
  <2>6. \A i \in Earlier' : upList'[i] # "new" /\ Settled(i, upList', upMade, upStored)
    BY <1>3, <1>5, <2>1, <2>2, <2>5 DEF Settled
  <2>7. \A i \in UpFiles : /\ upList'[i] = "DONE" => <<i, upCtx'[i].k>> \in upStored
                           /\ upCtx'[i].known => <<i, upCtx'[i].k>> \in upStored
    BY <1>3, <2>2, <2>3, <2>5
  <2>8. PageOK(NoUpRun, upCtx', upList', upMade, upStored, Earlier')
    BY <2>3, <2>4, <2>5, <2>6, <2>7, NoRunPage
  <2> QED BY <1>1, <1>2, <2>8 DEF UpPageInv
<1>12. UpFreshInv'
  <2>1. upReading \subseteq UpItems /\ UpDirs \subseteq UpItems
    BY <1>0, UpTypes DEF UpItems
  <2>2. \A i \in UpItems : upList[i] = "new" => upList'[i] = "new"
    BY <1>3
  <2> QED BY <1>1, <2>1, <2>2 DEF UpInv, UpFreshInv, FreshOK
<1>13. UpOfferInv'
  BY <1>1 DEF UpOfferInv
<1> QED BY <1>7, <1>8, <1>9, <1>10, <1>11, <1>12, <1>13 DEF UpInv

(* --------------------- connections, retries, the end -------------------- *)

(* The page, the run and the server's sessions stay.                       *)
NetAlone == /\ UNCHANGED <<upPage, upRun, upAsk, upAbort, upServer, upMade>>
            /\ upCount' \in [{"submit", "fault", "remove"} -> Nat]
            /\ upCount'["submit"] = upCount["submit"]

LEMMA StepNet ==
  ASSUME UpInv, NetAlone,
         upCtx' \in [UpFiles -> UpContexts], upReq' \in SUBSET UpRequests,
         \A i \in UpFiles :
           /\ upCtx'[i].k = upCtx[i].k /\ upCtx'[i].at = upCtx[i].at
           /\ upCtx'[i].fly = upCtx[i].fly /\ upCtx'[i].known = upCtx[i].known
           /\ CtxLive(upCtx'[i]) <=> CtxLive(upCtx[i]),
         \A r \in upReq' : \/ \E q \in upReq : q.sid = r.sid /\ q.at = r.at /\ q.part = r.part
                           \/ /\ r.at = "sent"
                              /\ \E i \in UpFiles : /\ r.sid = <<i, upCtx[i].k>>
                                                    /\ upCtx[i].at # "init",
         \A q, r \in upReq' : q.sid = r.sid /\ q.at = "commit" /\ r.at = "commit" => q = r
  PROVE  UpInv'
<1>0. UpTypeOK
  BY DEF UpInv
<1>1. /\ Still /\ upList' = upList /\ upAwait' = upAwait /\ upEarly' = upEarly
      /\ upLocked' = upLocked /\ upScan' = upScan /\ upReading' = upReading
      /\ upEnding' = upEnding /\ upAbort' = upAbort
  <2>1. /\ UNCHANGED <<upOffer, upEnded, upRun, upAsk, upServer, upMade>>
        /\ upList' = upList /\ upLocked' = upLocked /\ upScan' = upScan
        /\ upReading' = upReading /\ upAbort' = upAbort
    BY DEF NetAlone, upPage
  <2> QED BY <2>1 DEF Still, upOffer, upEnded, upServer
<1>2. /\ upCount' \in [{"submit", "fault", "remove"} -> Nat]
      /\ upCount'["submit"] = upCount["submit"]
  BY DEF NetAlone
<1>3. /\ upList' \in [UpItems -> UpStatus] /\ {upLocked', upAwait', upEarly'} \subseteq BOOLEAN
      /\ upScan' \in {"none", "scanning", "over"} /\ upReading' \subseteq UpFiles
      /\ upEnding' \subseteq SUBSET UpItems /\ upAbort' \subseteq UpSids
  BY <1>0, <1>1, UpTypes
<1>4. UpTypeOK'
  BY <1>0, <1>1, <1>2, <1>3, TypesAgain
<1>5. Earlier' = Earlier
  BY <1>1 DEF Still, Earlier
<1>6. /\ UpCountInv' /\ UpNetInv' /\ UpServeInv' /\ UpPageInv'
      /\ OfferOK(upRun, upList, upMade, upStored, upTaken)
           => OfferOK(upRun', upList', upMade', upStored', upTaken')
  BY <1>1, <1>2, <1>3, <1>5, KeptStep
<1>7. UpFreshInv' /\ UpOfferInv'
  BY <1>1, <1>6 DEF UpInv, UpFreshInv, UpOfferInv
<1> QED BY <1>4, <1>6, <1>7 DEF UpInv

LEMMA StepLose ==
  ASSUME UpInv, NEW q \in upReq, UpLose(q)
  PROVE  UpInv'
<1>0. UpTypeOK
  BY DEF UpInv
<1> DEFINE s == [q EXCEPT !.live = FALSE]
<1>1. NetAlone /\ upCtx' = upCtx /\ \A r \in upReq' : r \in upReq \/ r = s
  BY <1>0, Counted DEF UpLose, NetAlone
<1>2. q \in UpRequests /\ upCtx \in [UpFiles -> UpContexts] /\ upReq \in SUBSET UpRequests
  BY <1>0, UpTypes
<1>3. s \in UpRequests /\ s.sid = q.sid /\ s.at = q.at /\ s.part = q.part
  BY <1>2 DEF UpRequests
<1>4. upReq' \in SUBSET UpRequests
  BY <1>1, <1>2, <1>3
<1>5. \A r \in upReq' : \E p \in upReq : p.sid = r.sid /\ p.at = r.at /\ p.part = r.part
  BY <1>1, <1>3
<1>6. \A p, r \in upReq' : p.sid = r.sid /\ p.at = "commit" /\ r.at = "commit" => p = r
  <2>1. \A p, r \in upReq : p.sid = r.sid /\ p.at = "commit" /\ r.at = "commit" => p = r
    BY DEF UpInv, UpServeInv, ServesOK
  <2>2. \A r \in upReq' : r = s \/ (r \in upReq /\ r # q)
    BY DEF UpLose
  <2> HIDE DEF s
  <2> QED BY <1>3, <2>1, <2>2
<1> QED BY <1>1, <1>2, <1>4, <1>5, <1>6, StepNet

LEMMA StepError ==
  ASSUME UpInv, NEW i \in UpFiles, NEW part \in UpParts, UpError(i, part)
  PROVE  UpInv'
<1>0. UpTypeOK
  BY DEF UpInv
<1>1. upCtx' = upCtx /\ upReq' \subseteq upReq /\ upCount' = upCount
  BY DEF UpError
<1>2. NetAlone
  BY <1>0, <1>1, UpTypes DEF UpError, NetAlone
<1>3. upCtx \in [UpFiles -> UpContexts] /\ upReq \in SUBSET UpRequests
  BY <1>0, UpTypes
<1>4. \A p, r \in upReq' : p.sid = r.sid /\ p.at = "commit" /\ r.at = "commit" => p = r
  BY <1>1 DEF UpInv, UpServeInv, ServesOK
<1> QED BY <1>1, <1>2, <1>3, <1>4, StepNet

(* A live context that is still to send something is past its init.        *)
LEMMA OutstandingUp ==
  ASSUME UpInv, NEW i \in UpFiles, NEW part \in UpParts, part \in Outstanding(i)
  PROVE  /\ upCtx[i].at \notin {"none", "init"} /\ UpSid(i) \in UpSids
         /\ UpSid(i) = <<i, upCtx[i].k>>
<1>1. upCtx[i].at \notin {"none", "init"}
  <2>1. upCtx[i].fly # {} \/ upCtx[i].at = "merge"
    BY DEF Outstanding
  <2> QED BY <2>1 DEF UpInv, UpCountInv, CountOK
<1>2. upCtx[i].k \in 1 .. UpSubmits
  <2>1. upCtx[i].k \in 0 .. UpSubmits
    BY UpTypes, CtxTyped DEF UpInv
  <2>2. upCtx[i].k > 0
    BY <1>1 DEF UpInv, UpCountInv, CountOK
  <2> QED BY <2>1, <2>2, UpConstants
<1> QED BY <1>1, <1>2, SidTyped DEF UpSid

LEMMA StepRetry ==
  ASSUME UpInv, NEW i \in UpFiles, NEW part \in UpParts, UpRetry(i, part)
  PROVE  UpInv'
<1>0. UpTypeOK
  BY DEF UpInv
<1> DEFINE c == upCtx[i]
           d == upCtx'[i]
           tries == [c.tries EXCEPT ![part] = @ + 1]
           new == [sid |-> UpSid(i), part |-> part, at |-> "sent", live |-> TRUE]
<1>1. upCtx \in [UpFiles -> UpContexts] /\ upReq \in SUBSET UpRequests
  BY <1>0, UpTypes
<1>2. /\ upCtx' = [upCtx EXCEPT ![i].tries[part] = @ + 1] /\ upReq' = upReq \cup {new}
      /\ c.tries[part] < UpTries /\ upCount' = upCount /\ part \in Outstanding(i)
  BY DEF UpRetry
<1>3. NetAlone
  BY <1>0, UpTypes DEF UpRetry, NetAlone
<1>4. /\ c.at \notin {"none", "init"} /\ UpSid(i) \in UpSids /\ UpSid(i) = <<i, c.k>>
  BY <1>2, OutstandingUp
<1>5. new \in UpRequests /\ new.sid = UpSid(i) /\ new.at = "sent"
  BY <1>4, RequestMade
<1>6. c \in UpContexts /\ c.tries \in [UpParts -> 0 .. UpTries]
  BY <1>1, CtxTyped
<1>7. tries \in [UpParts -> 0 .. UpTries]
  <2>1. c.tries[part] + 1 \in 0 .. UpTries
    BY <1>2, <1>6, UpConstants
  <2> QED BY <1>6, <2>1
<1>8. d = [c EXCEPT !.tries = tries]
  BY <1>1, <1>2
<1>9. \A j \in UpFiles \ {i} : upCtx'[j] = upCtx[j]
  BY <1>1, <1>2
<1>10. /\ d \in UpContexts /\ d.k = c.k /\ d.at = c.at /\ d.fly = c.fly
       /\ d.known = c.known /\ d.dead = c.dead
  <2> HIDE DEF c, d, tries
  <2> QED BY <1>6, <1>7, <1>8 DEF UpContexts
<1>11. upCtx' \in [UpFiles -> UpContexts]
  <2>1. upCtx' = [j \in UpFiles |-> upCtx'[j]]
    BY <1>1, <1>2
  <2> QED BY <1>1, <1>9, <1>10, <2>1
<1>12. \A j \in UpFiles :
         /\ upCtx'[j].k = upCtx[j].k /\ upCtx'[j].at = upCtx[j].at
         /\ upCtx'[j].fly = upCtx[j].fly /\ upCtx'[j].known = upCtx[j].known
         /\ CtxLive(upCtx'[j]) <=> CtxLive(upCtx[j])
  BY <1>9, <1>10 DEF CtxLive
<1> HIDE DEF new, c, d, tries
<1>13. upReq' \in SUBSET UpRequests
  BY <1>1, <1>2, <1>5
<1>14. \A r \in upReq' : \/ \E q \in upReq : q.sid = r.sid /\ q.at = r.at /\ q.part = r.part
                         \/ /\ r.at = "sent"
                            /\ \E j \in UpFiles : /\ r.sid = <<j, upCtx[j].k>>
                                                  /\ upCtx[j].at # "init"
  BY <1>2, <1>4, <1>5 DEF c
<1>15. \A p, r \in upReq' : p.sid = r.sid /\ p.at = "commit" /\ r.at = "commit" => p = r
  <2>1. \A p, r \in upReq : p.sid = r.sid /\ p.at = "commit" /\ r.at = "commit" => p = r
    BY DEF UpInv, UpServeInv, ServesOK
  <2> QED BY <1>2, <1>5, <2>1
<1> QED BY <1>3, <1>11, <1>12, <1>13, <1>14, <1>15, StepNet

LEMMA StepReloaded ==
  ASSUME UpInv, NEW all \in upEnding, UpReloaded(all)
  PROVE  UpInv'
<1>0. UpTypeOK
  BY DEF UpInv
<1>1. /\ upEnding' = upEnding \ {all} /\ upAwait' = ~HasFailedUploads(upList)
      /\ upEarly' = (upRun.at # "idle") /\ upTaken' = upTaken \cup all
      /\ upList' = upList /\ upLocked' = upLocked /\ upScan' = upScan
      /\ upReading' = upReading /\ upRun' = upRun /\ upCtx' = upCtx
      /\ UNCHANGED <<upNet, upServer>> /\ upMade' = upMade /\ upCount' = upCount
  BY DEF UpReloaded
<1>2. /\ upAsk' = upAsk /\ upReq' = upReq /\ upAbort' = upAbort
      /\ upSess' = upSess /\ upCut' = upCut /\ upStored' = upStored
  BY <1>1 DEF upNet, upServer
<1>3. Earlier' \subseteq Earlier /\ Earlier \subseteq UpItems
  BY <1>0, <1>1, UpTypes DEF Earlier
<1>4. UpTypeOK'
  BY <1>0, <1>1, <1>2 DEF UpTypeOK
<1>5. UpCountInv' /\ UpNetInv' /\ UpServeInv' /\ UpFreshInv'
  BY <1>1, <1>2 DEF UpInv, UpCountInv, UpNetInv, UpServeInv, UpFreshInv
<1>6. PageOK(upRun, upCtx, upList, upMade, upStored, Earlier)
  BY DEF UpInv, UpPageInv
<1>7. UpPageInv'
  <2>1. upRun.all \subseteq UpItems
    <3>1. upRun.all \in SUBSET UpItems
      BY <1>0, UpTypes, RunTyped
    <3> QED BY <3>1
  <2>2. PageOK(upRun, upCtx, upList, upMade, upStored, Earlier')
    BY <1>3, <1>6, <2>1, PageKept
  <2> QED BY <1>1, <1>2, <2>2 DEF UpPageInv
<1>8. UpOfferInv'
  <2> SUFFICES ASSUME upAwait', ~upEarly'
               PROVE  OfferOK(upRun', upList', upMade', upStored', upTaken')
    BY DEF UpOfferInv
  <2>1. upRun.at = "idle" /\ \A i \in UpItems : upList[i] # "FAILED"
    BY <1>1 DEF HasFailedUploads
  <2>2. \A i \in Earlier : Settled(i, upList, upMade, upStored)
    BY <1>6, <2>1 DEF PageOK, ListOK, Running
  <2>3. upTaken' \subseteq Earlier
    BY <1>1 DEF Earlier
  <2>4. \A i \in upTaken' : upList[i] = "gone" \/ StoredItem(i, upMade, upStored)
    BY <1>3, <2>1, <2>2, <2>3 DEF Settled
  <2> QED BY <1>1, <1>2, <2>1, <2>4 DEF OfferOK
<1> QED BY <1>4, <1>5, <1>7, <1>8 DEF UpInv

LEMMA StepFinish ==
  ASSUME UpInv, UpFinish
  PROVE  UpInv'
<1>0. UpTypeOK
  BY DEF UpInv
<1>1. /\ upRun.at = "tail" /\ \A i \in UpFiles : ~(UpLive(i) /\ upCtx[i].at = "merge")
      /\ upRun' = NoUpRun /\ upLocked' = FALSE
      /\ upEnding' = upEnding \cup (IF upRun.won THEN {upRun.all} ELSE {})
      /\ upList' = upList /\ upScan' = upScan /\ upReading' = upReading /\ upCtx' = upCtx
      /\ UNCHANGED <<upNet, upServer>> /\ upMade' = upMade /\ upCount' = upCount
  BY DEF UpFinish
<1>2. \/ /\ upAwait' = ~HasFailedUploads(upList) /\ upEarly' = FALSE
         /\ upTaken' = upTaken \cup upRun.all
      \/ upAwait' = upAwait /\ upEarly' = upEarly /\ upTaken' = upTaken
  BY DEF UpFinish, upOffer
<1>3. /\ upAsk' = upAsk /\ upReq' = upReq /\ upAbort' = upAbort
      /\ upSess' = upSess /\ upCut' = upCut /\ upStored' = upStored
  BY <1>1 DEF upNet, upServer
<1>4. upRun.all \in SUBSET UpItems /\ Earlier \subseteq UpItems /\ upCount["submit"] \in Nat
  BY <1>0, UpTypes, RunTyped
<1>5. UpTypeOK'
  <2>1. upRun' \in UpRuns
    BY <1>1, NoRunIs
  <2>2. upEnding' \subseteq SUBSET UpItems /\ upTaken' \subseteq UpItems
    BY <1>0, <1>1, <1>2, <1>4, UpTypes
  <2>3. {upLocked', upAwait', upEarly'} \subseteq BOOLEAN
    BY <1>0, <1>1, <1>2, UpTypes
  <2> QED BY <1>0, <1>1, <1>3, <2>1, <2>2, <2>3 DEF UpTypeOK
<1>6. UpCountInv'
  BY <1>1, <1>4, NoRunIs DEF UpInv, UpCountInv, CountOK
<1>7. UpNetInv' /\ UpServeInv' /\ UpFreshInv'
  BY <1>1, <1>3 DEF UpInv, UpNetInv, UpServeInv, UpFreshInv
<1>8. PageOK(upRun, upCtx, upList, upMade, upStored, Earlier)
  BY DEF UpInv, UpPageInv
<1>9. \A i \in UpFiles : ~CtxLive(upCtx[i])
  <2>1. \A i \in UpFiles : CtxLive(upCtx[i]) => upCtx[i].at = "merge"
    BY <1>1, <1>8 DEF PageOK
  <2> QED BY <1>1, <2>1 DEF CtxLive, UpLive
<1>10. \A i \in upRun.all \cup Earlier :
         upList[i] # "new" /\ Settled(i, upList, upMade, upStored)
  <2>1. \A i \in upRun.all : Settled(i, upList, upMade, upStored)
    BY <1>1, <1>8, <1>9 DEF PageOK, Settled
  <2> QED BY <1>1, <1>8, <2>1 DEF PageOK, ListOK
<1>11. Earlier' \subseteq upRun.all \cup Earlier /\ upTaken' \subseteq upRun.all \cup Earlier
  BY <1>1, <1>2 DEF Earlier
<1>12. UpPageInv'
  <2>1. /\ \A i \in UpDirs : upList[i] = "DONE" => i \in upMade
        /\ \A i \in UpFiles : /\ upList[i] = "DONE" => <<i, upCtx[i].k>> \in upStored
                              /\ upCtx[i].known => <<i, upCtx[i].k>> \in upStored
    BY <1>8 DEF PageOK, ListOK
  <2>2. PageOK(NoUpRun, upCtx, upList, upMade, upStored, Earlier')
    BY <1>9, <1>10, <1>11, <2>1, NoRunPage
  <2> QED BY <1>1, <1>3, <2>2 DEF UpPageInv
<1>13. UpOfferInv'
  <2> SUFFICES ASSUME upAwait', ~upEarly'
               PROVE  OfferOK(upRun', upList', upMade', upStored', upTaken')
    BY DEF UpOfferInv
  <2>1. CASE upAwait' = ~HasFailedUploads(upList) /\ upTaken' = upTaken \cup upRun.all
    <3>1. \A i \in UpItems : upList[i] # "FAILED"
      BY <2>1 DEF HasFailedUploads
    <3>2. \A i \in upTaken' : upList[i] = "gone" \/ StoredItem(i, upMade, upStored)
      BY <1>4, <1>10, <1>11, <3>1 DEF Settled
    <3> QED BY <1>1, <1>3, <3>2, NoRunIs DEF OfferOK
  <2>2. CASE upAwait' = upAwait /\ upEarly' = upEarly
    BY <1>1, <2>2 DEF UpInv, UpOfferInv, OfferOK
  <2> QED BY <1>2, <2>1, <2>2
<1> QED BY <1>5, <1>6, <1>7, <1>12, <1>13 DEF UpInv

(* ------------------------- items of a run that end ---------------------- *)

LEMMA MarkedIs ==
  ASSUME UpTypeOK, NEW i \in UpItems, NEW status \in UpStatus
  PROVE  /\ Marked(i, status) \in [UpItems -> UpStatus]
         /\ \A j \in UpItems \ {i} : Marked(i, status)[j] = upList[j]
         /\ Marked(i, status)[i] = IF UpListed(upList, i) THEN status ELSE upList[i]
<1>1. upList \in [UpItems -> UpStatus]
  BY UpTypes
<1> QED BY <1>1 DEF Marked

SameRun(r, s) == /\ s.at = r.at /\ s.k = r.k /\ s.item = r.item
                 /\ s.left = r.left /\ s.all = r.all

(* A live file is stored or given up: it FAILED or left the list.          *)
LEMMA PageEnded ==
  ASSUME NEW run, NEW run2, NEW cx, NEW cx2, NEW list, NEW list2,
         NEW made, NEW stored, NEW past,
         PageOK(run, cx, list, made, stored, past),
         run.all \subseteq UpItems, past \subseteq UpItems, SameRun(run, run2),
         NEW i \in UpFiles, CtxLive(cx[i]), ~CtxLive(cx2[i]),
         cx2[i].k = cx[i].k, cx2[i].known => cx[i].known,
         \A j \in UpFiles \ {i} : cx2[j] = cx[j],
         \A j \in UpItems \ {i} : list2[j] = list[j],
         list2[i] \in {"gone", "FAILED"}
           \/ (list2[i] = "DONE" /\ <<i, cx[i].k>> \in stored)
  PROVE  PageOK(run2, cx2, list2, made, stored, past)
<1>1. /\ run.left \subseteq run.all /\ \A j \in run.all \cup past : list[j] # "new"
      /\ \A j \in run.left : list[j] \in {"WAITING", "gone"}
      /\ \A j \in past : \/ Settled(j, list, made, stored) \/ j \in run.all
                         \/ run.at = "scan" /\ list[j] = "WAITING"
      /\ \A j \in UpDirs : list[j] = "DONE" => j \in made
      /\ \A j \in UpFiles : /\ list[j] = "DONE" => <<j, cx[j].k>> \in stored
                            /\ cx[j].known => <<j, cx[j].k>> \in stored
                            /\ CtxLive(cx[j]) => j \in run.all \ run.left
  BY DEF PageOK, ListOK
<1>2. /\ ~Running(run) => run.all = {}
      /\ run.at = "init" => run.item \in (UpFiles \cap run.all) \ run.left
      /\ run.at = "mkdir" => run.item \in (UpDirs \cap run.all) \ run.left
      /\ \A j \in UpFiles : CtxLive(cx[j]) =>
           /\ cx[j].at = "init" => run.at = "init" /\ run.item = j
           /\ run.at = "tail" => cx[j].at = "merge"
      /\ \A j \in run.all : \/ Settled(j, list, made, stored) \/ j \in run.left
                            \/ run.at = "mkdir" /\ run.item = j
                            \/ j \in UpFiles /\ CtxLive(cx[j])
      /\ run.at = "tail" => \A j \in run.left : list[j] = "gone"
  BY DEF PageOK
<1>3. i \notin run.left /\ i \in run.all /\ i \notin UpDirs /\ i \in UpItems
  BY <1>1, UpConstants
<1>4. Settled(i, list2, made, stored)
  <2>1. CASE list2[i] \in {"gone", "FAILED"}
    BY <2>1 DEF Settled
  <2>2. CASE <<i, cx[i].k>> \in stored
    <3>1. <<i, cx[i].k>>[1] = i
      OBVIOUS
    <3> QED BY <1>3, <2>2, <3>1 DEF Settled, StoredItem
  <2> QED BY <2>1, <2>2
<1>5. \A j \in UpItems : Settled(j, list, made, stored) => Settled(j, list2, made, stored)
  BY <1>4 DEF Settled
<1>6. ListOK(run2, cx2, list2, made, stored, past)
  <2>1. \A j \in run.all \cup past : list2[j] # "new"
    BY <1>1
  <2>2. \A j \in run.left : list2[j] \in {"WAITING", "gone"}
    BY <1>1, <1>3
  <2>3. \A j \in past : \/ Settled(j, list2, made, stored) \/ j \in run.all
                        \/ run.at = "scan" /\ list2[j] = "WAITING"
    BY <1>1, <1>4, <1>5
  <2>4. \A j \in UpDirs : list2[j] = "DONE" => j \in made
    <3>1. UpDirs \subseteq UpItems \ {i}
      BY <1>3 DEF UpItems
    <3> QED BY <1>1, <3>1
  <2>5. \A j \in UpFiles : /\ list2[j] = "DONE" => <<j, cx2[j].k>> \in stored
                           /\ cx2[j].known => <<j, cx2[j].k>> \in stored
                           /\ CtxLive(cx2[j]) => j \in run.all \ run.left
    <3>1. UpFiles \subseteq UpItems
      BY DEF UpItems
    <3> QED BY <1>1, <3>1
  <2> QED BY <1>1, <2>1, <2>2, <2>3, <2>4, <2>5 DEF ListOK, SameRun
<1>7. \A j \in run.all : \/ Settled(j, list2, made, stored) \/ j \in run.left
                         \/ run.at = "mkdir" /\ run.item = j
                         \/ j \in UpFiles /\ CtxLive(cx2[j])
  BY <1>2, <1>4, <1>5
<1>8. \A j \in UpFiles : CtxLive(cx2[j]) =>
        /\ cx2[j].at = "init" => run.at = "init" /\ run.item = j
        /\ run.at = "tail" => cx2[j].at = "merge"
  BY <1>2
<1>9. run.at = "tail" => \A j \in run.left : list2[j] = "gone"
  BY <1>1, <1>2, <1>3
<1> QED BY <1>2, <1>6, <1>7, <1>8, <1>9 DEF PageOK, SameRun, Running

(* While a run waits for a chunk, its loop may go on.                      *)
LEMMA RaceLoop ==
  ASSUME NEW run, NEW cx, NEW list, NEW made, NEW stored, NEW past,
         PageOK(run, cx, list, made, stored, past), run.at = "race", run.k > 0
  PROVE  LoopOK(run, cx, list, made, stored, past)
BY DEF PageOK, LoopOK

LEMMA LiveRuns ==
  ASSUME UpInv, NEW i \in UpFiles, CtxLive(upCtx[i])
  PROVE  /\ Running(upRun) /\ upRun.k > 0 /\ ~(upAwait /\ ~upEarly)
         /\ i \in upRun.all \ upRun.left /\ upList[i] # "new"
<1>1. i \in upRun.all \ upRun.left /\ Running(upRun) /\ upList[i] # "new"
  BY DEF UpInv, UpPageInv, PageOK, ListOK
<1>2. upRun.at # "idle"
  BY <1>1 DEF Running
<1> QED BY <1>1, <1>2 DEF UpInv, UpOfferInv, OfferOK, UpCountInv, CountOK

(* A context that ends: no request is new and its session may be aborted.  *)
LEMMA NetEnds ==
  ASSUME NEW cx \in [UpFiles -> UpContexts], NEW cx2 \in [UpFiles -> UpContexts],
         NEW reqs \in SUBSET UpRequests, NEW reqs2 \in SUBSET UpRequests,
         NEW asks \in SUBSET UpAsks, NEW i \in UpFiles, cx[i].at # "init",
         NEW abort, NEW abort2, NEW sess, NEW cut, NEW stored,
         NetOK(cx, reqs, asks, abort, sess, cut, stored),
         abort2 \cup cut \cup stored \subseteq UpSids,
         cx2[i].k = cx[i].k, \A j \in UpFiles \ {i} : cx2[j] = cx[j],
         \A r \in reqs2 : \E q \in reqs : q.sid = r.sid,
         \A s \in abort2 : s \in abort \/ s = <<i, cx[i].k>>
  PROVE  NetOK(cx2, reqs2, asks, abort2, sess, cut, stored)
<1>1. \A j \in UpFiles : cx2[j].k = cx[j].k
  OBVIOUS
<1>2. \A a \in asks : cx[a.sid[1]].at = "init" /\ a.sid[2] = cx[a.sid[1]].k
                        => cx2[a.sid[1]].at = "init"
  <2>1. \A a \in asks : a.sid[1] \in UpFiles
    BY AskTyped, SidParts
  <2> QED BY <2>1
<1> QED BY <1>1, <1>2, NetKept

LEMMA EndedStep ==
  ASSUME UpInv, NEW i \in UpFiles, CtxLive(upCtx[i]), upCtx[i].at # "init",
         upCtx' \in [UpFiles -> UpContexts],
         \A j \in UpFiles \ {i} : upCtx'[j] = upCtx[j],
         upCtx'[i].k = upCtx[i].k, upCtx'[i].known => upCtx[i].known,
         upCtx'[i].at = "over",
         upRun' \in UpRuns, SameRun(upRun, upRun'),
         upList' \in [UpItems -> UpStatus],
         \A j \in UpItems \ {i} : upList'[j] = upList[j],
         upList'[i] \in {"gone", "FAILED"}
           \/ (upList'[i] = "DONE" /\ <<i, upCtx[i].k>> \in upStored),
         upReq' \in SUBSET UpRequests,
         \A r \in upReq' : \E q \in upReq : q.sid = r.sid /\ q.at = r.at /\ q.part = r.part,
         \A q, r \in upReq' : q.sid = r.sid /\ q.at = "commit" /\ r.at = "commit" => q = r,
         upAbort' \subseteq UpSids,
         \A s \in upAbort' : s \in upAbort \/ s = <<i, upCtx[i].k>>,
         upAsk' = upAsk, UNCHANGED upServer, upMade' = upMade, upCount' = upCount,
         UpPageStays
  PROVE  UpInv'
<1>0. UpTypeOK
  BY DEF UpInv
<1>1. /\ upSess' = upSess /\ upCut' = upCut /\ upStored' = upStored
      /\ upLocked' = upLocked /\ upAwait' = upAwait /\ upEarly' = upEarly /\ upScan' = upScan
      /\ upReading' = upReading /\ upEnding' = upEnding /\ upTaken' = upTaken
  BY DEF upServer, UpPageStays, upOffer, upEnded
<1>2. /\ upCtx \in [UpFiles -> UpContexts] /\ upReq \in SUBSET UpRequests
      /\ upAsk \in SUBSET UpAsks /\ upAbort \cup upCut \cup upStored \subseteq UpSids
      /\ Earlier \subseteq UpItems /\ upRun \in UpRuns
  BY <1>0, UpTypes
<1>3. UpTypeOK'
  BY <1>0, <1>1 DEF UpTypeOK
<1>4. UpCountInv'
  <2>1. CountOK(upRun, upCtx, upCount["submit"])
    BY DEF UpInv, UpCountInv
  <2>2. \A j \in UpFiles :
          /\ upCtx'[j].k <= upCount["submit"]
          /\ upCtx'[j].at # "none" => upCtx'[j].k > 0
          /\ upCtx'[j].at \in {"none", "init"} => upCtx'[j].fly = {}
          /\ upRun.at = "scan" \/ j \in upRun.left => upCtx'[j].k < upRun.k
    <3> SUFFICES ASSUME NEW j \in UpFiles
                 PROVE  /\ upCtx'[j].k <= upCount["submit"]
                        /\ upCtx'[j].at # "none" => upCtx'[j].k > 0
                        /\ upCtx'[j].at \in {"none", "init"} => upCtx'[j].fly = {}
                        /\ upRun.at = "scan" \/ j \in upRun.left => upCtx'[j].k < upRun.k
      OBVIOUS
    <3>1. CASE j = i
      BY <2>1, <3>1 DEF CountOK, CtxLive
    <3>2. CASE j # i
      BY <2>1, <3>2 DEF CountOK
    <3> QED BY <3>1, <3>2
  <2> QED BY <2>1, <2>2 DEF UpCountInv, CountOK, SameRun
<1>5. UpNetInv'
  <2>1. NetOK(upCtx, upReq, upAsk, upAbort, upSess, upCut, upStored)
    BY DEF UpInv, UpNetInv
  <2>2. upAbort' \cup upCut \cup upStored \subseteq UpSids
    BY <1>2
  <2>3. \A r \in upReq' : \E q \in upReq : q.sid = r.sid
    OBVIOUS
  <2>4. NetOK(upCtx', upReq', upAsk, upAbort', upSess, upCut, upStored)
    BY <1>2, <2>1, <2>2, <2>3, NetEnds
  <2> QED BY <1>1, <2>4 DEF UpNetInv
<1>6. UpServeInv'
  <2>1. ServesOK(upReq, upSess, upCut, upStored)
    BY DEF UpInv, UpServeInv
  <2>2. ServesOK(upReq', upSess, upCut, upStored)
    BY <2>1, ServesKept
  <2> QED BY <1>1, <2>2 DEF UpServeInv
<1>7. UpPageInv'
  <2>1. PageOK(upRun, upCtx, upList, upMade, upStored, Earlier)
    BY DEF UpInv, UpPageInv
  <2>2. upRun.all \subseteq UpItems
    <3>1. upRun.all \in SUBSET UpItems
      BY <1>2, RunTyped
    <3> QED BY <3>1
  <2>3. ~CtxLive(upCtx'[i])
    BY DEF CtxLive
  <2>4. PageOK(upRun', upCtx', upList', upMade, upStored, Earlier)
    BY <1>2, <2>1, <2>2, <2>3, PageEnded
  <2>5. Earlier' = Earlier
    BY <1>1 DEF Earlier
  <2> QED BY <1>1, <2>4, <2>5 DEF UpPageInv
<1>8. ~(upAwait' /\ ~upEarly') /\ upList[i] # "new"
  BY <1>1, LiveRuns
<1>9. UpFreshInv'
  <2>1. upReading \subseteq UpFiles /\ UpFiles \subseteq UpItems /\ UpDirs \subseteq UpItems
    BY <1>0, UpTypes DEF UpItems
  <2> QED BY <1>1, <1>8, <2>1 DEF UpInv, UpFreshInv, FreshOK
<1> QED BY <1>3, <1>4, <1>5, <1>6, <1>7, <1>8, <1>9 DEF UpInv, UpOfferInv

LEMMA StepMerged ==
  ASSUME UpInv, NEW i \in UpFiles, UpMerged(i)
  PROVE  UpInv'
<1>0. UpTypeOK
  BY DEF UpInv
<1> DEFINE c == upCtx[i]
           d == upCtx'[i]
<1>1. /\ CtxLive(c) /\ c.at = "merge"
      /\ \/ c.known /\ upReq' = upReq
         \/ \E q \in UpAnswers(i, 0) : q.at = "done" /\ upReq' = upReq \ {q}
      /\ upCtx' = [upCtx EXCEPT ![i].at = "over"]
      /\ upRun' = [upRun EXCEPT !.won = TRUE, !.fin = TRUE]
      /\ upList' = Marked(i, "DONE") /\ UpPageStays
      /\ upAsk' = upAsk /\ upAbort' = upAbort /\ UNCHANGED upServer /\ upMade' = upMade
      /\ upCount' = upCount
  BY DEF UpMerged, UpLive, CtxLive
<1>2. /\ upCtx \in [UpFiles -> UpContexts] /\ upReq \in SUBSET UpRequests
      /\ upRun \in UpRuns /\ upAbort \subseteq UpSids
  BY <1>0, UpTypes
<1>3. <<i, c.k>> \in upStored
  <2>1. CASE c.known
    BY <2>1 DEF UpInv, UpPageInv, PageOK, ListOK
  <2>2. CASE \E q \in UpAnswers(i, 0) : q.at = "done"
    BY <2>2 DEF UpInv, UpServeInv, ServesOK, UpAnswers, UpSid
  <2> QED BY <1>1, <2>1, <2>2
<1>4. /\ upCtx' \in [UpFiles -> UpContexts] /\ d.k = c.k /\ d.known = c.known
      /\ d.at = "over" /\ \A j \in UpFiles \ {i} : upCtx'[j] = upCtx[j]
  <2>1. c \in UpContexts /\ d = [c EXCEPT !.at = "over"]
    BY <1>1, <1>2
  <2>2. \A j \in UpFiles \ {i} : upCtx'[j] = upCtx[j]
    BY <1>1, <1>2
  <2>3. upCtx' = [j \in UpFiles |-> upCtx'[j]]
    BY <1>1, <1>2
  <2>4. d \in UpContexts /\ d.k = c.k /\ d.known = c.known /\ d.at = "over"
    <3> HIDE DEF c, d
    <3> QED BY <2>1 DEF UpContexts
  <2>5. \A j \in UpFiles : upCtx'[j] \in UpContexts
    BY <1>2, <2>2, <2>4
  <2>6. upCtx' \in [UpFiles -> UpContexts]
    BY <2>3, <2>5
  <2> QED BY <2>2, <2>4, <2>6
<1>5. upRun' \in UpRuns /\ SameRun(upRun, upRun')
  BY <1>1, <1>2 DEF UpRuns, SameRun
<1>6. UpFiles \subseteq UpItems /\ "DONE" \in UpStatus
  BY DEF UpItems, UpStatus
<1>7. /\ upList' \in [UpItems -> UpStatus]
      /\ \A j \in UpItems \ {i} : upList'[j] = upList[j]
      /\ upList'[i] = IF UpListed(upList, i) THEN "DONE" ELSE upList[i]
  BY <1>0, <1>1, <1>6, MarkedIs
<1>8. upList'[i] = "gone" \/ upList'[i] = "DONE"
  <2>1. upList[i] # "new"
    BY <1>1, LiveRuns
  <2> QED BY <1>7, <2>1 DEF UpListed
<1>9. upReq' \subseteq upReq
  BY <1>1
<1>10. \A q, r \in upReq' : q.sid = r.sid /\ q.at = "commit" /\ r.at = "commit" => q = r
  BY <1>9 DEF UpInv, UpServeInv, ServesOK
<1>11. c.at # "init"
  BY <1>1
<1> HIDE DEF d
<1> QED BY <1>1, <1>2, <1>3, <1>4, <1>5, <1>7, <1>8, <1>9, <1>10, <1>11, EndedStep DEF d

(* ------------------------ the run takes an answer ----------------------- *)

LEMMA StepLoop ==
  ASSUME UpInv, NEW run, NEW cx, NEW list, NEW reqs, NEW asks,
         LoopMid(run, cx, list, reqs, asks, upAbort', upSess, upCut, upMade', upStored,
                 Earlier, upCount'["submit"]),
         RunOn(run, cx, list, reqs, asks),
         UNCHANGED <<upOffer, upScan, upReading, upEnded, upServer>>,
         upLocked' \in BOOLEAN, upMade' \subseteq UpDirs,
         upCount' \in [{"submit", "fault", "remove"} -> Nat],
         ~(upAwait /\ ~upEarly),
         \A i \in UpItems : upList[i] = "new" => list[i] = "new"
  PROVE  UpInv'
<1>0. UpTypeOK
  BY DEF UpInv
<1>1. /\ upSess' = upSess /\ upCut' = upCut /\ upStored' = upStored
      /\ upAwait' = upAwait /\ upEarly' = upEarly /\ upScan' = upScan
      /\ upReading' = upReading /\ upEnding' = upEnding /\ upTaken' = upTaken
  BY DEF upServer, upOffer, upEnded
<1>2. /\ RunOnTypes
      /\ LoopDone(list, upAbort', upSess, upCut, upMade', upStored, Earlier,
                  upCount'["submit"])
  BY LoopsOn
<1>3. upAbort' \subseteq UpSids
  BY DEF LoopMid
<1>4. UpTypeOK'
  <2>1. /\ upRun' \in UpRuns /\ upCtx' \in [UpFiles -> UpContexts]
        /\ upList' \in [UpItems -> UpStatus]
        /\ upReq' \subseteq UpRequests /\ upAsk' \subseteq UpAsks
    BY <1>2 DEF RunOnTypes
  <2> QED BY <1>0, <1>1, <1>3, <2>1 DEF UpTypeOK
<1>5. Earlier' = Earlier
  BY <1>1 DEF Earlier
<1>6. UpCountInv' /\ UpNetInv' /\ UpServeInv' /\ UpPageInv'
  BY <1>1, <1>2, <1>5 DEF LoopDone, UpCountInv, UpNetInv, UpServeInv, UpPageInv
<1>7. UpFreshInv'
  <2>1. upReading \subseteq UpItems /\ UpDirs \subseteq UpItems
    BY <1>0, UpTypes DEF UpItems
  <2>2. \A i \in UpItems : upList[i] = "new" => upList'[i] = "new"
    BY <1>2 DEF LoopDone
  <2> QED BY <1>1, <2>1, <2>2 DEF UpInv, UpFreshInv, FreshOK
<1> QED BY <1>1, <1>4, <1>6, <1>7 DEF UpInv, UpOfferInv

(* A context of a run that waits for a chunk changes, and its loop goes on. *)
LEMMA RaceStep ==
  ASSUME UpInv, upRun.at = "race", NEW i \in UpFiles, NEW d \in UpContexts,
         d.k = upCtx[i].k, d.at \notin {"none", "init"}, upCtx[i].at # "none",
         d.known => upCtx[i].known \/ <<i, upCtx[i].k>> \in upStored,
         upCtx[i].at # "init",
         NEW list \in [UpItems -> UpStatus],
         \A j \in UpItems \ {i} : list[j] = upList[j],
         \/ /\ CtxLive(d) <=> CtxLive(upCtx[i])
            /\ CtxLive(d) => d.at = upCtx[i].at
            /\ list[i] = upList[i]
         \/ CtxLive(upCtx[i]) /\ ~CtxLive(d) /\ (d.known => upCtx[i].known)
            /\ list[i] \in {"gone", "FAILED"},
         NEW reqs \in SUBSET UpRequests,
         \A r \in reqs : \E q \in upReq : q.sid = r.sid /\ q.at = r.at /\ q.part = r.part,
         \A q, r \in reqs : q.sid = r.sid /\ q.at = "commit" /\ r.at = "commit" => q = r,
         upAbort' \subseteq UpSids,
         \A s \in upAbort' : s \in upAbort \/ s = <<i, upCtx[i].k>>,
         RunOn(upRun, [upCtx EXCEPT ![i] = d], list, reqs, upAsk),
         UpPageStays, UNCHANGED <<upServer, upMade, upCount>>
  PROVE  UpInv'
<1>0. UpTypeOK
  BY DEF UpInv
<1> DEFINE cx == [upCtx EXCEPT ![i] = d]
<1>1. /\ upCtx \in [UpFiles -> UpContexts] /\ upReq \in SUBSET UpRequests
      /\ upAsk \in SUBSET UpAsks /\ upAbort \cup upCut \cup upStored \subseteq UpSids
      /\ Earlier \subseteq UpItems /\ upRun \in UpRuns /\ upMade \subseteq UpDirs
      /\ upList \in [UpItems -> UpStatus] /\ upCount["submit"] \in Nat
      /\ upCount \in [{"submit", "fault", "remove"} -> Nat] /\ upLocked \in BOOLEAN
  BY <1>0, UpTypes
<1>2. /\ cx \in [UpFiles -> UpContexts] /\ cx[i] = d
      /\ \A j \in UpFiles \ {i} : cx[j] = upCtx[j]
  BY <1>1
<1>3. upMade' = upMade /\ upCount' = upCount /\ upLocked' = upLocked
  BY DEF UpPageStays
<1>4. CountOK(upRun, upCtx, upCount["submit"]) /\ upRun.k > 0
  BY DEF UpInv, UpCountInv, CountOK
<1> HIDE DEF cx
<1>5. CountOK(upRun, cx, upCount["submit"])
  <2>1. \A j \in UpFiles :
          /\ cx[j].k <= upCount["submit"]
          /\ cx[j].at # "none" => cx[j].k > 0
          /\ cx[j].at \in {"none", "init"} => cx[j].fly = {}
          /\ upRun.at = "scan" \/ j \in upRun.left => cx[j].k < upRun.k
    <3> SUFFICES ASSUME NEW j \in UpFiles
                 PROVE  /\ cx[j].k <= upCount["submit"]
                        /\ cx[j].at # "none" => cx[j].k > 0
                        /\ cx[j].at \in {"none", "init"} => cx[j].fly = {}
                        /\ upRun.at = "scan" \/ j \in upRun.left => cx[j].k < upRun.k
      OBVIOUS
    <3>1. CASE j = i
      BY <1>2, <1>4, <3>1 DEF CountOK
    <3>2. CASE j # i
      BY <1>2, <1>4, <3>2 DEF CountOK
    <3> QED BY <3>1, <3>2
  <2> QED BY <1>4, <2>1 DEF CountOK
<1>6. NetOK(cx, reqs, upAsk, upAbort', upSess, upCut, upStored)
  <2>1. NetOK(upCtx, upReq, upAsk, upAbort, upSess, upCut, upStored)
    BY DEF UpInv, UpNetInv
  <2>2. upAbort' \cup upCut \cup upStored \subseteq UpSids
    BY <1>1
  <2>3. \A r \in reqs : \E q \in upReq : q.sid = r.sid
    OBVIOUS
  <2>4. cx[i].k = upCtx[i].k
    BY <1>2
  <2> QED BY <1>1, <1>2, <2>1, <2>2, <2>3, <2>4, NetEnds
<1>7. ServesOK(reqs, upSess, upCut, upStored)
  <2>1. ServesOK(upReq, upSess, upCut, upStored)
    BY DEF UpInv, UpServeInv
  <2> QED BY <2>1, ServesKept
<1>8. PageOK(upRun, cx, list, upMade, upStored, Earlier)
  <2>1. PageOK(upRun, upCtx, upList, upMade, upStored, Earlier)
    BY DEF UpInv, UpPageInv
  <2>2. upRun.all \subseteq UpItems
    <3>1. upRun.all \in SUBSET UpItems
      BY <1>1, RunTyped
    <3> QED BY <3>1
  <2>3. CASE /\ CtxLive(d) <=> CtxLive(upCtx[i])
             /\ CtxLive(d) => d.at = upCtx[i].at
             /\ list[i] = upList[i]
    <3>1. \A j \in UpItems : list[j] = upList[j]
      BY <2>3
    <3>2. \A j \in UpFiles :
            /\ cx[j].k = upCtx[j].k
            /\ cx[j].known => upCtx[j].known \/ <<j, upCtx[j].k>> \in upStored
            /\ CtxLive(cx[j]) => CtxLive(upCtx[j]) /\ cx[j].at = upCtx[j].at
            /\ CtxLive(upCtx[j]) => CtxLive(cx[j])
      BY <1>2, <2>3
    <3> QED BY <1>1, <2>1, <2>2, <3>1, <3>2, PageKept
  <2>4. CASE CtxLive(upCtx[i]) /\ ~CtxLive(d) /\ (d.known => upCtx[i].known)
             /\ list[i] \in {"gone", "FAILED"}
    <3>1. SameRun(upRun, upRun)
      BY DEF SameRun
    <3> QED BY <1>1, <1>2, <2>1, <2>2, <2>4, <3>1, PageEnded
  <2> QED BY <2>3, <2>4
<1>9. LoopOK(upRun, cx, list, upMade, upStored, Earlier)
  BY <1>4, <1>8, RaceLoop
<1>10. LoopMid(upRun, cx, list, reqs, upAsk, upAbort', upSess, upCut, upMade', upStored,
               Earlier, upCount'["submit"])
  <2>1. upAbort' \cup upCut \cup upStored \subseteq UpSids
    BY <1>1
  <2> QED BY <1>1, <1>2, <1>3, <1>5, <1>6, <1>7, <1>9, <2>1 DEF LoopMid
<1>11. ~(upAwait /\ ~upEarly)
  BY DEF UpInv, UpOfferInv, OfferOK
<1>12. \A j \in UpItems : upList[j] = "new" => list[j] = "new"
  <2>1. CtxLive(upCtx[i]) => upList[i] # "new"
    BY LiveRuns
  <2> QED BY <2>1
<1>13. RunOn(upRun, cx, list, reqs, upAsk)
  BY DEF cx
<1>14. UNCHANGED <<upOffer, upScan, upReading, upEnded, upServer>>
  BY DEF UpPageStays
<1> QED BY <1>1, <1>3, <1>10, <1>11, <1>12, <1>13, <1>14, StepLoop

LEMMA StepGiveUp ==
  ASSUME UpInv, NEW i \in UpFiles, NEW part \in UpParts, UpGiveUp(i, part)
  PROVE  UpInv'
<1>0. UpTypeOK
  BY DEF UpInv
<1> DEFINE c == upCtx[i]
           reqs == CutReq(upReq, {i})
           list == Marked(i, "FAILED")
<1>1. /\ CtxLive(c) /\ part \in Outstanding(i)
      /\ upAbort' = upAbort \cup {UpSid(i)} /\ UpPageStays
      /\ UNCHANGED <<upServer, upMade, upCount>>
      /\ \/ /\ part = 0
            /\ upCtx' = [upCtx EXCEPT ![i].dead = TRUE, ![i].at = "over"]
            /\ upReq' = reqs /\ upRun' = [upRun EXCEPT !.fin = TRUE]
            /\ upList' = list /\ upAsk' = upAsk
         \/ /\ upRun.at = "race"
            /\ RunOn(upRun, [upCtx EXCEPT ![i].dead = TRUE, ![i].at = "over", ![i].fly = {}],
                     list, reqs, upAsk)
  BY DEF UpGiveUp, UpLive, CtxLive
<1>2. c.at \notin {"none", "init"} /\ UpSid(i) \in UpSids /\ UpSid(i) = <<i, c.k>>
  BY <1>1, OutstandingUp
<1>3. /\ upCtx \in [UpFiles -> UpContexts] /\ upRun \in UpRuns /\ upAbort \subseteq UpSids
  BY <1>0, UpTypes
<1>4. /\ reqs \in SUBSET UpRequests
      /\ \A r \in reqs : \E q \in upReq : q.sid = r.sid /\ q.at = r.at /\ q.part = r.part
      /\ \A q, r \in reqs : q.sid = r.sid /\ q.at = "commit" /\ r.at = "commit" => q = r
  BY CutKeeps DEF UpInv
<1>5. UpFiles \subseteq UpItems /\ "FAILED" \in UpStatus
  BY DEF UpItems, UpStatus
<1>6. /\ list \in [UpItems -> UpStatus]
      /\ \A j \in UpItems \ {i} : list[j] = upList[j]
      /\ list[i] = IF UpListed(upList, i) THEN "FAILED" ELSE upList[i]
  BY <1>0, <1>5, MarkedIs
<1>7. list[i] \in {"gone", "FAILED"}
  <2>1. upList[i] # "new"
    BY <1>1, LiveRuns
  <2> QED BY <1>6, <2>1 DEF UpListed
<1>8. /\ upAbort' \subseteq UpSids
      /\ \A s \in upAbort' : s \in upAbort \/ s = <<i, c.k>>
  BY <1>1, <1>2, <1>3
<1> HIDE DEF reqs, list
<1>9. CASE /\ upCtx' = [upCtx EXCEPT ![i].dead = TRUE, ![i].at = "over"]
           /\ upReq' = reqs /\ upRun' = [upRun EXCEPT !.fin = TRUE]
           /\ upList' = list /\ upAsk' = upAsk
  <2> DEFINE d == upCtx'[i]
  <2>1. c \in UpContexts /\ d = [c EXCEPT !.dead = TRUE, !.at = "over"]
    BY <1>3, <1>9
  <2>2. \A j \in UpFiles \ {i} : upCtx'[j] = upCtx[j]
    BY <1>3, <1>9
  <2>3. upCtx' = [j \in UpFiles |-> upCtx'[j]]
    BY <1>3, <1>9
  <2>4. d \in UpContexts /\ d.k = c.k /\ d.known = c.known /\ d.at = "over"
    <3> HIDE DEF c, d
    <3> QED BY <2>1 DEF UpContexts
  <2>5. \A j \in UpFiles : upCtx'[j] \in UpContexts
    BY <1>3, <2>2, <2>4
  <2>6. upCtx' \in [UpFiles -> UpContexts]
    BY <2>3, <2>5
  <2>7. upRun' \in UpRuns /\ SameRun(upRun, upRun')
    BY <1>3, <1>9 DEF UpRuns, SameRun
  <2> HIDE DEF d
  <2> QED BY <1>1, <1>2, <1>4, <1>6, <1>7, <1>8, <1>9, <2>2, <2>4, <2>6, <2>7, EndedStep DEF d
<1>10. CASE /\ upRun.at = "race"
            /\ RunOn(upRun, [upCtx EXCEPT ![i].dead = TRUE, ![i].at = "over", ![i].fly = {}],
                     list, reqs, upAsk)
  <2> DEFINE d == [c EXCEPT !.dead = TRUE, !.at = "over", !.fly = {}]
  <2>1. c \in UpContexts
    BY <1>3
  <2>2. [upCtx EXCEPT ![i].dead = TRUE, ![i].at = "over", ![i].fly = {}]
          = [upCtx EXCEPT ![i] = d]
    BY <1>3
  <2>3. /\ d \in UpContexts /\ d.k = c.k /\ d.known = c.known /\ d.at = "over" /\ d.dead
    <3> HIDE DEF c
    <3> QED BY <2>1 DEF UpContexts
  <2>4. RunOn(upRun, [upCtx EXCEPT ![i] = d], list, reqs, upAsk)
    BY <1>10, <2>2
  <2> HIDE DEF d
  <2>5. ~CtxLive(d)
    BY <2>3 DEF CtxLive
  <2> QED BY <1>1, <1>2, <1>4, <1>6, <1>7, <1>8, <1>10, <2>3, <2>4, <2>5, RaceStep
<1> QED BY <1>1, <1>9, <1>10

LEMMA StepChunkSettled ==
  ASSUME UpInv, NEW i \in UpFiles, NEW x \in AllChunks, UpChunkSettled(i, x)
  PROVE  UpInv'
<1>0. UpTypeOK
  BY DEF UpInv
<1> DEFINE c == upCtx[i]
<1>1. /\ upRun.at = "race" /\ CtxLive(c) /\ x \in c.fly /\ UpPageStays
      /\ UNCHANGED <<upAbort, upServer, upMade, upCount>>
  BY DEF UpChunkSettled, UpLive, CtxLive
<1>2. PICK q \in UpAnswers(i, x) :
        RunOn(upRun, [upCtx EXCEPT ![i].fly = @ \ {x}, ![i].known = @ \/ q.at = "done"],
              upList, upReq \ {q}, upAsk)
  BY DEF UpChunkSettled
<1> DEFINE fly == c.fly \ {x}
           known == c.known \/ q.at = "done"
           d == [c EXCEPT !.fly = fly, !.known = known]
<1>3. /\ upCtx \in [UpFiles -> UpContexts] /\ upList \in [UpItems -> UpStatus]
      /\ upReq \in SUBSET UpRequests /\ upAbort \subseteq UpSids
  BY <1>0, UpTypes
<1>4. c \in UpContexts /\ c.fly \in SUBSET (1 .. UpChunks) /\ c.known \in BOOLEAN
  BY <1>3, CtxTyped
<1>5. fly \in SUBSET (1 .. UpChunks) /\ known \in BOOLEAN
  BY <1>4
<1>6. [upCtx EXCEPT ![i].fly = @ \ {x}, ![i].known = @ \/ q.at = "done"]
        = [upCtx EXCEPT ![i] = d]
  BY <1>3
<1>7. RunOn(upRun, [upCtx EXCEPT ![i] = d], upList, upReq \ {q}, upAsk)
  BY <1>2, <1>6
<1>8. q.at = "done" => <<i, c.k>> \in upStored
  BY DEF UpInv, UpServeInv, ServesOK, UpAnswers, UpSid
<1>9. known => c.known \/ <<i, c.k>> \in upStored
  BY <1>8
<1>10. c.at # "none" /\ c.at # "init"
  BY <1>1 DEF UpInv, UpCountInv, CountOK
<1> HIDE DEF fly, known
<1>11. /\ d \in UpContexts /\ d.k = c.k /\ d.at = c.at /\ d.dead = c.dead /\ d.known = known
  <2> HIDE DEF c
  <2> QED BY <1>4, <1>5 DEF UpContexts
<1>12. \A p, r \in upReq \ {q} : p.sid = r.sid /\ p.at = "commit" /\ r.at = "commit" => p = r
  BY DEF UpInv, UpServeInv, ServesOK
<1>13. CtxLive(d) <=> CtxLive(c)
  BY <1>11 DEF CtxLive
<1>14. upAbort' = upAbort
  BY <1>1
<1> HIDE DEF d
<1> QED BY <1>1, <1>3, <1>7, <1>9, <1>10, <1>11, <1>12, <1>13, <1>14, RaceStep

LEMMA StepAbortedSettled ==
  ASSUME UpInv, NEW i \in UpFiles, UpAbortedSettled(i)
  PROVE  UpInv'
<1>0. UpTypeOK
  BY DEF UpInv
<1> DEFINE c == upCtx[i]
           d == [c EXCEPT !.fly = {}, !.at = "over"]
<1>1. /\ upRun.at = "race" /\ c.dead /\ c.fly # {} /\ UpPageStays
      /\ UNCHANGED <<upAbort, upServer, upMade, upCount>>
      /\ RunOn(upRun, [upCtx EXCEPT ![i].fly = {}, ![i].at = "over"], upList, upReq, upAsk)
  BY DEF UpAbortedSettled
<1>2. /\ upCtx \in [UpFiles -> UpContexts] /\ upList \in [UpItems -> UpStatus]
      /\ upReq \in SUBSET UpRequests /\ upAbort \subseteq UpSids
  BY <1>0, UpTypes
<1>3. [upCtx EXCEPT ![i].fly = {}, ![i].at = "over"] = [upCtx EXCEPT ![i] = d]
  BY <1>2
<1>4. RunOn(upRun, [upCtx EXCEPT ![i] = d], upList, upReq, upAsk)
  BY <1>1, <1>3
<1>5. c.at # "none" /\ c.at # "init"
  BY <1>1 DEF UpInv, UpCountInv, CountOK
<1>6. /\ d \in UpContexts /\ d.k = c.k /\ d.at = "over" /\ d.known = c.known
  <2>1. c \in UpContexts
    BY <1>2
  <2> HIDE DEF c
  <2> QED BY <2>1 DEF UpContexts
<1>7. ~CtxLive(c) /\ ~CtxLive(d)
  BY <1>1, <1>6 DEF CtxLive
<1>8. \A p, r \in upReq : p.sid = r.sid /\ p.at = "commit" /\ r.at = "commit" => p = r
  BY DEF UpInv, UpServeInv, ServesOK
<1>9. upAbort' = upAbort
  BY <1>1
<1> HIDE DEF d
<1> QED BY <1>1, <1>2, <1>4, <1>5, <1>6, <1>7, <1>8, <1>9, RaceStep

LEMMA InitLoop ==
  ASSUME NEW run, NEW run2, NEW cx, NEW cx2, NEW list, NEW list2,
         NEW made, NEW stored, NEW past,
         PageOK(run, cx, list, made, stored, past), run.at = "init", run.k > 0,
         run.all \subseteq UpItems, past \subseteq UpItems, SameRun(run, run2),
         NEW i \in UpFiles, run.item = i,
         cx2[i].k = cx[i].k, cx2[i].known => cx[i].known,
         CtxLive(cx2[i]) => CtxLive(cx[i]) /\ cx2[i].at # "init",
         CtxLive(cx[i]) => CtxLive(cx2[i]) \/ list2[i] \in {"gone", "FAILED"},
         \A j \in UpFiles \ {i} : cx2[j] = cx[j],
         \A j \in UpItems \ {i} : list2[j] = list[j],
         \/ list2[i] = list[i] \/ list2[i] = "FAILED"
         \/ list2[i] = "UPLOADING" /\ CtxLive(cx2[i])
  PROVE  LoopOK(run2, cx2, list2, made, stored, past)
<1>1. /\ run.left \subseteq run.all /\ \A j \in run.all \cup past : list[j] # "new"
      /\ \A j \in run.left : list[j] \in {"WAITING", "gone"}
      /\ \A j \in past : Settled(j, list, made, stored) \/ j \in run.all
      /\ \A j \in UpDirs : list[j] = "DONE" => j \in made
      /\ \A j \in UpFiles : /\ list[j] = "DONE" => <<j, cx[j].k>> \in stored
                            /\ cx[j].known => <<j, cx[j].k>> \in stored
                            /\ CtxLive(cx[j]) => j \in run.all \ run.left
  BY DEF PageOK, ListOK
<1>2. /\ i \in run.all \ run.left
      /\ \A j \in UpFiles : CtxLive(cx[j]) /\ cx[j].at = "init" => j = i
      /\ \A j \in run.all : \/ Settled(j, list, made, stored) \/ j \in run.left
                            \/ j \in UpFiles /\ CtxLive(cx[j])
  BY DEF PageOK
<1>3. i \notin UpDirs /\ UpFiles \subseteq UpItems /\ UpDirs \subseteq UpItems
  BY UpConstants DEF UpItems
<1>4. ListOK(run2, cx2, list2, made, stored, past)
  <2>1. \A j \in run.all \cup past : list2[j] # "new"
    BY <1>1
  <2>2. \A j \in run.left : list2[j] \in {"WAITING", "gone"}
    BY <1>1, <1>2
  <2>3. \A j \in past : Settled(j, list2, made, stored) \/ j \in run.all
    BY <1>1, <1>2 DEF Settled
  <2>4. \A j \in UpDirs : list2[j] = "DONE" => j \in made
    BY <1>1, <1>3
  <2>5. \A j \in UpFiles : /\ list2[j] = "DONE" => <<j, cx2[j].k>> \in stored
                           /\ cx2[j].known => <<j, cx2[j].k>> \in stored
                           /\ CtxLive(cx2[j]) => j \in run.all \ run.left
    BY <1>1, <1>3
  <2> QED BY <1>1, <2>1, <2>2, <2>3, <2>4, <2>5 DEF ListOK, SameRun
<1>5. \A j \in UpFiles : CtxLive(cx2[j]) => cx2[j].at # "init"
  BY <1>2
<1>6. \A j \in run.all : \/ Settled(j, list2, made, stored) \/ j \in run.left
                         \/ j \in UpFiles /\ CtxLive(cx2[j])
  <2> SUFFICES ASSUME NEW j \in run.all
               PROVE  \/ Settled(j, list2, made, stored) \/ j \in run.left
                      \/ j \in UpFiles /\ CtxLive(cx2[j])
    OBVIOUS
  <2>1. CASE j # i
    BY <1>2, <2>1 DEF Settled
  <2>2. CASE j = i
    BY <1>2, <2>2 DEF Settled
  <2> QED BY <2>1, <2>2
<1> QED BY <1>4, <1>5, <1>6 DEF LoopOK, SameRun

LEMMA MkdirLoop ==
  ASSUME NEW run, NEW run2, NEW cx, NEW list, NEW list2,
         NEW made, NEW made2, NEW stored, NEW past,
         PageOK(run, cx, list, made, stored, past), run.at = "mkdir", run.k > 0,
         run.all \subseteq UpItems, past \subseteq UpItems, SameRun(run, run2),
         NEW i, run.item = i, made \subseteq made2,
         \A j \in UpItems \ {i} : list2[j] = list[j],
         list2[i] \in {"gone", "FAILED"} \/ (list2[i] = "DONE" /\ i \in made2)
  PROVE  LoopOK(run2, cx, list2, made2, stored, past)
<1>1. /\ run.left \subseteq run.all /\ \A j \in run.all \cup past : list[j] # "new"
      /\ \A j \in run.left : list[j] \in {"WAITING", "gone"}
      /\ \A j \in past : Settled(j, list, made, stored) \/ j \in run.all
      /\ \A j \in UpDirs : list[j] = "DONE" => j \in made
      /\ \A j \in UpFiles : /\ list[j] = "DONE" => <<j, cx[j].k>> \in stored
                            /\ cx[j].known => <<j, cx[j].k>> \in stored
                            /\ CtxLive(cx[j]) => j \in run.all \ run.left
  BY DEF PageOK, ListOK
<1>2. /\ i \in run.all \ run.left /\ i \in UpDirs
      /\ \A j \in UpFiles : CtxLive(cx[j]) => cx[j].at # "init"
      /\ \A j \in run.all : \/ Settled(j, list, made, stored) \/ j \in run.left \/ j = i
                            \/ j \in UpFiles /\ CtxLive(cx[j])
  BY DEF PageOK
<1>3. i \notin UpFiles /\ UpFiles \subseteq UpItems /\ UpDirs \subseteq UpItems
  BY <1>2, UpConstants DEF UpItems
<1>4. Settled(i, list2, made2, stored)
  BY <1>2 DEF Settled, StoredItem
<1>5. \A j \in UpItems : Settled(j, list, made, stored) => Settled(j, list2, made2, stored)
  BY <1>4 DEF Settled, StoredItem
<1>6. ListOK(run2, cx, list2, made2, stored, past)
  <2>1. \A j \in run.all \cup past : list2[j] # "new"
    BY <1>1
  <2>2. \A j \in run.left : list2[j] \in {"WAITING", "gone"}
    BY <1>1, <1>2
  <2>3. \A j \in past : Settled(j, list2, made2, stored) \/ j \in run.all
    BY <1>1, <1>5
  <2>4. \A j \in UpDirs : list2[j] = "DONE" => j \in made2
    BY <1>1, <1>3
  <2>5. \A j \in UpFiles : list2[j] = "DONE" => <<j, cx[j].k>> \in stored
    BY <1>1, <1>3
  <2> QED BY <1>1, <2>1, <2>2, <2>3, <2>4, <2>5 DEF ListOK, SameRun
<1>7. \A j \in run.all : \/ Settled(j, list2, made2, stored) \/ j \in run.left
                         \/ j \in UpFiles /\ CtxLive(cx[j])
  BY <1>2, <1>4, <1>5
<1> QED BY <1>2, <1>6, <1>7 DEF LoopOK, SameRun

(* What an answer of init leaves of the contexts and of the requests.      *)
LEMMA InitMid ==
  ASSUME UpInv, NEW a \in upAsk, NEW i \in UpFiles, i = a.sid[1], a.sid = UpSid(i),
         NEW d \in UpContexts, d.k = upCtx[i].k, d.at \notin {"none", "init"},
         upRun.at = "init", upRun.item = i,
         NEW run2 \in UpRuns, SameRun(upRun, run2),
         NEW list2 \in [UpItems -> UpStatus],
         LoopOK(run2, [upCtx EXCEPT ![i] = d], list2, upMade, upStored, Earlier),
         \A j \in UpItems : upList[j] = "new" => list2[j] = "new",
         RunOn(run2, [upCtx EXCEPT ![i] = d], list2, upReq, upAsk \ {a}),
         UpPageStays, UNCHANGED <<upAbort, upServer, upMade, upCount>>
  PROVE  UpInv'
<1>0. UpTypeOK
  BY DEF UpInv
<1> DEFINE cx == [upCtx EXCEPT ![i] = d]
<1>1. /\ upCtx \in [UpFiles -> UpContexts] /\ upReq \in SUBSET UpRequests
      /\ upAsk \in SUBSET UpAsks /\ upAbort \cup upCut \cup upStored \subseteq UpSids
      /\ Earlier \subseteq UpItems /\ upMade \subseteq UpDirs
      /\ upCount["submit"] \in Nat
      /\ upCount \in [{"submit", "fault", "remove"} -> Nat] /\ upLocked \in BOOLEAN
  BY <1>0, UpTypes
<1>2. /\ cx \in [UpFiles -> UpContexts] /\ cx[i] = d
      /\ \A j \in UpFiles \ {i} : cx[j] = upCtx[j]
  BY <1>1
<1>3. /\ upMade' = upMade /\ upCount' = upCount /\ upLocked' = upLocked /\ upAbort' = upAbort
  BY DEF UpPageStays
<1>4. NetOK(upCtx, upReq, upAsk, upAbort, upSess, upCut, upStored)
  BY DEF UpInv, UpNetInv
<1>5. upCtx[i].at = "init"
  <2>1. a.sid[2] = upCtx[i].k
    BY DEF UpSid
  <2> QED BY <1>4, <2>1 DEF NetOK
<1> HIDE DEF cx
<1>6. CountOK(run2, cx, upCount["submit"])
  <2>1. CountOK(upRun, upCtx, upCount["submit"])
    BY DEF UpInv, UpCountInv
  <2>2. \A j \in UpFiles :
          /\ cx[j].k <= upCount["submit"]
          /\ cx[j].at # "none" => cx[j].k > 0
          /\ cx[j].at \in {"none", "init"} => cx[j].fly = {}
          /\ upRun.at = "scan" \/ j \in upRun.left => cx[j].k < upRun.k
    <3> SUFFICES ASSUME NEW j \in UpFiles
                 PROVE  /\ cx[j].k <= upCount["submit"]
                        /\ cx[j].at # "none" => cx[j].k > 0
                        /\ cx[j].at \in {"none", "init"} => cx[j].fly = {}
                        /\ upRun.at = "scan" \/ j \in upRun.left => cx[j].k < upRun.k
      OBVIOUS
    <3>1. CASE j = i
      BY <1>2, <1>5, <2>1, <3>1 DEF CountOK
    <3>2. CASE j # i
      BY <1>2, <2>1, <3>2 DEF CountOK
    <3> QED BY <3>1, <3>2
  <2> QED BY <2>1, <2>2 DEF CountOK, SameRun
<1>7. NetOK(cx, upReq, upAsk \ {a}, upAbort, upSess, upCut, upStored)
  <2>1. \A b \in upAsk \ {a} : upCtx[b.sid[1]].at = "init" /\ b.sid[2] = upCtx[b.sid[1]].k
                                 => cx[b.sid[1]].at = "init"
    <3> SUFFICES ASSUME NEW b \in upAsk \ {a}, upCtx[b.sid[1]].at = "init",
                        b.sid[2] = upCtx[b.sid[1]].k
                 PROVE  cx[b.sid[1]].at = "init"
      OBVIOUS
    <3>1. b.sid \in UpSids /\ b.sid = <<b.sid[1], b.sid[2]>> /\ b.sid[1] \in UpFiles
      BY <1>1, AskTyped, SidParts
    <3>2. CASE b.sid[1] = i
      <4>1. b.sid = a.sid
        BY <3>1, <3>2 DEF UpSid
      <4> QED BY <1>4, <4>1 DEF NetOK
    <3>3. CASE b.sid[1] # i
      BY <1>2, <3>1, <3>3
    <3> QED BY <3>2, <3>3
  <2>2. \A j \in UpFiles : cx[j].k = upCtx[j].k
    BY <1>2
  <2> QED BY <1>1, <1>2, <1>4, <2>1, <2>2, NetKept
<1>8. ServesOK(upReq, upSess, upCut, upStored)
  BY DEF UpInv, UpServeInv
<1>9. LoopMid(run2, cx, list2, upReq, upAsk \ {a}, upAbort', upSess, upCut, upMade', upStored,
              Earlier, upCount'["submit"])
  <2>1. LoopOK(run2, cx, list2, upMade, upStored, Earlier)
    BY DEF cx
  <2>2. upAsk \ {a} \in SUBSET UpAsks
    BY <1>1
  <2> QED BY <1>1, <1>2, <1>3, <1>6, <1>7, <1>8, <2>1, <2>2 DEF LoopMid
<1>10. ~(upAwait /\ ~upEarly)
  BY DEF UpInv, UpOfferInv, OfferOK
<1>11. RunOn(run2, cx, list2, upReq, upAsk \ {a})
  BY DEF cx
<1>12. UNCHANGED <<upOffer, upScan, upReading, upEnded, upServer>>
  BY DEF UpPageStays
<1> QED BY <1>1, <1>3, <1>9, <1>10, <1>11, <1>12, StepLoop

LEMMA StepInitAnswered ==
  ASSUME UpInv, NEW a \in upAsk, UpInitAnswered(a)
  PROVE  UpInv'
<1>0. UpTypeOK
  BY DEF UpInv
<1> DEFINE i == a.sid[1]
           mine == upRun.at = "init" /\ UpSid(i) = a.sid /\ upRun.item = i
           asks == upAsk \ {a}
           c == upCtx[i]
           ended(at, dead) == [upCtx EXCEPT ![i].at = at, ![i].dead = dead]
<1>1. /\ a.at # "sent" /\ UpPageStays /\ UNCHANGED <<upAbort, upServer, upMade, upCount>>
  BY DEF UpInitAnswered
<1>2. /\ upCtx \in [UpFiles -> UpContexts] /\ upReq \in SUBSET UpRequests
      /\ upAsk \in SUBSET UpAsks /\ upAbort \cup upCut \cup upStored \subseteq UpSids
      /\ Earlier \subseteq UpItems /\ upRun \in UpRuns /\ upList \in [UpItems -> UpStatus]
  BY <1>0, UpTypes
<1>3. a.sid \in UpSids /\ i \in UpFiles /\ a.at \in {"made", "bad"}
  BY <1>1, <1>2, AskTyped, SidParts
<1>4. c \in UpContexts
  BY <1>2, <1>3
<1>5. CtxLive(c) <=> UpLive(i)
  BY DEF CtxLive, UpLive
<1>6. CASE ~mine
  <2>1. /\ upAsk' = asks /\ upRun' = upRun /\ upCtx' = upCtx /\ upList' = upList
        /\ upReq' = upReq
    BY <1>3, <1>6 DEF UpInitAnswered
  <2>2. /\ upSess' = upSess /\ upCut' = upCut /\ upStored' = upStored /\ upMade' = upMade
        /\ upLocked' = upLocked /\ upAwait' = upAwait /\ upEarly' = upEarly
        /\ upScan' = upScan /\ upReading' = upReading /\ upEnding' = upEnding
        /\ upTaken' = upTaken /\ upAbort' = upAbort /\ upCount' = upCount
    BY <1>1 DEF upServer, UpPageStays, upOffer, upEnded
  <2>3. UpTypeOK'
    BY <1>0, <2>1, <2>2 DEF UpTypeOK
  <2>4. NetOK(upCtx, upReq, asks, upAbort, upSess, upCut, upStored)
    BY DEF UpInv, UpNetInv, NetOK
  <2>5. Earlier' = Earlier
    BY <2>2 DEF Earlier
  <2> QED BY <2>1, <2>2, <2>3, <2>4, <2>5
          DEF UpInv, UpCountInv, UpNetInv, UpServeInv, UpPageInv, UpFreshInv, UpOfferInv
<1>7. CASE mine
  <2>1. PageOK(upRun, upCtx, upList, upMade, upStored, Earlier) /\ upRun.k > 0
    BY <1>7 DEF UpInv, UpPageInv, UpCountInv, CountOK
  <2>2. upRun.all \subseteq UpItems
    <3>1. upRun.all \in SUBSET UpItems
      BY <1>2, RunTyped
    <3> QED BY <3>1
  <2>3. i \in UpItems /\ {"UPLOADING", "FAILED"} \subseteq UpStatus
    BY <1>3 DEF UpItems, UpStatus
  <2>4. i \in upRun.all /\ upList[i] # "new"
    BY <1>7, <2>1 DEF PageOK, ListOK
  <2>5. \A at \in CtxStages, dead \in BOOLEAN :
          LET d == [c EXCEPT !.at = at, !.dead = dead]
          IN /\ d \in UpContexts /\ d.k = c.k /\ d.at = at /\ d.dead = dead
             /\ d.known = c.known
    <3> HIDE DEF c
    <3> QED BY <1>4 DEF UpContexts, CtxStages
  <2>6. \A at, dead : ended(at, dead)
                        = [upCtx EXCEPT ![i] = [c EXCEPT !.at = at, !.dead = dead]]
    BY <1>2, <1>3
  <2>7. \A d : /\ [upCtx EXCEPT ![i] = d][i] = d
               /\ \A j \in UpFiles \ {i} : [upCtx EXCEPT ![i] = d][j] = upCtx[j]
    BY <1>2, <1>3
  <2>8. CASE a.at = "made" /\ UpLive(i)
    <3> DEFINE d == [c EXCEPT !.at = "up", !.dead = FALSE]
               cx == [upCtx EXCEPT ![i] = d]
               list == Marked(i, "UPLOADING")
    <3>1. RunOn(upRun, cx, list, upReq, asks)
      <4>1. RunOn(upRun, ended("up", FALSE), list, upReq, asks)
        BY <1>7, <2>8 DEF UpInitAnswered
      <4> QED BY <2>6, <4>1
    <3>2. d \in UpContexts /\ d.k = c.k /\ d.at = "up" /\ ~d.dead /\ d.known = c.known
      <4>1. "up" \in CtxStages /\ FALSE \in BOOLEAN
        BY DEF CtxStages
      <4> QED BY <2>5, <4>1, Zenon
    <3>3. /\ list \in [UpItems -> UpStatus]
          /\ \A j \in UpItems \ {i} : list[j] = upList[j]
          /\ list[i] = IF UpListed(upList, i) THEN "UPLOADING" ELSE upList[i]
      BY <1>0, <2>3, MarkedIs
    <3>4. /\ cx[i] = d /\ \A j \in UpFiles \ {i} : cx[j] = upCtx[j]
      BY <2>7
    <3> HIDE DEF d, list
    <3>5. CtxLive(d) /\ SameRun(upRun, upRun)
      BY <3>2 DEF CtxLive, SameRun
    <3>6. LoopOK(upRun, cx, list, upMade, upStored, Earlier)
      <4> HIDE DEF cx
      <4> QED BY <1>2, <1>3, <1>5, <1>7, <2>1, <2>2, <2>8, <3>2, <3>3, <3>4, <3>5, InitLoop
    <3>7. \A j \in UpItems : upList[j] = "new" => list[j] = "new"
      BY <2>4, <3>3
    <3> QED BY <1>1, <1>2, <1>3, <1>7, <3>1, <3>2, <3>3, <3>5, <3>6, <3>7, InitMid
  <2>9. CASE a.at = "made" /\ ~UpLive(i)
    <3> DEFINE d == [c EXCEPT !.at = "over", !.dead = TRUE]
               cx == [upCtx EXCEPT ![i] = d]
    <3>1. RunOn(upRun, cx, upList, upReq, asks)
      <4>1. RunOn(upRun, ended("over", TRUE), upList, upReq, asks)
        BY <1>7, <2>9 DEF UpInitAnswered
      <4> QED BY <2>6, <4>1
    <3>2. d \in UpContexts /\ d.k = c.k /\ d.at = "over" /\ d.dead /\ d.known = c.known
      <4>1. "over" \in CtxStages /\ TRUE \in BOOLEAN
        BY DEF CtxStages
      <4> QED BY <2>5, <4>1, Zenon
    <3>4. /\ cx[i] = d /\ \A j \in UpFiles \ {i} : cx[j] = upCtx[j]
      BY <2>7
    <3> HIDE DEF d
    <3>5. ~CtxLive(d) /\ SameRun(upRun, upRun)
      BY <3>2 DEF CtxLive, SameRun
    <3>6. LoopOK(upRun, cx, upList, upMade, upStored, Earlier)
      <4> HIDE DEF cx
      <4> QED BY <1>2, <1>3, <1>5, <1>7, <2>1, <2>2, <2>9, <3>2, <3>4, <3>5, InitLoop
    <3> QED BY <1>1, <1>2, <1>3, <1>7, <3>1, <3>2, <3>5, <3>6, InitMid
  <2>10. CASE a.at = "bad"
    <3> DEFINE d == [c EXCEPT !.at = "over", !.dead = TRUE]
               cx == [upCtx EXCEPT ![i] = d]
               list == Marked(i, "FAILED")
               run == [upRun EXCEPT !.fin = TRUE]
    <3>1. RunOn(run, cx, list, upReq, asks)
      <4>1. RunOn(run, ended("over", TRUE), list, upReq, asks)
        BY <1>7, <2>10 DEF UpInitAnswered
      <4> QED BY <2>6, <4>1
    <3>2. d \in UpContexts /\ d.k = c.k /\ d.at = "over" /\ d.dead /\ d.known = c.known
      <4>1. "over" \in CtxStages /\ TRUE \in BOOLEAN
        BY DEF CtxStages
      <4> QED BY <2>5, <4>1, Zenon
    <3>3. /\ list \in [UpItems -> UpStatus]
          /\ \A j \in UpItems \ {i} : list[j] = upList[j]
          /\ list[i] = IF UpListed(upList, i) THEN "FAILED" ELSE upList[i]
      BY <1>0, <2>3, MarkedIs
    <3>4. /\ cx[i] = d /\ \A j \in UpFiles \ {i} : cx[j] = upCtx[j]
      BY <2>7
    <3>5. run \in UpRuns /\ SameRun(upRun, run)
      BY <1>2 DEF UpRuns, SameRun
    <3> HIDE DEF d, list, run
    <3>6. ~CtxLive(d)
      BY <3>2 DEF CtxLive
    <3>7. list[i] \in {"gone", "FAILED"}
      BY <2>4, <3>3 DEF UpListed
    <3>8. LoopOK(run, cx, list, upMade, upStored, Earlier)
      <4>1. list[i] = upList[i] \/ list[i] = "FAILED"
        BY <3>3
      <4> HIDE DEF cx
      <4> QED BY <1>2, <1>3, <1>7, <2>1, <2>2, <3>2, <3>3, <3>4, <3>5, <3>6, <3>7, <4>1, InitLoop
    <3>9. \A j \in UpItems : upList[j] = "new" => list[j] = "new"
      BY <2>4, <3>3
    <3> QED BY <1>1, <1>2, <1>3, <1>7, <3>1, <3>2, <3>3, <3>5, <3>8, <3>9, InitMid
  <2> QED BY <1>3, <2>8, <2>9, <2>10
<1> QED BY <1>6, <1>7

LEMMA StepMkdirAnswered ==
  ASSUME UpInv, UpMkdirAnswered
  PROVE  UpInv'
<1>0. UpTypeOK
  BY DEF UpInv
<1> DEFINE i == upRun.item
<1>1. /\ upRun.at = "mkdir" /\ UpPageStays /\ UNCHANGED <<upAbort, upServer>>
  BY DEF UpMkdirAnswered
<1>2. /\ upCtx \in [UpFiles -> UpContexts] /\ upReq \in SUBSET UpRequests
      /\ upAsk \in SUBSET UpAsks /\ upAbort \cup upCut \cup upStored \subseteq UpSids
      /\ Earlier \subseteq UpItems /\ upRun \in UpRuns /\ upMade \subseteq UpDirs
      /\ upList \in [UpItems -> UpStatus] /\ upCount["submit"] \in Nat
      /\ upCount \in [{"submit", "fault", "remove"} -> Nat] /\ upLocked \in BOOLEAN
  BY <1>0, UpTypes
<1>3. PageOK(upRun, upCtx, upList, upMade, upStored, Earlier)
  BY DEF UpInv, UpPageInv
<1>4. /\ CountOK(upRun, upCtx, upCount["submit"]) /\ upRun.k > 0
      /\ NetOK(upCtx, upReq, upAsk, upAbort, upSess, upCut, upStored)
      /\ ServesOK(upReq, upSess, upCut, upStored)
      /\ ~(upAwait /\ ~upEarly)
  BY <1>1 DEF UpInv, UpCountInv, CountOK, UpNetInv, UpServeInv, UpOfferInv, OfferOK
<1>5. upRun.all \subseteq UpItems
  <2>1. upRun.all \in SUBSET UpItems
    BY <1>2, RunTyped
  <2> QED BY <2>1
<1>6. /\ i \in UpDirs /\ i \in UpItems /\ upList[i] # "new"
      /\ {"DONE", "FAILED"} \subseteq UpStatus
  BY <1>1, <1>3 DEF PageOK, ListOK, UpItems, UpStatus
<1>7. /\ upLocked' = upLocked /\ upAbort' = upAbort
      /\ UNCHANGED <<upOffer, upScan, upReading, upEnded, upServer>>
  BY <1>1 DEF UpPageStays
<1>8. ASSUME NEW run \in UpRuns, SameRun(upRun, run), NEW list \in [UpItems -> UpStatus],
             \A j \in UpItems \ {i} : list[j] = upList[j],
             upMade \subseteq upMade', upMade' \subseteq UpDirs,
             list[i] \in {"gone", "FAILED"} \/ (list[i] = "DONE" /\ i \in upMade'),
             RunOn(run, upCtx, list, upReq, upAsk),
             upCount' \in [{"submit", "fault", "remove"} -> Nat],
             upCount'["submit"] = upCount["submit"]
      PROVE  UpInv'
  <2>1. LoopOK(run, upCtx, list, upMade', upStored, Earlier)
    BY <1>1, <1>2, <1>3, <1>4, <1>5, <1>8, MkdirLoop
  <2>2. CountOK(run, upCtx, upCount["submit"])
    BY <1>4, <1>8 DEF CountOK, SameRun
  <2>3. LoopMid(run, upCtx, list, upReq, upAsk, upAbort', upSess, upCut, upMade', upStored,
                Earlier, upCount'["submit"])
    BY <1>2, <1>4, <1>7, <1>8, <2>1, <2>2 DEF LoopMid
  <2>4. \A j \in UpItems : upList[j] = "new" => list[j] = "new"
    BY <1>6, <1>8
  <2>5. upLocked' \in BOOLEAN
    BY <1>2, <1>7
  <2> QED BY <1>4, <1>7, <1>8, <2>3, <2>4, <2>5, StepLoop
<1>9. \A won, fin \in BOOLEAN :
        /\ LET r == [upRun EXCEPT !.won = won, !.fin = fin]
           IN r \in UpRuns /\ SameRun(upRun, r)
        /\ LET s == [upRun EXCEPT !.fin = fin] IN s \in UpRuns /\ SameRun(upRun, s)
  BY <1>2 DEF UpRuns, SameRun
<1>10. \A status \in {"DONE", "FAILED"} :
         /\ Marked(i, status) \in [UpItems -> UpStatus]
         /\ \A j \in UpItems \ {i} : Marked(i, status)[j] = upList[j]
         /\ Marked(i, status)[i] \in {"gone", status}
  <2> SUFFICES ASSUME NEW status \in {"DONE", "FAILED"}
               PROVE  /\ Marked(i, status) \in [UpItems -> UpStatus]
                      /\ \A j \in UpItems \ {i} : Marked(i, status)[j] = upList[j]
                      /\ Marked(i, status)[i] \in {"gone", status}
    OBVIOUS
  <2>1. status \in UpStatus
    BY <1>6
  <2>2. /\ Marked(i, status) \in [UpItems -> UpStatus]
        /\ \A j \in UpItems \ {i} : Marked(i, status)[j] = upList[j]
        /\ Marked(i, status)[i] = IF UpListed(upList, i) THEN status ELSE upList[i]
    BY <1>0, <1>6, <2>1, MarkedIs
  <2> QED BY <1>6, <2>2 DEF UpListed
<1>11. CASE /\ upMade' = upMade \cup {i}
            /\ RunOn([upRun EXCEPT !.won = TRUE, !.fin = TRUE], upCtx,
                     Marked(i, "DONE"), upReq, upAsk)
            /\ upCount' = upCount
  <2> DEFINE run == [upRun EXCEPT !.won = TRUE, !.fin = TRUE]
             list == Marked(i, "DONE")
  <2>1. run \in UpRuns /\ SameRun(upRun, run)
    <3>1. TRUE \in BOOLEAN
      OBVIOUS
    <3> QED BY <1>9, <3>1, Zenon
  <2>2. /\ list \in [UpItems -> UpStatus]
        /\ \A j \in UpItems \ {i} : list[j] = upList[j]
        /\ list[i] \in {"gone", "DONE"}
    <3>1. "DONE" \in {"DONE", "FAILED"}
      OBVIOUS
    <3> QED BY <1>10, <3>1, Zenon
  <2>3. upMade \subseteq upMade' /\ upMade' \subseteq UpDirs /\ i \in upMade'
    BY <1>2, <1>6, <1>11
  <2>4. RunOn(run, upCtx, list, upReq, upAsk) /\ upCount' = upCount
    BY <1>11
  <2> HIDE DEF run, list
  <2> QED BY <1>2, <1>8, <2>1, <2>2, <2>3, <2>4
<1>12. CASE /\ UpCounted("fault")
            /\ RunOn([upRun EXCEPT !.fin = TRUE], upCtx, Marked(i, "FAILED"), upReq, upAsk)
            /\ upMade' = upMade
  <2> DEFINE run == [upRun EXCEPT !.fin = TRUE]
             list == Marked(i, "FAILED")
  <2>1. run \in UpRuns /\ SameRun(upRun, run)
    <3>1. TRUE \in BOOLEAN
      OBVIOUS
    <3> QED BY <1>9, <3>1, Zenon
  <2>2. /\ list \in [UpItems -> UpStatus]
        /\ \A j \in UpItems \ {i} : list[j] = upList[j]
        /\ list[i] \in {"gone", "FAILED"}
    <3>1. "FAILED" \in {"DONE", "FAILED"}
      OBVIOUS
    <3> QED BY <1>10, <3>1, Zenon
  <2>3. RunOn(run, upCtx, list, upReq, upAsk) /\ upMade' = upMade
    BY <1>12
  <2>4. /\ upCount' \in [{"submit", "fault", "remove"} -> Nat]
        /\ upCount'["submit"] = upCount["submit"]
    BY <1>0, <1>12, Counted
  <2> HIDE DEF run, list
  <2> QED BY <1>2, <1>8, <2>1, <2>2, <2>3, <2>4
<1> QED BY <1>11, <1>12 DEF UpMkdirAnswered

LEMMA RunBegun ==
  ASSUME NEW k \in 0 .. UpSubmits, NEW left \in SUBSET UpItems,
         NEW s, s = [NoUpRun EXCEPT !.k = k, !.left = left, !.all = left]
  PROVE  s \in UpRuns /\ s.at = "idle" /\ s.k = k /\ s.left = left /\ s.all = left
<1>1. \A r \in UpRuns :
        LET d == [r EXCEPT !.k = k, !.left = left, !.all = left]
        IN d \in UpRuns /\ d.at = r.at /\ d.k = k /\ d.left = left /\ d.all = left
  BY DEF UpRuns
<1>2. LET d == [NoUpRun EXCEPT !.k = k, !.left = left, !.all = left]
      IN /\ d \in UpRuns /\ d.at = NoUpRun.at /\ d.k = k /\ d.left = left
         /\ d.all = left
  BY <1>1, NoRunIs, Zenon
<1> QED BY <1>2, NoRunIs, Zenon

(* A run begins with what the list holds, or ends at once if that is nothing. *)
LEMMA BeginStep ==
  ASSUME UpInv, ~Running(upRun), NEW k \in 1 .. UpSubmits,
         \A i \in UpFiles : upCtx[i].k < k,
         NEW list \in [UpItems -> UpStatus],
         \A i \in UpItems : \/ list[i] = upList[i]
                            \/ upList[i] = "FAILED" /\ list[i] = "WAITING"
                            \/ upList[i] = "DONE" /\ list[i] = "gone",
         BeginRun(k, list),
         upCount["submit"] <= upCount'["submit"], k <= upCount'["submit"],
         upCount' \in [{"submit", "fault", "remove"} -> Nat],
         ~(upAwait /\ ~upEarly),
         UNCHANGED <<upOffer, upScan, upReading, upEnded, upAbort, upServer, upMade>>
  PROVE  UpInv'
<1>0. UpTypeOK
  BY DEF UpInv
<1> DEFINE items == {i \in UpItems : UpListed(list, i)}
           ready == [i \in UpItems |-> IF i \in items THEN "WAITING" ELSE list[i]]
<1>1. /\ upCtx \in [UpFiles -> UpContexts] /\ upReq \in SUBSET UpRequests
      /\ upAsk \in SUBSET UpAsks /\ upAbort \cup upCut \cup upStored \subseteq UpSids
      /\ Earlier \subseteq UpItems /\ upRun \in UpRuns /\ upMade \subseteq UpDirs
      /\ upList \in [UpItems -> UpStatus] /\ upCount["submit"] \in Nat
      /\ upReading \subseteq UpFiles
  BY <1>0, UpTypes
<1>2. UpFiles \subseteq UpItems /\ UpDirs \subseteq UpItems
  BY DEF UpItems
<1>3. /\ \A i \in Earlier : upList[i] # "new"
      /\ \A i \in UpDirs : upList[i] = "DONE" => i \in upMade
      /\ \A i \in UpFiles : /\ upList[i] = "DONE" => <<i, upCtx[i].k>> \in upStored
                            /\ upCtx[i].known => <<i, upCtx[i].k>> \in upStored
                            /\ ~CtxLive(upCtx[i])
  BY DEF UpInv, UpPageInv, PageOK, ListOK
<1>4. /\ CountOK(upRun, upCtx, upCount["submit"])
      /\ NetOK(upCtx, upReq, upAsk, upAbort, upSess, upCut, upStored)
      /\ ServesOK(upReq, upSess, upCut, upStored)
  BY DEF UpInv, UpCountInv, UpNetInv, UpServeInv
<1>5. /\ upAbort' = upAbort /\ upSess' = upSess /\ upCut' = upCut /\ upStored' = upStored
      /\ upMade' = upMade /\ upAwait' = upAwait /\ upEarly' = upEarly
      /\ upScan' = upScan /\ upReading' = upReading /\ upEnding' = upEnding
      /\ upTaken' = upTaken
  BY DEF upServer, upOffer, upEnded
<1>6. \A i \in UpItems : upList[i] = "new" => list[i] = "new"
  OBVIOUS
<1>7. \A i \in Earlier : list[i] # "new"
  BY <1>1, <1>3
<1>8. k \in Nat /\ k > 0 /\ upCount'["submit"] \in Nat
  BY UpConstants
<1>9. \A i \in UpFiles : upCtx[i].k \in Nat /\ upCtx[i].k < k
  BY <1>1, CtxNumber
<1>12. \A I \in SUBSET UpItems : \A r :
         r = [NoUpRun EXCEPT !.k = k, !.left = I, !.all = I]
           => r \in UpRuns /\ r.at = "idle" /\ r.k = k /\ r.left = I /\ r.all = I
  <2>1. k \in 0 .. UpSubmits
    BY UpConstants
  <2> QED BY <2>1, RunBegun
<1>10. CASE items = {}
  <2>1. /\ upRun' = NoUpRun /\ upLocked' = FALSE /\ upList' = list
        /\ upCtx' = upCtx /\ upReq' = upReq /\ upAsk' = upAsk
    BY <1>10 DEF BeginRun
  <2>2. UpTypeOK'
    <3>1. upRun' \in UpRuns
      BY <2>1, NoRunIs
    <3> QED BY <1>0, <1>5, <2>1, <3>1 DEF UpTypeOK
  <2>3. UpCountInv'
    BY <1>1, <1>4, <1>8, <1>9, <2>1, NoRunIs DEF UpCountInv, CountOK
  <2>4. UpNetInv' /\ UpServeInv'
    BY <1>4, <1>5, <2>1 DEF UpNetInv, UpServeInv
  <2>5. \A i \in UpItems : list[i] \in {"new", "gone"}
    BY <1>10 DEF UpListed
  <2>6. \A i \in Earlier : list[i] # "new" /\ Settled(i, list, upMade, upStored)
    BY <1>1, <1>7, <2>5 DEF Settled
  <2>7. /\ \A i \in UpDirs : list[i] = "DONE" => i \in upMade
        /\ \A i \in UpFiles : /\ list[i] = "DONE" => <<i, upCtx[i].k>> \in upStored
                              /\ upCtx[i].known => <<i, upCtx[i].k>> \in upStored
    BY <1>2, <1>3, <2>5
  <2>8. PageOK(NoUpRun, upCtx, list, upMade, upStored, Earlier)
    BY <1>3, <2>6, <2>7, NoRunPage
  <2>9. UpPageInv'
    BY <1>5, <2>1, <2>8 DEF UpPageInv, Earlier
  <2>10. UpFreshInv'
    BY <1>1, <1>2, <1>5, <1>6, <2>1 DEF UpInv, UpFreshInv, FreshOK
  <2>11. UpOfferInv'
    BY <1>5 DEF UpOfferInv
  <2> QED BY <2>2, <2>3, <2>4, <2>9, <2>10, <2>11 DEF UpInv
<1>11. CASE items # {}
  <2>1. PICK run : /\ run = [NoUpRun EXCEPT !.k = k, !.left = items, !.all = items]
                   /\ RunOn(run, upCtx, ready, upReq, upAsk) /\ upLocked' = TRUE
    BY <1>11 DEF BeginRun
  <2>2. run \in UpRuns /\ run.at = "idle" /\ run.k = k /\ run.left = items /\ run.all = items
    <3>1. k \in 0 .. UpSubmits
      BY UpConstants
    <3>2. items \in SUBSET UpItems
      OBVIOUS
    <3>3. run = [NoUpRun EXCEPT !.k = k, !.left = items, !.all = items]
      BY <2>1
    <3> HIDE DEF items
    <3>4. \A r : r = [NoUpRun EXCEPT !.k = k, !.left = items, !.all = items]
           => r \in UpRuns /\ r.at = "idle" /\ r.k = k /\ r.left = items /\ r.all = items
      BY <1>12, <3>2, Zenon
    <3> QED BY <3>3, <3>4, Zenon
  <2>3. /\ ready \in [UpItems -> UpStatus]
        /\ \A i \in items : i \in UpItems /\ ready[i] = "WAITING"
        /\ \A i \in UpItems \ items : ready[i] = list[i] /\ ready[i] \in {"new", "gone"}
    BY DEF UpStatus, UpListed
  <2>4. \A i \in UpItems : ready[i] = "new" <=> list[i] = "new"
    BY DEF UpListed
  <2> HIDE DEF items, ready
  <2>5. ListOK(run, upCtx, ready, upMade, upStored, Earlier)
    <3>1. \A i \in run.all \cup Earlier : ready[i] # "new"
      BY <1>1, <1>7, <2>2, <2>3, <2>4
    <3>2. \A i \in Earlier : Settled(i, ready, upMade, upStored) \/ i \in run.all
      BY <1>1, <2>2, <2>3, <3>1 DEF Settled
    <3>3. \A i \in UpItems : ready[i] # "DONE"
      BY <2>3
    <3> QED BY <1>2, <1>3, <2>2, <2>3, <3>1, <3>2, <3>3 DEF ListOK
  <2>6. LoopOK(run, upCtx, ready, upMade, upStored, Earlier)
    BY <1>3, <1>8, <2>2, <2>5 DEF LoopOK
  <2>7. CountOK(run, upCtx, upCount'["submit"])
    <3>1. \A i \in UpFiles : /\ upCtx[i].at # "none" => upCtx[i].k > 0
                             /\ upCtx[i].at \in {"none", "init"} => upCtx[i].fly = {}
      BY <1>4 DEF CountOK
    <3>2. \A i \in UpFiles : upCtx[i].k <= upCount'["submit"]
      BY <1>8, <1>9
    <3> QED BY <1>8, <1>9, <2>2, <3>1, <3>2 DEF CountOK
  <2>8. LoopMid(run, upCtx, ready, upReq, upAsk, upAbort', upSess, upCut, upMade', upStored,
                Earlier, upCount'["submit"])
    BY <1>1, <1>4, <1>5, <1>8, <2>2, <2>3, <2>6, <2>7 DEF LoopMid
  <2>9. \A i \in UpItems : upList[i] = "new" => ready[i] = "new"
    BY <1>6, <2>4
  <2>10. upLocked' \in BOOLEAN /\ upMade' \subseteq UpDirs
    BY <1>1, <1>5, <2>1
  <2> QED BY <2>1, <2>8, <2>9, <2>10, StepLoop
<1> QED BY <1>10, <1>11

LEMMA StepScanned ==
  ASSUME UpInv, UpScanned
  PROVE  UpInv'
<1>0. UpTypeOK
  BY DEF UpInv
<1>1. /\ upRun.at = "scan" /\ BeginRun(upRun.k, upList) /\ upCount' = upCount
      /\ UNCHANGED <<upOffer, upScan, upReading, upEnded, upAbort, upServer, upMade>>
  BY DEF UpScanned
<1>2. /\ upRun \in UpRuns /\ upList \in [UpItems -> UpStatus] /\ upCount["submit"] \in Nat
      /\ upCount \in [{"submit", "fault", "remove"} -> Nat]
  BY <1>0, UpTypes
<1>3. /\ upRun.k <= upCount["submit"] /\ upRun.k > 0
      /\ \A i \in UpFiles : upCtx[i].k < upRun.k
  BY <1>1 DEF UpInv, UpCountInv, CountOK
<1>4. upRun.k \in 1 .. UpSubmits
  <2>1. upRun.k \in 0 .. UpSubmits
    BY <1>2, RunTyped
  <2> QED BY <1>3, <2>1, UpConstants
<1>5. ~Running(upRun) /\ ~(upAwait /\ ~upEarly)
  BY <1>1 DEF Running, UpInv, UpOfferInv, OfferOK
<1>6. upCount["submit"] <= upCount'["submit"] /\ upRun.k <= upCount'["submit"]
  BY <1>1, <1>2, <1>3
<1> QED BY <1>1, <1>2, <1>3, <1>4, <1>5, <1>6, BeginStep

LEMMA StepSubmit ==
  ASSUME UpInv, UpSubmit
  PROVE  UpInv'
<1>0. UpTypeOK
  BY DEF UpInv
<1> DEFINE k == upCount["submit"] + 1
           list == IF ~HasFailedUploads(upList) THEN upList
                   ELSE [i \in UpItems |-> CASE upList[i] = "FAILED" -> "WAITING"
                                             [] upList[i] = "DONE" -> "gone"
                                             [] OTHER -> upList[i]]
<1>1. /\ ~upAwait /\ upRun.at = "idle" /\ UpCounted("submit")
      /\ IF upScan = "scanning"
           THEN /\ upRun' = [NoUpRun EXCEPT !.at = "scan", !.k = k]
                /\ upLocked' = TRUE /\ upList' = list
                /\ UNCHANGED <<upCtx, upReq, upAsk>>
           ELSE BeginRun(k, list)
      /\ UNCHANGED <<upOffer, upScan, upReading, upEnded, upAbort, upServer, upMade>>
  BY DEF UpSubmit
<1>2. /\ upCount' \in [{"submit", "fault", "remove"} -> Nat]
      /\ upCount'["submit"] = k /\ upCount["submit"] < UpSubmits
  BY <1>0, <1>1, Counted
<1>3. /\ upList \in [UpItems -> UpStatus] /\ upCount["submit"] \in Nat
      /\ upCtx \in [UpFiles -> UpContexts] /\ Earlier \subseteq UpItems
      /\ upReading \subseteq UpFiles
  BY <1>0, UpTypes
<1>4. k \in 1 .. UpSubmits /\ k > upCount["submit"] /\ k \in Nat
  BY <1>2, <1>3, UpConstants
<1>5. \A i \in UpFiles : upCtx[i].k < k
  <2>1. \A i \in UpFiles : upCtx[i].k <= upCount["submit"]
    BY DEF UpInv, UpCountInv, CountOK
  <2>2. \A i \in UpFiles : upCtx[i].k \in Nat
    BY <1>3, CtxNumber
  <2> QED BY <1>3, <2>1, <2>2
<1> HIDE DEF k
<1>6. /\ list \in [UpItems -> UpStatus]
      /\ \A i \in UpItems : \/ list[i] = upList[i] /\ upList[i] # "FAILED"
                            \/ upList[i] = "FAILED" /\ list[i] = "WAITING"
                            \/ upList[i] = "DONE" /\ list[i] = "gone"
  <2>1. CASE HasFailedUploads(upList)
    BY <1>3, <2>1 DEF UpStatus
  <2>2. CASE ~HasFailedUploads(upList)
    BY <1>3, <2>2 DEF HasFailedUploads
  <2> QED BY <2>1, <2>2
<1> HIDE DEF list
<1>7. ~Running(upRun) /\ ~(upAwait /\ ~upEarly)
  BY <1>1 DEF Running
<1>8. CASE upScan # "scanning"
  <2>1. BeginRun(k, list)
    BY <1>1, <1>8
  <2>2. upCount["submit"] <= upCount'["submit"] /\ k <= upCount'["submit"]
    BY <1>2, <1>3, <1>4
  <2>3. \A i \in UpItems : \/ list[i] = upList[i]
                           \/ upList[i] = "FAILED" /\ list[i] = "WAITING"
                           \/ upList[i] = "DONE" /\ list[i] = "gone"
    BY <1>6
  <2> QED BY <1>1, <1>2, <1>4, <1>5, <1>6, <1>7, <2>1, <2>2, <2>3, BeginStep
<1>9. CASE upScan = "scanning"
  <2>1. /\ upRun' = [NoUpRun EXCEPT !.at = "scan", !.k = k]
        /\ upLocked' = TRUE /\ upList' = list
        /\ upCtx' = upCtx /\ upReq' = upReq /\ upAsk' = upAsk
    BY <1>1, <1>9
  <2>2. /\ upRun' \in UpRuns /\ upRun'.at = "scan" /\ upRun'.k = k
        /\ upRun'.left = {} /\ upRun'.all = {}
    <3>1. k \in 0 .. UpSubmits /\ {} \in SUBSET UpItems
      BY <1>4, UpConstants
    <3>2. LET s == [NoUpRun EXCEPT !.at = "scan", !.k = k]
          IN s \in UpRuns /\ s.at = "scan" /\ s.k = k /\ s.left = {} /\ s.all = {}
      BY <3>1, RunMade, Zenon
    <3> QED BY <2>1, <3>2, Zenon
  <2>3. /\ upAbort' = upAbort /\ upSess' = upSess /\ upCut' = upCut /\ upStored' = upStored
        /\ upMade' = upMade /\ upAwait' = upAwait /\ upEarly' = upEarly
        /\ upScan' = upScan /\ upReading' = upReading /\ upEnding' = upEnding
        /\ upTaken' = upTaken
    BY <1>1 DEF upServer, upOffer, upEnded
  <2>4. UpTypeOK'
    BY <1>0, <1>2, <1>6, <2>1, <2>2, <2>3 DEF UpTypeOK
  <2>5. UpCountInv'
    <3>1. CountOK(upRun, upCtx, upCount["submit"])
      BY DEF UpInv, UpCountInv
    <3>2. \A i \in UpFiles : upCtx[i].k <= k
      <4>1. \A i \in UpFiles : upCtx[i].k \in Nat
        BY <1>3, CtxNumber
      <4> QED BY <1>4, <1>5, <4>1
    <3> QED BY <1>2, <1>4, <1>5, <2>1, <2>2, <3>1, <3>2 DEF UpCountInv, CountOK
  <2>6. UpNetInv' /\ UpServeInv'
    BY <2>1, <2>3 DEF UpInv, UpNetInv, UpServeInv
  <2>7. /\ \A i \in Earlier : /\ upList[i] # "new"
                              /\ Settled(i, upList, upMade, upStored)
        /\ \A i \in UpDirs : upList[i] = "DONE" => i \in upMade
        /\ \A i \in UpFiles : /\ upList[i] = "DONE" => <<i, upCtx[i].k>> \in upStored
                              /\ upCtx[i].known => <<i, upCtx[i].k>> \in upStored
                              /\ ~CtxLive(upCtx[i])
    BY <1>1, <1>7 DEF UpInv, UpPageInv, PageOK, ListOK
  <2>8. UpFiles \subseteq UpItems /\ UpDirs \subseteq UpItems
    BY DEF UpItems
  <2>9. PageOK(upRun', upCtx, list, upMade, upStored, Earlier)
    <3>1. \A i \in Earlier : list[i] # "new"
      BY <1>3, <1>6, <2>7
    <3>2. \A i \in Earlier : Settled(i, list, upMade, upStored) \/ list[i] = "WAITING"
      BY <1>3, <1>6, <2>7 DEF Settled
    <3>3. /\ \A i \in UpDirs : list[i] = "DONE" => i \in upMade
          /\ \A i \in UpFiles : list[i] = "DONE" => <<i, upCtx[i].k>> \in upStored
      BY <1>6, <2>7, <2>8
    <3> QED BY <2>2, <2>7, <3>1, <3>2, <3>3 DEF PageOK, ListOK, Running
  <2>10. UpPageInv'
    BY <2>1, <2>3, <2>9 DEF UpPageInv, Earlier
  <2>11. UpFreshInv'
    BY <1>3, <1>6, <2>1, <2>3, <2>8 DEF UpInv, UpFreshInv, FreshOK
  <2>12. UpOfferInv'
    BY <1>1, <2>3 DEF UpOfferInv
  <2> QED BY <2>4, <2>5, <2>6, <2>10, <2>11, <2>12 DEF UpInv
<1> QED BY <1>8, <1>9

(* ------------------------------ the server ------------------------------ *)

LEMMA SessionMoves ==
  ASSUME NEW s \in UpSessions
  PROVE  /\ s.st \in {"none", "active", "completing", "committed", "canceled"}
         /\ \A d : d = [s EXCEPT !.st = "active"] => d \in UpSessions /\ d.st = "active"
         /\ \A d : d = [s EXCEPT !.st = "completing"] =>
                     d \in UpSessions /\ d.st = "completing"
         /\ \A d : d = [s EXCEPT !.st = "committed"] =>
                     d \in UpSessions /\ d.st = "committed"
         /\ \A d : d = [s EXCEPT !.st = "canceled"] =>
                     d \in UpSessions /\ d.st = "canceled"
         /\ \A c \in 1 .. UpChunks : \A d :
              d = [s EXCEPT !.got = @ \cup {c}] => d \in UpSessions /\ d.st = s.st
BY DEF UpSessions

LEMMA NoSession == NoUpSess \in UpSessions /\ NoUpSess.st = "none"
BY DEF NoUpSess, UpSessions

LEMMA ReleasedIs ==
  ASSUME NEW sess \in [UpSids -> UpSessions], NEW reqs
  PROVE  /\ Released(sess, reqs) \in [UpSids -> UpSessions]
         /\ \A s \in UpSids :
              \/ Released(sess, reqs)[s] = sess[s]
              \/ /\ sess[s].st = "canceled" /\ Released(sess, reqs)[s].st = "none"
                 /\ \A r \in reqs : r.sid = s => r.at \notin {"write", "commit", "wait"}
<1>1. \A s \in UpSids :
        Released(sess, reqs)[s] = IF sess[s].st = "canceled" /\ ~Held(reqs, s)
                                  THEN NoUpSess ELSE sess[s]
  BY DEF Released
<1>2. Released(sess, reqs) = [s \in UpSids |-> Released(sess, reqs)[s]]
  BY DEF Released
<1>3. \A s \in UpSids : Released(sess, reqs)[s] \in UpSessions
  BY <1>1, NoSession
<1>4. Released(sess, reqs) \in [UpSids -> UpSessions]
  BY <1>2, <1>3
<1> QED BY <1>1, <1>4, NoSession DEF Held

LEMMA MovedIs ==
  ASSUME UpTypeOK, NEW q \in upReq,
         NEW at \in {"sent", "write", "commit", "wait", "ok", "done", "err"}
  PROVE  /\ Moved(q, at) \in SUBSET UpRequests
         /\ \A r \in Moved(q, at) : \/ r \in upReq \ {q}
                                    \/ /\ r.sid = q.sid /\ r.at = at /\ r.part = q.part
                                       /\ r = [q EXCEPT !.at = at]
<1>1. q \in UpRequests /\ upReq \in SUBSET UpRequests
  BY UpTypes
<1>2. \A r : r = [q EXCEPT !.at = at] =>
        r \in UpRequests /\ r.sid = q.sid /\ r.at = at /\ r.part = q.part
  BY <1>1 DEF UpRequests
<1>3. \A r \in Moved(q, at) : r \in upReq \ {q} \/ r = [q EXCEPT !.at = at]
  BY DEF Moved
<1>4. \A r \in Moved(q, at) : r \in UpRequests
  BY <1>1, <1>2, <1>3
<1> QED BY <1>2, <1>3, <1>4

(* What the server does to the sessions that requests and aborts name.     *)
LEMMA NetServed ==
  ASSUME NEW cx, NEW reqs, NEW reqs2, NEW asks \in SUBSET UpAsks,
         NEW abort, NEW abort2, NEW sess, NEW sess2, NEW cut, NEW cut2,
         NEW stored, NEW stored2,
         NetOK(cx, reqs, asks, abort, sess, cut, stored),
         \A r \in reqs2 : \E q \in reqs : q.sid = r.sid,
         \A s \in abort2 \cup cut2 \cup stored2 :
           s \in abort \cup cut \cup stored \/ \E q \in reqs : q.sid = s,
         \A s \in UpSids : sess2[s].st # "none" =>
           sess[s].st # "none" \/ \E q \in reqs : q.sid = s
  PROVE  NetOK(cx, reqs2, asks, abort2, sess2, cut2, stored2)
<1>1. /\ \A s \in abort \cup cut \cup stored : Past(cx, s)
      /\ \A q \in reqs : Past(cx, q.sid)
      /\ \A s \in UpSids : sess[s].st # "none" => Past(cx, s)
      /\ \A a, b \in asks : a.sid = b.sid => a = b
  BY DEF NetOK
<1>2. \A a \in asks :
        /\ Past(cx, a.sid)
        /\ a.sid[2] = cx[a.sid[1]].k => cx[a.sid[1]].at = "init"
        /\ a.sid \notin abort \cup cut \cup stored
        /\ \A q \in reqs : q.sid # a.sid
        /\ a.at = "sent" => sess[a.sid].st = "none"
  BY DEF NetOK
<1>3. /\ \A s \in abort2 \cup cut2 \cup stored2 : Past(cx, s)
      /\ \A q \in reqs2 : Past(cx, q.sid)
      /\ \A s \in UpSids : sess2[s].st # "none" => Past(cx, s)
  BY <1>1
<1>4. \A a \in asks :
        /\ Past(cx, a.sid)
        /\ a.sid[2] = cx[a.sid[1]].k => cx[a.sid[1]].at = "init"
        /\ a.sid \notin abort2 \cup cut2 \cup stored2
        /\ \A q \in reqs2 : q.sid # a.sid
        /\ a.at = "sent" => sess2[a.sid].st = "none"
  <2>1. \A a \in asks : a.sid \in UpSids
    BY AskTyped
  <2> QED BY <1>2, <2>1
<1> QED BY <1>1, <1>3, <1>4 DEF NetOK

LEMMA ServeStep ==
  ASSUME UpInv, UNCHANGED <<upPage, upRun, upCtx, upMade>>,
         upAsk' \in SUBSET UpAsks, upReq' \in SUBSET UpRequests, upAbort' \subseteq UpSids,
         upSess' \in [UpSids -> UpSessions], upCut' \subseteq UpSids,
         upStored \subseteq upStored', upStored' \subseteq UpSids,
         upCount' \in [{"submit", "fault", "remove"} -> Nat],
         upCount'["submit"] = upCount["submit"],
         NetOK(upCtx, upReq', upAsk', upAbort', upSess', upCut', upStored'),
         ServesOK(upReq', upSess', upCut', upStored')
  PROVE  UpInv'
<1>0. UpTypeOK
  BY DEF UpInv
<1>1. /\ upList' = upList /\ upLocked' = upLocked /\ upAwait' = upAwait
      /\ upEarly' = upEarly /\ upScan' = upScan /\ upReading' = upReading
      /\ upEnding' = upEnding /\ upTaken' = upTaken
      /\ upRun' = upRun /\ upCtx' = upCtx /\ upMade' = upMade
  BY DEF upPage, upOffer, upEnded
<1>2. UpTypeOK'
  BY <1>0, <1>1 DEF UpTypeOK
<1>3. UpCountInv' /\ UpNetInv' /\ UpServeInv' /\ UpFreshInv'
  BY <1>1 DEF UpInv, UpCountInv, UpNetInv, UpServeInv, UpFreshInv
<1>4. /\ upRun \in UpRuns /\ Earlier \subseteq UpItems /\ upTaken \subseteq Earlier
  BY <1>0, UpTypes DEF Earlier
<1>5. upRun.all \subseteq UpItems
  <2>1. upRun.all \in SUBSET UpItems
    BY <1>4, RunTyped
  <2> QED BY <2>1
<1>6. PageOK(upRun, upCtx, upList, upMade, upStored, Earlier)
  BY DEF UpInv, UpPageInv
<1>7. /\ PageOK(upRun, upCtx, upList, upMade, upStored', Earlier)
      /\ \A i \in Earlier : upList[i] = "gone" \/ StoredItem(i, upMade, upStored)
           => upList[i] = "gone" \/ StoredItem(i, upMade, upStored')
  BY <1>4, <1>5, <1>6, PageKept
<1>8. UpPageInv'
  BY <1>1, <1>7 DEF UpPageInv, Earlier
<1>9. UpOfferInv'
  BY <1>1, <1>4, <1>7 DEF UpInv, UpOfferInv, OfferOK
<1> QED BY <1>2, <1>3, <1>8, <1>9 DEF UpInv

(* A request goes on: what its session and what is stored must be then.    *)
LEMMA RequestStep ==
  ASSUME UpInv, NEW q \in upReq,
         NEW at \in {"sent", "write", "commit", "wait", "ok", "done", "err"},
         NEW sess \in [UpSids -> UpSessions], ServerStep(q, at, sess),
         \A s \in UpSids : s # q.sid => sess[s] = upSess[s],
         upStored \subseteq upStored', upStored' \subseteq upStored \cup {q.sid},
         upCount' \in [{"submit", "fault", "remove"} -> Nat],
         upCount'["submit"] = upCount["submit"],
         q.sid \in upCut => sess[q.sid].st \in {"canceled", "none"},
         q.sid \in upStored' => sess[q.sid].st \in {"committed", "none"},
         sess[q.sid].st = "committed" => q.sid \in upStored',
         q.sid \notin upCut \/ q.sid \notin upStored',
         at = "commit" => /\ sess[q.sid].st = "completing"
                          /\ \A r \in upReq : r.sid = q.sid => r.at # "commit",
         at \in {"write", "wait"} => sess[q.sid].st # "none",
         at = "done" => q.sid \in upStored', at = "write" => q.part # 0,
         \A r \in upReq \ {q} : r.sid = q.sid =>
           /\ r.at = "commit" => sess[q.sid].st = "completing"
           /\ r.at \in {"write", "wait"} => sess[q.sid].st # "none"
  PROVE  UpInv'
<1>0. UpTypeOK
  BY DEF UpInv
<1> DEFINE reqs == Moved(q, at)
           free == Released(sess, reqs)
<1>1. /\ upReq' = reqs /\ upSess' = free
      /\ UNCHANGED <<upPage, upRun, upCtx, upMade>>
      /\ upAsk' = upAsk /\ upAbort' = upAbort /\ upCut' = upCut
  BY DEF ServerStep
<1>2. /\ upReq \in SUBSET UpRequests /\ upAsk \in SUBSET UpAsks
      /\ upAbort \cup upCut \cup upStored \subseteq UpSids
  BY <1>0, UpTypes
<1>3. q.sid \in UpSids /\ \A r \in upReq : r.sid \in UpSids
  BY <1>2, RequestTyped
<1>4. /\ reqs \in SUBSET UpRequests
      /\ \A r \in reqs : \/ r \in upReq \ {q}
                         \/ /\ r.sid = q.sid /\ r.at = at /\ r.part = q.part
                            /\ r = [q EXCEPT !.at = at]
  BY <1>0, MovedIs
<1> HIDE DEF reqs
<1>5. /\ free \in [UpSids -> UpSessions]
      /\ \A s \in UpSids :
           \/ free[s] = sess[s]
           \/ /\ sess[s].st = "canceled" /\ free[s].st = "none"
              /\ \A r \in reqs : r.sid = s => r.at \notin {"write", "commit", "wait"}
  BY ReleasedIs
<1> HIDE DEF free
<1>6. NetOK(upCtx, upReq, upAsk, upAbort, upSess, upCut, upStored)
  BY DEF UpInv, UpNetInv
<1>7. /\ \A s \in UpSids : /\ s \in upCut => upSess[s].st \in {"canceled", "none"}
                           /\ s \in upStored => upSess[s].st \in {"committed", "none"}
                           /\ upSess[s].st = "committed" => s \in upStored
                           /\ s \notin upCut \/ s \notin upStored
      /\ \A r \in upReq : /\ r.at = "commit" => upSess[r.sid].st = "completing"
                          /\ r.at \in {"write", "wait"} => upSess[r.sid].st # "none"
                          /\ r.at = "done" => r.sid \in upStored
                          /\ r.at = "write" => r.part # 0
      /\ \A r, t \in upReq : r.sid = t.sid /\ r.at = "commit" /\ t.at = "commit" => r = t
  BY DEF UpInv, UpServeInv, ServesOK
<1>8. NetOK(upCtx, reqs, upAsk, upAbort, free, upCut, upStored')
  <2>1. \A r \in reqs : \E t \in upReq : t.sid = r.sid
    BY <1>4
  <2>2. \A s \in upAbort \cup upCut \cup upStored' :
          s \in upAbort \cup upCut \cup upStored \/ \E t \in upReq : t.sid = s
    OBVIOUS
  <2>3. \A s \in UpSids : free[s].st # "none" =>
          upSess[s].st # "none" \/ \E t \in upReq : t.sid = s
    BY <1>5
  <2> QED BY <1>2, <1>6, <2>1, <2>2, <2>3, NetServed
<1>9. ServesOK(reqs, free, upCut, upStored')
  <2>1. \A s \in UpSids : /\ s \in upCut => free[s].st \in {"canceled", "none"}
                          /\ s \in upStored' => free[s].st \in {"committed", "none"}
                          /\ free[s].st = "committed" => s \in upStored'
                          /\ s \notin upCut \/ s \notin upStored'
    <3> SUFFICES ASSUME NEW s \in UpSids
                 PROVE  /\ s \in upCut => free[s].st \in {"canceled", "none"}
                        /\ s \in upStored' => free[s].st \in {"committed", "none"}
                        /\ free[s].st = "committed" => s \in upStored'
                        /\ s \notin upCut \/ s \notin upStored'
      OBVIOUS
    <3>1. CASE s = q.sid
      BY <1>5, <3>1
    <3>2. CASE s # q.sid
      <4>1. sess[s] = upSess[s] /\ (s \in upStored' <=> s \in upStored)
        BY <3>2
      <4> QED BY <1>5, <1>7, <4>1
    <3> QED BY <3>1, <3>2
  <2>2. \A r \in reqs : /\ r.at = "commit" => free[r.sid].st = "completing"
                        /\ r.at \in {"write", "wait"} => free[r.sid].st # "none"
                        /\ r.at = "done" => r.sid \in upStored'
                        /\ r.at = "write" => r.part # 0
    <3> SUFFICES ASSUME NEW r \in reqs
                 PROVE  /\ r.at = "commit" => free[r.sid].st = "completing"
                        /\ r.at \in {"write", "wait"} => free[r.sid].st # "none"
                        /\ r.at = "done" => r.sid \in upStored'
                        /\ r.at = "write" => r.part # 0
      OBVIOUS
    <3>1. r.sid \in UpSids
      BY <1>3, <1>4
    <3>2. /\ r.at = "commit" => sess[r.sid].st = "completing"
          /\ r.at \in {"write", "wait"} => sess[r.sid].st # "none"
          /\ r.at = "done" => r.sid \in upStored'
          /\ r.at = "write" => r.part # 0
      <4>1. CASE r.sid = q.sid /\ r.at = at /\ r.part = q.part
        BY <4>1
      <4>2. CASE r \in upReq \ {q} /\ r.sid = q.sid
        BY <1>7, <4>2
      <4>3. CASE r \in upReq \ {q} /\ r.sid # q.sid
        BY <1>7, <3>1, <4>3
      <4> QED BY <1>4, <4>1, <4>2, <4>3
    <3> QED BY <1>5, <3>1, <3>2
  <2>3. \A r, t \in reqs : r.sid = t.sid /\ r.at = "commit" /\ t.at = "commit" => r = t
    <3> SUFFICES ASSUME NEW r \in reqs, NEW t \in reqs, r.sid = t.sid,
                        r.at = "commit", t.at = "commit"
                 PROVE  r = t
      OBVIOUS
    <3>1. CASE at = "commit"
      BY <1>4, <1>7, <3>1
    <3>2. CASE at # "commit"
      BY <1>4, <1>7, <3>2
    <3> QED BY <3>1, <3>2
  <2> QED BY <2>1, <2>2, <2>3 DEF ServesOK
<1>10. upStored' \subseteq UpSids
  BY <1>2, <1>3
<1> QED BY <1>1, <1>2, <1>4, <1>5, <1>8, <1>9, <1>10, ServeStep

LEMMA BeginCompletionStep ==
  ASSUME UpInv, NEW q \in upReq, q.at # "commit",
         NEW sess \in [UpSids -> UpSessions],
         \A s \in UpSids : s # q.sid => sess[s] = upSess[s],
         sess[q.sid].st = upSess[q.sid].st,
         BeginCompletion(q, sess), upStored' = upStored, upCount' = upCount
  PROVE  UpInv'
<1>0. UpTypeOK
  BY DEF UpInv
<1>1. /\ q.sid \in UpSids
      /\ upCount' \in [{"submit", "fault", "remove"} -> Nat]
      /\ upCount'["submit"] = upCount["submit"]
  BY <1>0, UpTypes, RequestTyped
<1>2. /\ q.sid \in upCut => upSess[q.sid].st \in {"canceled", "none"}
      /\ q.sid \in upStored => upSess[q.sid].st \in {"committed", "none"}
      /\ upSess[q.sid].st = "committed" => q.sid \in upStored
      /\ q.sid \notin upCut \/ q.sid \notin upStored
      /\ \A r \in upReq : r.sid = q.sid =>
           /\ r.at = "commit" => upSess[q.sid].st = "completing"
           /\ r.at \in {"write", "wait"} => upSess[q.sid].st # "none"
  BY <1>1 DEF UpInv, UpServeInv, ServesOK
<1>3. sess[q.sid] \in UpSessions
      /\ sess[q.sid].st \in {"none", "active", "completing", "committed", "canceled"}
  BY <1>1, SessionMoves
<1>4. CASE sess[q.sid].st = "committed"
  <2>1. ServerStep(q, "done", sess)
    BY <1>4 DEF BeginCompletion
  <2> QED BY <1>1, <1>2, <1>4, <2>1, RequestStep
<1>5. CASE sess[q.sid].st = "completing"
  <2>1. ServerStep(q, "wait", sess)
    BY <1>5 DEF BeginCompletion
  <2> QED BY <1>1, <1>2, <1>5, <2>1, RequestStep
<1>6. CASE sess[q.sid].st \in {"canceled", "none"}
  <2>1. ServerStep(q, "err", sess)
    BY <1>6 DEF BeginCompletion
  <2> QED BY <1>1, <1>2, <1>6, <2>1, RequestStep
<1>7. CASE sess[q.sid].st = "active"
  <2> DEFINE d == [sess[q.sid] EXCEPT !.st = "completing"]
             sess2 == [sess EXCEPT ![q.sid] = d]
  <2>1. ServerStep(q, "commit", sess2)
    BY <1>7 DEF BeginCompletion
  <2>2. d \in UpSessions /\ d.st = "completing"
    BY <1>3, SessionMoves
  <2> HIDE DEF d
  <2>3. /\ sess2 \in [UpSids -> UpSessions] /\ sess2[q.sid].st = "completing"
        /\ \A s \in UpSids : s # q.sid => sess2[s] = upSess[s]
    BY <1>1, <2>2
  <2> HIDE DEF sess2
  <2>4. q.sid \notin upCut /\ q.sid \notin upStored
    BY <1>2, <1>7
  <2>5. \A r \in upReq : r.sid = q.sid => r.at # "commit"
    BY <1>2, <1>7
  <2> QED BY <1>1, <2>1, <2>3, <2>4, <2>5, RequestStep
<1> QED BY <1>3, <1>4, <1>5, <1>6, <1>7

(* What every step of a request starts from.                               *)
LEMMA RequestKnown ==
  ASSUME UpInv, NEW q \in upReq
  PROVE  /\ q.sid \in UpSids /\ q.part \in UpParts
         /\ upSess \in [UpSids -> UpSessions] /\ upSess[q.sid] \in UpSessions
         /\ upCount \in [{"submit", "fault", "remove"} -> Nat]
         /\ q.sid \in upCut => upSess[q.sid].st \in {"canceled", "none"}
         /\ q.sid \in upStored => upSess[q.sid].st \in {"committed", "none"}
         /\ upSess[q.sid].st = "committed" => q.sid \in upStored
         /\ q.sid \notin upCut \/ q.sid \notin upStored
         /\ \A r \in upReq : r.sid = q.sid =>
              /\ r.at = "commit" => upSess[q.sid].st = "completing"
              /\ r.at \in {"write", "wait"} => upSess[q.sid].st # "none"
         /\ \A r \in upReq : r.sid = q.sid /\ r.at = "commit" /\ q.at = "commit" => r = q
         /\ q.at = "write" => q.part # 0
<1>1. UpTypeOK
  BY DEF UpInv
<1>2. q.sid \in UpSids /\ q.part \in UpParts
  BY <1>1, UpTypes, RequestTyped
<1>3. /\ upSess \in [UpSids -> UpSessions]
      /\ upCount \in [{"submit", "fault", "remove"} -> Nat]
  BY <1>1, UpTypes
<1> QED BY <1>2, <1>3 DEF UpInv, UpServeInv, ServesOK

LEMMA StepChunk ==
  ASSUME UpInv, NEW q \in upReq, HandleApiFileUploadChunk(q)
  PROVE  UpInv'
<1> DEFINE s == upSess[q.sid]
<1>1. q.at = "sent" /\ q.part # 0 /\ upStored' = upStored /\ upCount' = upCount
  BY DEF HandleApiFileUploadChunk
<1>2. /\ q.sid \in UpSids /\ upSess \in [UpSids -> UpSessions] /\ s \in UpSessions
      /\ upCount \in [{"submit", "fault", "remove"} -> Nat]
      /\ q.sid \in upCut => s.st \in {"canceled", "none"}
      /\ q.sid \in upStored => s.st \in {"committed", "none"}
      /\ s.st = "committed" => q.sid \in upStored
      /\ q.sid \notin upCut \/ q.sid \notin upStored
      /\ \A r \in upReq : r.sid = q.sid =>
           /\ r.at = "commit" => s.st = "completing"
           /\ r.at \in {"write", "wait"} => s.st # "none"
  BY RequestKnown
<1>3. s.st \in {"none", "active", "completing", "committed", "canceled"}
  BY <1>2, SessionMoves
<1>4. /\ s.st \in {"none", "canceled"} => ServerStep(q, "err", upSess)
      /\ s.st \in {"committed", "completing"} => BeginCompletion(q, upSess)
      /\ s.st = "active" => \/ ServerStep(q, "write", upSess)
                            \/ ServerStep(q, "ok", upSess) \/ BeginCompletion(q, upSess)
  <2>1. CASE s.st \in {"none", "canceled"}
    BY <2>1 DEF HandleApiFileUploadChunk
  <2>2. CASE s.st \in {"committed", "completing"}
    BY <2>2 DEF HandleApiFileUploadChunk
  <2>3. CASE s.st = "active"
    BY <2>3 DEF HandleApiFileUploadChunk
  <2> QED BY <2>1, <2>2, <2>3, <1>3
<1> HIDE DEF s
<1>5. CASE ServerStep(q, "err", upSess)
  BY <1>1, <1>2, <1>5, RequestStep DEF s
<1>6. CASE BeginCompletion(q, upSess)
  BY <1>1, <1>2, <1>6, BeginCompletionStep
<1>7. CASE ServerStep(q, "ok", upSess)
  BY <1>1, <1>2, <1>7, RequestStep DEF s
<1>8. CASE ServerStep(q, "write", upSess) /\ s.st = "active"
  BY <1>1, <1>2, <1>8, RequestStep DEF s
<1> QED BY <1>3, <1>4, <1>5, <1>6, <1>7, <1>8

LEMMA StepWrite ==
  ASSUME UpInv, NEW q \in upReq, WriteUploadChunk(q)
  PROVE  UpInv'
<1> DEFINE d == [upSess[q.sid] EXCEPT !.got = @ \cup {q.part}]
           got == [upSess EXCEPT ![q.sid] = d]
<1>1. q.at = "write" /\ upStored' = upStored /\ upCount' = upCount
  BY DEF WriteUploadChunk
<1>2. /\ q.sid \in UpSids /\ upSess \in [UpSids -> UpSessions]
      /\ upSess[q.sid] \in UpSessions
      /\ upCount \in [{"submit", "fault", "remove"} -> Nat]
      /\ q.sid \in upCut => upSess[q.sid].st \in {"canceled", "none"}
      /\ q.sid \in upStored => upSess[q.sid].st \in {"committed", "none"}
      /\ upSess[q.sid].st = "committed" => q.sid \in upStored
      /\ q.sid \notin upCut \/ q.sid \notin upStored
      /\ \A r \in upReq : r.sid = q.sid =>
           /\ r.at = "commit" => upSess[q.sid].st = "completing"
           /\ r.at \in {"write", "wait"} => upSess[q.sid].st # "none"
  BY RequestKnown
<1>3. \/ BeginCompletion(q, got) \/ ServerStep(q, "ok", got)
      \/ ServerStep(q, "err", upSess)
  BY DEF WriteUploadChunk
<1>4. CASE ServerStep(q, "err", upSess)
  BY <1>1, <1>2, <1>4, RequestStep
<1>5. CASE BeginCompletion(q, got) \/ ServerStep(q, "ok", got)
  <2>1. q.part \in 1 .. UpChunks
    <3>1. q.part \in UpParts /\ q.part # 0
      BY <1>1, RequestKnown
    <3> QED BY <3>1, UpConstants DEF UpParts
  <2>2. d \in UpSessions /\ d.st = upSess[q.sid].st
    BY <1>2, <2>1, SessionMoves
  <2> HIDE DEF d
  <2>3. /\ got \in [UpSids -> UpSessions] /\ got[q.sid].st = upSess[q.sid].st
        /\ \A s \in UpSids : s # q.sid => got[s] = upSess[s]
    BY <1>2, <2>2
  <2> HIDE DEF got
  <2>4. CASE BeginCompletion(q, got)
    BY <1>1, <2>3, <2>4, BeginCompletionStep
  <2>5. CASE ServerStep(q, "ok", got)
    BY <1>1, <1>2, <2>3, <2>5, RequestStep
  <2> QED BY <1>5, <2>4, <2>5
<1> QED BY <1>3, <1>4, <1>5

LEMMA StepComplete ==
  ASSUME UpInv, NEW q \in upReq, HandleApiFileUploadComplete(q)
  PROVE  UpInv'
<1>1. /\ q.at = "sent" /\ BeginCompletion(q, upSess)
      /\ upStored' = upStored /\ upCount' = upCount
  BY DEF HandleApiFileUploadComplete
<1>2. upSess \in [UpSids -> UpSessions]
  BY RequestKnown
<1> QED BY <1>1, <1>2, BeginCompletionStep

LEMMA StepCommit ==
  ASSUME UpInv, NEW q \in upReq, CommitUpload(q)
  PROVE  UpInv'
<1>0. UpTypeOK
  BY DEF UpInv
<1>1. q.at = "commit"
  BY DEF CommitUpload
<1>2. /\ q.sid \in UpSids /\ upSess \in [UpSids -> UpSessions]
      /\ upSess[q.sid] \in UpSessions
      /\ upCount \in [{"submit", "fault", "remove"} -> Nat]
      /\ q.sid \in upCut => upSess[q.sid].st \in {"canceled", "none"}
      /\ q.sid \in upStored => upSess[q.sid].st \in {"committed", "none"}
      /\ \A r \in upReq : r.sid = q.sid =>
           /\ r.at = "commit" => upSess[q.sid].st = "completing"
           /\ r.at \in {"write", "wait"} => upSess[q.sid].st # "none"
      /\ \A r \in upReq : r.sid = q.sid /\ r.at = "commit" => r = q
  BY <1>1, RequestKnown
<1>3. upSess[q.sid].st = "completing" /\ q.sid \notin upCut /\ q.sid \notin upStored
  BY <1>1, <1>2
<1>4. /\ upCount' \in [{"submit", "fault", "remove"} -> Nat]
      /\ upCount'["submit"] = upCount["submit"]
  <2>1. UpCounted("fault") \/ upCount' = upCount
    BY DEF CommitUpload
  <2> QED BY <1>0, <1>2, <2>1, Counted
<1>5. ASSUME NEW st \in {"committed", "active"}, NEW at \in {"done", "err"},
             NEW d, d = [upSess[q.sid] EXCEPT !.st = st],
             ServerStep(q, at, [upSess EXCEPT ![q.sid] = d]),
             \/ st = "committed" /\ upStored' = upStored \cup {q.sid}
             \/ st = "active" /\ at = "err" /\ upStored' = upStored
      PROVE  UpInv'
  <2> DEFINE sess == [upSess EXCEPT ![q.sid] = d]
  <2>1. d \in UpSessions /\ d.st = st
    BY <1>2, <1>5, SessionMoves
  <2>2. /\ sess \in [UpSids -> UpSessions] /\ sess[q.sid].st = st
        /\ \A s \in UpSids : s # q.sid => sess[s] = upSess[s]
    BY <1>2, <2>1
  <2>3. ServerStep(q, at, sess)
    BY <1>5
  <2> HIDE DEF sess
  <2>4. \A r \in upReq \ {q} : r.sid = q.sid => r.at # "commit"
    BY <1>2
  <2>5. /\ upStored \subseteq upStored' /\ upStored' \subseteq upStored \cup {q.sid}
        /\ st = "committed" <=> q.sid \in upStored'
        /\ at = "done" => q.sid \in upStored'
    BY <1>3, <1>5
  <2>6. at \in {"sent", "write", "commit", "wait", "ok", "done", "err"}
        /\ at \notin {"commit", "write", "wait"}
    OBVIOUS
  <2> QED BY <1>3, <1>4, <2>2, <2>3, <2>4, <2>5, <2>6, RequestStep
<1>6. CASE upStored' = upStored \cup {q.sid}
           /\ ServerStep(q, "done", [upSess EXCEPT ![q.sid].st = "committed"])
  <2> DEFINE d == [upSess[q.sid] EXCEPT !.st = "committed"]
  <2>1. [upSess EXCEPT ![q.sid].st = "committed"] = [upSess EXCEPT ![q.sid] = d]
    BY <1>2
  <2>2. ServerStep(q, "done", [upSess EXCEPT ![q.sid] = d])
    BY <1>6, <2>1
  <2> QED BY <1>5, <1>6, <2>2
<1>7. CASE upStored' = upStored
           /\ ServerStep(q, "err", [upSess EXCEPT ![q.sid].st = "active"])
  <2> DEFINE d == [upSess[q.sid] EXCEPT !.st = "active"]
  <2>1. [upSess EXCEPT ![q.sid].st = "active"] = [upSess EXCEPT ![q.sid] = d]
    BY <1>2
  <2>2. ServerStep(q, "err", [upSess EXCEPT ![q.sid] = d])
    BY <1>7, <2>1
  <2> QED BY <1>5, <1>7, <2>2
<1> QED BY <1>3, <1>6, <1>7 DEF CommitUpload

LEMMA StepAwaited ==
  ASSUME UpInv, NEW q \in upReq, CompletionAwaited(q)
  PROVE  UpInv'
<1>1. /\ q.at = "wait" /\ upSess[q.sid].st # "completing"
      /\ upStored' = upStored /\ upCount' = upCount
      /\ ServerStep(q, IF upSess[q.sid].st \in {"committed", "none"} THEN "done"
                       ELSE "err", upSess)
  BY DEF CompletionAwaited
<1>2. /\ q.sid \in UpSids /\ upSess \in [UpSids -> UpSessions]
      /\ upCount \in [{"submit", "fault", "remove"} -> Nat]
      /\ q.sid \in upCut => upSess[q.sid].st \in {"canceled", "none"}
      /\ q.sid \in upStored => upSess[q.sid].st \in {"committed", "none"}
      /\ upSess[q.sid].st = "committed" => q.sid \in upStored
      /\ q.sid \notin upCut \/ q.sid \notin upStored
      /\ \A r \in upReq : r.sid = q.sid =>
           /\ r.at = "commit" => upSess[q.sid].st = "completing"
           /\ r.at \in {"write", "wait"} => upSess[q.sid].st # "none"
  BY RequestKnown
<1>3. upSess[q.sid].st # "none"
  BY <1>1, <1>2
<1>4. CASE upSess[q.sid].st = "committed"
  <2>1. ServerStep(q, "done", upSess)
    BY <1>1, <1>4
  <2> QED BY <1>1, <1>2, <1>4, <2>1, RequestStep
<1>5. CASE upSess[q.sid].st # "committed"
  <2>1. ServerStep(q, "err", upSess)
    BY <1>1, <1>3, <1>5
  <2> QED BY <1>1, <1>2, <1>5, <2>1, RequestStep
<1> QED BY <1>4, <1>5

LEMMA StepInit ==
  ASSUME UpInv, NEW a \in upAsk, HandleApiFileUploadInit(a)
  PROVE  UpInv'
<1>0. UpTypeOK
  BY DEF UpInv
<1>1. /\ a.at = "sent" /\ UNCHANGED <<upPage, upRun, upCtx, upMade>>
      /\ upReq' = upReq /\ upAbort' = upAbort /\ upCut' = upCut /\ upStored' = upStored
      /\ UpCounted("fault") \/ upCount' = upCount
  BY DEF HandleApiFileUploadInit
<1>2. /\ upReq \in SUBSET UpRequests /\ upAsk \in SUBSET UpAsks
      /\ upAbort \cup upCut \cup upStored \subseteq UpSids
      /\ upSess \in [UpSids -> UpSessions]
      /\ upCount \in [{"submit", "fault", "remove"} -> Nat]
  BY <1>0, UpTypes
<1>3. a.sid \in UpSids /\ a \in UpAsks
  BY <1>2, AskTyped
<1>4. PICK at \in {"made", "bad"} : upAsk' = (upAsk \ {a}) \cup {[a EXCEPT !.at = at]}
  BY DEF HandleApiFileUploadInit
<1> DEFINE b == [a EXCEPT !.at = at]
           d == [NoUpSess EXCEPT !.st = "active"]
<1>5. b \in UpAsks /\ b.sid = a.sid /\ b.at # "sent"
  BY <1>3 DEF UpAsks
<1>6. /\ upAsk' \in SUBSET UpAsks
      /\ \A c \in upAsk' : (c \in upAsk /\ c # a) \/ c = b
  BY <1>2, <1>4, <1>5
<1>7. upSess' = upSess \/ upSess' = [upSess EXCEPT ![a.sid] = d]
  BY DEF HandleApiFileUploadInit
<1>8. d \in UpSessions /\ d.st = "active"
  BY NoSession, SessionMoves
<1> HIDE DEF d
<1>9. /\ upSess' \in [UpSids -> UpSessions]
      /\ upSess'[a.sid] = upSess[a.sid] \/ upSess'[a.sid].st = "active"
      /\ \A s \in UpSids : s # a.sid => upSess'[s] = upSess[s]
  BY <1>2, <1>3, <1>7, <1>8
<1> HIDE DEF b
<1>10. /\ \A s \in upAbort \cup upCut \cup upStored : Past(upCtx, s)
       /\ \A q \in upReq : Past(upCtx, q.sid)
       /\ \A s \in UpSids : upSess[s].st # "none" => Past(upCtx, s)
       /\ \A c, e \in upAsk : c.sid = e.sid => c = e
       /\ \A c \in upAsk :
            /\ Past(upCtx, c.sid)
            /\ c.sid[2] = upCtx[c.sid[1]].k => upCtx[c.sid[1]].at = "init"
            /\ c.sid \notin upAbort \cup upCut \cup upStored
            /\ \A q \in upReq : q.sid # c.sid
            /\ c.at = "sent" => upSess[c.sid].st = "none"
  BY DEF UpInv, UpNetInv, NetOK
<1>11. NetOK(upCtx, upReq, upAsk', upAbort, upSess', upCut, upStored)
  <2>1. \A s \in UpSids : upSess'[s].st # "none" => Past(upCtx, s)
    BY <1>9, <1>10
  <2>2. \A c \in upAsk' : \E e \in upAsk : c.sid = e.sid /\ (c = e \/ e = a)
    BY <1>5, <1>6
  <2>3. \A c \in upAsk' : c.at = "sent" => upSess'[c.sid].st = "none"
    <3> SUFFICES ASSUME NEW c \in upAsk', c.at = "sent" PROVE upSess'[c.sid].st = "none"
      OBVIOUS
    <3>1. c \in upAsk /\ c # a
      BY <1>5, <1>6
    <3>2. c.sid \in UpSids /\ c.sid # a.sid
      BY <1>2, <1>10, <3>1, AskTyped
    <3> QED BY <1>9, <1>10, <3>1, <3>2
  <2>4. \A c \in upAsk' :
          /\ Past(upCtx, c.sid)
          /\ c.sid[2] = upCtx[c.sid[1]].k => upCtx[c.sid[1]].at = "init"
          /\ c.sid \notin upAbort \cup upCut \cup upStored
          /\ \A q \in upReq : q.sid # c.sid
    BY <1>10, <2>2
  <2>5. \A c, e \in upAsk' : c.sid = e.sid => c = e
    BY <1>5, <1>6, <1>10
  <2> QED BY <1>10, <2>1, <2>3, <2>4, <2>5 DEF NetOK
<1>12. ServesOK(upReq, upSess', upCut, upStored)
  <2>1. a.sid \notin upCut /\ a.sid \notin upStored /\ \A q \in upReq : q.sid # a.sid
    BY <1>10
  <2>2. ServesOK(upReq, upSess, upCut, upStored)
    BY DEF UpInv, UpServeInv
  <2>3. \A q \in upReq : q.sid \in UpSids /\ upSess'[q.sid] = upSess[q.sid]
    BY <1>2, <1>9, <2>1, RequestTyped
  <2>4. \A s \in UpSids : /\ s \in upCut => upSess'[s].st \in {"canceled", "none"}
                          /\ s \in upStored => upSess'[s].st \in {"committed", "none"}
                          /\ upSess'[s].st = "committed" => s \in upStored
                          /\ s \notin upCut \/ s \notin upStored
    BY <1>9, <2>1, <2>2 DEF ServesOK
  <2> QED BY <2>2, <2>3, <2>4 DEF ServesOK
<1>13. /\ upCount' \in [{"submit", "fault", "remove"} -> Nat]
       /\ upCount'["submit"] = upCount["submit"]
  BY <1>0, <1>1, <1>2, Counted
<1> QED BY <1>1, <1>2, <1>6, <1>9, <1>11, <1>12, <1>13, ServeStep

LEMMA StepAbort ==
  ASSUME UpInv, NEW s \in UpSids, HandleApiFileUploadAbort(s)
  PROVE  UpInv'
<1>0. UpTypeOK
  BY DEF UpInv
<1>1. /\ s \in upAbort /\ upAbort' = upAbort \ {s}
      /\ UNCHANGED <<upPage, upRun, upCtx, upMade>>
      /\ upAsk' = upAsk /\ upReq' = upReq /\ upStored' = upStored /\ upCount' = upCount
  BY DEF HandleApiFileUploadAbort
<1>2. /\ upReq \in SUBSET UpRequests /\ upAsk \in SUBSET UpAsks
      /\ upAbort \cup upCut \cup upStored \subseteq UpSids
      /\ upSess \in [UpSids -> UpSessions] /\ upSess[s] \in UpSessions
      /\ upCount \in [{"submit", "fault", "remove"} -> Nat]
  BY <1>0, UpTypes
<1>3. /\ NetOK(upCtx, upReq, upAsk, upAbort, upSess, upCut, upStored)
      /\ ServesOK(upReq, upSess, upCut, upStored)
  BY DEF UpInv, UpNetInv, UpServeInv
<1>4. CASE ~(upSess[s].st \in {"active", "canceled"})
  <2>1. upSess' = upSess /\ upCut' = upCut
    BY <1>4 DEF HandleApiFileUploadAbort
  <2>2. NetOK(upCtx, upReq, upAsk, upAbort', upSess, upCut, upStored)
    BY <1>1, <1>2, <1>3, NetServed
  <2> QED BY <1>1, <1>2, <1>3, <2>1, <2>2, ServeStep
<1>5. CASE upSess[s].st \in {"active", "canceled"}
  <2> DEFINE d == [upSess[s] EXCEPT !.st = "canceled"]
             sess == [upSess EXCEPT ![s] = d]
             free == Released(sess, upReq)
  <2>1. upSess' = free /\ upCut' = upCut \cup {s}
    BY <1>5 DEF HandleApiFileUploadAbort
  <2>2. d \in UpSessions /\ d.st = "canceled"
    BY <1>2, SessionMoves
  <2> HIDE DEF d
  <2>3. /\ sess \in [UpSids -> UpSessions] /\ sess[s].st = "canceled"
        /\ \A t \in UpSids : t # s => sess[t] = upSess[t]
    BY <1>2, <2>2
  <2> HIDE DEF sess
  <2>4. /\ free \in [UpSids -> UpSessions]
        /\ \A t \in UpSids :
             \/ free[t] = sess[t]
             \/ /\ sess[t].st = "canceled" /\ free[t].st = "none"
                /\ \A r \in upReq : r.sid = t => r.at \notin {"write", "commit", "wait"}
    BY <2>3, ReleasedIs
  <2> HIDE DEF free
  <2>5. /\ \A t \in UpSids : /\ t \in upCut => upSess[t].st \in {"canceled", "none"}
                             /\ t \in upStored => upSess[t].st \in {"committed", "none"}
                             /\ upSess[t].st = "committed" => t \in upStored
                             /\ t \notin upCut \/ t \notin upStored
        /\ \A r \in upReq : /\ r.at = "commit" => upSess[r.sid].st = "completing"
                            /\ r.at \in {"write", "wait"} => upSess[r.sid].st # "none"
    BY <1>3 DEF ServesOK
  <2>6. NetOK(upCtx, upReq, upAsk, upAbort', free, upCut \cup {s}, upStored)
    <3>1. \A t \in UpSids : free[t].st # "none" => upSess[t].st # "none"
      BY <1>5, <2>3, <2>4
    <3>2. \A t \in upAbort' \cup (upCut \cup {s}) \cup upStored :
            t \in upAbort \cup upCut \cup upStored
      BY <1>1
    <3> QED BY <1>2, <1>3, <3>1, <3>2, NetServed
  <2>7. \A t \in UpSids : /\ t \in upCut \cup {s} => free[t].st \in {"canceled", "none"}
                          /\ t \in upStored => free[t].st \in {"committed", "none"}
                          /\ free[t].st = "committed" => t \in upStored
                          /\ t \notin upCut \cup {s} \/ t \notin upStored
    <3> SUFFICES ASSUME NEW t \in UpSids
                 PROVE  /\ t \in upCut \cup {s} => free[t].st \in {"canceled", "none"}
                        /\ t \in upStored => free[t].st \in {"committed", "none"}
                        /\ free[t].st = "committed" => t \in upStored
                        /\ t \notin upCut \cup {s} \/ t \notin upStored
      OBVIOUS
    <3>1. CASE t = s
      BY <1>5, <2>3, <2>4, <2>5, <3>1
    <3>2. CASE t # s
      <4>1. sess[t] = upSess[t]
        BY <2>3, <3>2
      <4> QED BY <2>4, <2>5, <3>2, <4>1
    <3> QED BY <3>1, <3>2
  <2>8. \A r \in upReq : /\ r.at = "commit" => free[r.sid].st = "completing"
                         /\ r.at \in {"write", "wait"} => free[r.sid].st # "none"
    <3> SUFFICES ASSUME NEW r \in upReq
                 PROVE  /\ r.at = "commit" => free[r.sid].st = "completing"
                        /\ r.at \in {"write", "wait"} => free[r.sid].st # "none"
      OBVIOUS
    <3>1. r.sid \in UpSids
      BY <1>2, RequestTyped
    <3>2. CASE r.sid = s
      BY <1>5, <2>3, <2>4, <2>5, <3>1, <3>2
    <3>3. CASE r.sid # s
      <4>1. sess[r.sid] = upSess[r.sid]
        BY <2>3, <3>1, <3>3
      <4> QED BY <2>4, <2>5, <3>1, <4>1
    <3> QED BY <3>2, <3>3
  <2>9. ServesOK(upReq, free, upCut \cup {s}, upStored)
    <3>1. /\ \A r \in upReq : /\ r.at = "done" => r.sid \in upStored
                              /\ r.at = "write" => r.part # 0
          /\ \A q, r \in upReq :
               q.sid = r.sid /\ q.at = "commit" /\ r.at = "commit" => q = r
      BY <1>3 DEF ServesOK
    <3> QED BY <2>7, <2>8, <3>1 DEF ServesOK
  <2>10. upCut' \subseteq UpSids /\ upAbort' \subseteq UpSids
    BY <1>1, <1>2, <2>1
  <2> QED BY <1>1, <1>2, <2>1, <2>4, <2>6, <2>9, <2>10, ServeStep
<1> QED BY <1>4, <1>5

LEMMA StepCleanup ==
  ASSUME UpInv, NEW s \in UpSids, CleanupExpiredUploadSessions(s)
  PROVE  UpInv'
<1>0. UpTypeOK
  BY DEF UpInv
<1>1. /\ upSess[s].st \in {"active", "committed"} /\ upSess' = [upSess EXCEPT ![s] = NoUpSess]
      /\ \A q \in upReq : q.sid = s => q.at \notin {"write", "commit", "wait"}
      /\ UNCHANGED <<upPage, upRun, upCtx, upMade>>
      /\ upAsk' = upAsk /\ upReq' = upReq /\ upAbort' = upAbort /\ upCut' = upCut
      /\ upStored' = upStored /\ upCount' = upCount
  BY DEF CleanupExpiredUploadSessions, Held, upNet
<1>2. /\ upReq \in SUBSET UpRequests /\ upAsk \in SUBSET UpAsks
      /\ upAbort \cup upCut \cup upStored \subseteq UpSids
      /\ upSess \in [UpSids -> UpSessions]
      /\ upCount \in [{"submit", "fault", "remove"} -> Nat]
  BY <1>0, UpTypes
<1>3. /\ upSess' \in [UpSids -> UpSessions] /\ upSess'[s].st = "none"
      /\ \A t \in UpSids : t # s => upSess'[t] = upSess[t]
  BY <1>1, <1>2, NoSession
<1>4. NetOK(upCtx, upReq, upAsk, upAbort, upSess', upCut, upStored)
  <2>1. NetOK(upCtx, upReq, upAsk, upAbort, upSess, upCut, upStored)
    BY DEF UpInv, UpNetInv
  <2>2. \A t \in UpSids : upSess'[t].st # "none" => upSess[t].st # "none"
    BY <1>3
  <2> QED BY <1>2, <2>1, <2>2, NetServed
<1>5. ServesOK(upReq, upSess', upCut, upStored)
  <2>1. ServesOK(upReq, upSess, upCut, upStored)
    BY DEF UpInv, UpServeInv
  <2>2. \A q \in upReq : /\ q.sid \in UpSids
                         /\ q.at \in {"write", "commit", "wait"} => q.sid # s
    BY <1>1, <1>2, RequestTyped
  <2>3. \A q \in upReq : q.at \in {"write", "commit", "wait"} =>
                           upSess'[q.sid] = upSess[q.sid]
    BY <1>3, <2>2
  <2>4. \A t \in UpSids : upSess'[t] = upSess[t] \/ upSess'[t].st = "none"
    BY <1>3
  <2> QED BY <2>1, <2>3, <2>4 DEF ServesOK
<1> QED BY <1>1, <1>2, <1>3, <1>4, <1>5, ServeStep

(* ------------------------------ the theorems ---------------------------- *)

LEMMA UpInvStart ==
  ASSUME UpInit
  PROVE  UpInv
<1>1. /\ upRun = NoUpRun /\ upEnding = {} /\ upTaken = {} /\ upAsk = {} /\ upReq = {}
      /\ upAbort = {} /\ upCut = {} /\ upStored = {} /\ upMade = {} /\ upReading = {}
      /\ upAwait = FALSE /\ upEarly = FALSE /\ upLocked = FALSE /\ upScan = "none"
  BY DEF UpInit
<1>2. /\ upList \in [UpItems -> UpStatus] /\ \A i \in UpItems : upList[i] = "new"
  BY DEF UpInit, UpStatus
<1>3. /\ upCtx \in [UpFiles -> UpContexts] /\ \A i \in UpFiles : upCtx[i] = NoCtx
  BY NoCtxTyped DEF UpInit
<1>4. /\ upSess \in [UpSids -> UpSessions] /\ \A s \in UpSids : upSess[s] = NoUpSess
  BY NoSession DEF UpInit
<1>5. /\ upCount \in [{"submit", "fault", "remove"} -> Nat] /\ upCount["submit"] = 0
  BY DEF UpInit
<1>6. UpTypeOK
  BY <1>1, <1>2, <1>3, <1>4, <1>5, NoRunIs DEF UpTypeOK
<1>7. UpCountInv
  BY <1>1, <1>3, <1>5, NoRunIs, NoCtxTyped DEF UpCountInv, CountOK
<1>8. UpNetInv /\ UpServeInv
  BY <1>1, <1>4, NoSession DEF UpNetInv, NetOK, UpServeInv, ServesOK
<1>9. UpPageInv
  <2>1. \A i \in UpFiles : ~CtxLive(upCtx[i]) /\ ~upCtx[i].known
    BY <1>3, NoCtxTyped DEF CtxLive
  <2>2. UpFiles \subseteq UpItems /\ UpDirs \subseteq UpItems
    BY DEF UpItems
  <2>3. Earlier = {}
    BY <1>1 DEF Earlier
  <2>4. PageOK(NoUpRun, upCtx, upList, upMade, upStored, Earlier)
    BY <1>2, <2>1, <2>2, <2>3, NoRunPage
  <2> QED BY <1>1, <2>4 DEF UpPageInv
<1>10. UpFreshInv /\ UpOfferInv
  <2>1. UpDirs \subseteq UpItems
    BY DEF UpItems
  <2> QED BY <1>1, <1>2, <2>1 DEF UpFreshInv, FreshOK, UpOfferInv
<1> QED BY <1>6, <1>7, <1>8, <1>9, <1>10 DEF UpInv

LEMMA UpInvNext ==
  ASSUME UpInv, UpNext
  PROVE  UpInv'
<1>1. CASE UpAnswer
  <2>1. ASSUME NEW a \in upAsk, HandleApiFileUploadInit(a) PROVE UpInv'
    BY <2>1, StepInit
  <2>2. ASSUME NEW a \in upAsk, UpInitAnswered(a) PROVE UpInv'
    BY <2>2, StepInitAnswered
  <2>3. ASSUME NEW q \in upReq, HandleApiFileUploadChunk(q) PROVE UpInv'
    BY <2>3, StepChunk
  <2>4. ASSUME NEW q \in upReq, WriteUploadChunk(q) PROVE UpInv'
    BY <2>4, StepWrite
  <2>5. ASSUME NEW q \in upReq, HandleApiFileUploadComplete(q) PROVE UpInv'
    BY <2>5, StepComplete
  <2>6. ASSUME NEW q \in upReq, CommitUpload(q) PROVE UpInv'
    BY <2>6, StepCommit
  <2>7. ASSUME NEW q \in upReq, CompletionAwaited(q) PROVE UpInv'
    BY <2>7, StepAwaited
  <2>8. ASSUME UpMkdirAnswered PROVE UpInv'
    BY <2>8, StepMkdirAnswered
  <2>9. ASSUME NEW s \in UpSids, HandleApiFileUploadAbort(s) PROVE UpInv'
    BY <2>9, StepAbort
  <2> QED BY <1>1, <2>1, <2>2, <2>3, <2>4, <2>5, <2>6, <2>7, <2>8, <2>9 DEF UpAnswer
<1>2. CASE UpLoop
  <2>1. ASSUME UpScanned PROVE UpInv'
    BY <2>1, StepScanned
  <2>2. ASSUME UpFinish PROVE UpInv'
    BY <2>2, StepFinish
  <2>3. ASSUME NEW i \in UpFiles, UpMerged(i) PROVE UpInv'
    BY <2>3, StepMerged
  <2>4. ASSUME NEW i \in UpFiles, UpAbortedSettled(i) PROVE UpInv'
    BY <2>4, StepAbortedSettled
  <2>5. ASSUME NEW i \in UpFiles, NEW c \in AllChunks, UpChunkSettled(i, c) PROVE UpInv'
    BY <2>5, StepChunkSettled
  <2>6. ASSUME NEW i \in UpFiles, NEW part \in UpParts, UpError(i, part) PROVE UpInv'
    BY <2>6, StepError
  <2>7. ASSUME NEW i \in UpFiles, NEW part \in UpParts, UpRetry(i, part) PROVE UpInv'
    BY <2>7, StepRetry
  <2>8. ASSUME NEW i \in UpFiles, NEW part \in UpParts, UpGiveUp(i, part) PROVE UpInv'
    BY <2>8, StepGiveUp
  <2>9. ASSUME NEW all \in upEnding, UpReloaded(all) PROVE UpInv'
    BY <2>9, StepReloaded
  <2> QED BY <1>2, <2>1, <2>2, <2>3, <2>4, <2>5, <2>6, <2>7, <2>8, <2>9 DEF UpLoop
<1>3. CASE HandleFolderScanComplete
  BY <1>3, StepScanComplete
<1>4. ASSUME NEW i \in UpFiles, UpPick(i) \/ UpDropRead(i) PROVE UpInv'
  BY <1>4, StepUpPick
<1>5. ASSUME NEW i \in UpFiles, UpDrop(i) PROVE UpInv'
  BY <1>5, StepUpDrop
<1>6. ASSUME NEW i \in UpFiles, HandleFolderScanBatch(i) PROVE UpInv'
  BY <1>6, StepScanBatch
<1>7. CASE UpDropFolder
  BY <1>7, StepUpDropFolder
<1>8. CASE UpSubmit
  BY <1>8, StepSubmit
<1>9. CASE ResetFileUploadState
  BY <1>9, StepReset
<1>10. ASSUME NEW i \in UpItems, UpDoneTimer(i) PROVE UpInv'
  BY <1>10, StepDoneTimer
<1>11. ASSUME NEW I \in SUBSET UpItems, RemoveFileUploadItem(I) PROVE UpInv'
  BY <1>11, StepRemove
<1>12. ASSUME NEW q \in upReq, UpLose(q) PROVE UpInv'
  BY <1>12, StepLose
<1>13. ASSUME NEW s \in UpSids, CleanupExpiredUploadSessions(s) PROVE UpInv'
  BY <1>13, StepCleanup
<1> QED BY <1>1, <1>2, <1>3, <1>4, <1>5, <1>6, <1>7, <1>8, <1>9, <1>10, <1>11, <1>12, <1>13
        DEF UpNext, UpProgress

LEMMA UpInvStutter ==
  ASSUME UpInv, UNCHANGED upVars
  PROVE  UpInv'
<1>1. /\ upList' = upList /\ upLocked' = upLocked /\ upAwait' = upAwait /\ upEarly' = upEarly
      /\ upScan' = upScan /\ upReading' = upReading /\ upEnding' = upEnding
      /\ upTaken' = upTaken /\ upRun' = upRun /\ upCtx' = upCtx /\ upAsk' = upAsk
      /\ upReq' = upReq /\ upAbort' = upAbort /\ upSess' = upSess /\ upCut' = upCut
      /\ upStored' = upStored /\ upMade' = upMade /\ upCount' = upCount
  BY DEF upVars, upPage, upOffer, upEnded, upNet, upServer
<1>2. UpTypeOK'
  BY <1>1 DEF UpInv, UpTypeOK
<1> QED BY <1>1, <1>2 DEF UpInv, UpCountInv, UpNetInv, UpServeInv, UpPageInv, UpFreshInv,
                          UpOfferInv, Earlier

(* The upload page, the requests on their way and the sessions of the      *)
(* server fit together in every state (uploadSelectedFiles against         *)
(* web/api/file_upload.go).                                                *)
THEOREM UploadInvariant == UpSpec => []UpInv
<1>1. UpInit => UpInv
  BY UpInvStart
<1>2. UpInv /\ [UpNext]_upVars => UpInv'
  BY UpInvNext, UpInvStutter
<1> QED BY <1>1, <1>2, PTL DEF UpSpec

(* The variables of the upload page and of the upload sessions have the    *)
(* values they are written for.                                            *)
THEOREM UploadTyped == UpSpec => []UpTypeOK
<1>1. UpInv => UpTypeOK
  BY DEF UpInv
<1> QED BY <1>1, UploadInvariant, PTL

LEMMA InvShows ==
  ASSUME UpInv
  PROVE  UpShownIsTrue
<1>1. /\ \A i \in UpDirs : upList[i] = "DONE" => i \in upMade
      /\ \A i \in UpFiles : upList[i] = "DONE" => <<i, upCtx[i].k>> \in upStored
  BY DEF UpInv, UpPageInv, PageOK, ListOK
<1>2. UpDoneIsStored
  BY <1>1 DEF UpDoneIsStored, UpSid, UpItems
<1>3. UpAbortedNotStored
  <2>1. upCut \subseteq UpSids
    BY UpTypes DEF UpInv
  <2>2. \A s \in UpSids : s \notin upCut \/ s \notin upStored
    BY DEF UpInv, UpServeInv, ServesOK
  <2> QED BY <2>1, <2>2 DEF UpAbortedNotStored
<1>4. UpConfirmHonest
  BY DEF UpInv, UpOfferInv, OfferOK, StoredItem, UpConfirmHonest
<1> QED BY <1>2, <1>3, <1>4 DEF UpShownIsTrue

(* What the upload page says is so on the server: DONE is stored by the    *)
(* session it is shown for, an accepted cancellation leaves no file, and   *)
(* CONFIRM forgets no failed file, for every number of files, chunks,      *)
(* tries, submits and faults (fileCreateModal.js, web/api/file_upload.go). *)
THEOREM UploadShowsTruth == UpSpec => []UpShownIsTrue
<1>1. UpInv => UpShownIsTrue
  BY InvShows
<1> QED BY <1>1, UploadInvariant, PTL

-----------------------------------------------------------------------------
(* Why a locked page goes on: whatever the run waits for is there, and it   *)
(* can move.                                                                *)

(* What the run waits for is there: its init request, a chunk.             *)
UpAwaited ==
  /\ upLocked => upRun.at # "idle"
  /\ upRun.at = "init" => \E a \in upAsk : a.sid = UpSid(upRun.item)
  /\ upRun.at = "race" => InFlight(upCtx) # {}

(* Chunks are on the way for files that are uploading or given up.         *)
FlightOK(c) == c.fly # {} => c.at = "up" \/ c.dead
UpFlights == \A i \in UpFiles : FlightOK(upCtx[i])

(* A session is being completed by some request (CompleteDone is closed).  *)
UpCommits == \A s \in UpSids : upSess[s].st = "completing" =>
               \E q \in upReq : q.sid = s /\ q.at = "commit"

UpWaits == UpAwaited /\ UpFlights /\ UpCommits

(* The guards of the server's steps on a request, case by case.            *)
UpServerCanStep(q) == \/ q.at \in {"sent", "write", "commit"}
                      \/ q.at = "wait" /\ upSess[q.sid].st # "completing"

(* A part of a file is waiting for its next attempt or for giving up, has  *)
(* an answer to be taken, or is at the server, where it or the request that *)
(* it waits for can be carried on.                                         *)
UpPartMoves(i, p) ==
  \/ ~Pending(i, p)
  \/ \E q \in upReq :
       /\ q.sid = UpSid(i) /\ q.part = p /\ q.live
       /\ \/ q \in UpAnswers(i, p) \/ UpServerCanStep(q)
          \/ \E r \in upReq : r.sid = q.sid /\ UpServerCanStep(r)

(* A locked page waits for nothing that is not under way: a scan, an empty *)
(* directory, the init request of its file, a chunk on the way, a file that *)
(* is merged; and if none of that is left, it is unlocked.                 *)
UpMovesOn == upLocked =>
  \/ upRun.at \in {"scan", "mkdir"}
  \/ upRun.at = "init" /\ \E a \in upAsk : a.sid = UpSid(upRun.item)
  \/ /\ upRun.at = "race" /\ InFlight(upCtx) # {}
     /\ \A i \in UpFiles : \A c \in upCtx[i].fly :
          upCtx[i].dead \/ (UpLive(i) /\ UpPartMoves(i, c))
  \/ /\ upRun.at = "tail"
     /\ \A i \in UpFiles : UpLive(i) /\ upCtx[i].at = "merge" =>
          upCtx[i].known \/ UpPartMoves(i, 0)

LEMMA FillFlights ==
  ASSUME NEW cx \in [UpFiles -> UpContexts], \A i \in UpFiles : FlightOK(cx[i]),
         NEW y \in {MaybeComplete(f) : f \in FillSlots(cx)}
  PROVE  \A i \in UpFiles : FlightOK(y[i])
<1>1. PICK n \in [UpFiles -> 0 .. UpLimit] : Fills(cx, n) /\ y = MaybeComplete(Sent(cx, n))
  BY DEF FillSlots
<1> SUFFICES ASSUME NEW i \in UpFiles PROVE FlightOK(y[i])
  OBVIOUS
<1> DEFINE f == Sent(cx, n)
<1>2. /\ f[i].at = cx[i].at /\ f[i].dead = cx[i].dead
      /\ f[i].fly # cx[i].fly => cx[i].at = "up"
  BY <1>1, SentSteady
<1>3. FlightOK(f[i])
  BY <1>2 DEF FlightOK
<1> HIDE DEF f
<1>4. f[i].fly # {} => y[i] = f[i]
  BY <1>1 DEF MaybeComplete, f
<1>5. f[i].fly = {} => y[i].fly = {}
  <2>1. f \in [UpFiles -> UpContexts]
    <3>1. DOMAIN f = UpFiles /\ f = [j \in UpFiles |-> f[j]]
      BY DEF Sent, f
    <3>2. \A j \in UpFiles : f[j] \in UpContexts
      BY <1>1, SentSteady DEF f
    <3> QED BY <3>1, <3>2
  <2>2. y = MaybeComplete(f)
    BY <1>1 DEF f
  <2>3. y[i].fly = f[i].fly
    BY <2>1, <2>2, CompleteSteady
  <2> QED BY <2>3
<1> QED BY <1>3, <1>4, <1>5 DEF FlightOK

(* fillSlots leaves the run waiting for something that is under way.       *)
LEMMA FillWaits ==
  ASSUME NEW run \in UpRuns, NEW cx \in [UpFiles -> UpContexts],
         NEW list, NEW reqs, NEW asks,
         \A i \in UpFiles : FlightOK(cx[i]),
         TakeOrFill(run, cx, list, reqs, asks)
  PROVE  UpAwaited' /\ UpFlights' /\ reqs \subseteq upReq'
<1> DEFINE next == {i \in run.left : UpListed(list, i)}
           taken(i) ==
             /\ upRun' = [run EXCEPT !.at = IF i \in UpDirs THEN "mkdir" ELSE "init",
                                     !.item = i, !.left = @ \ {i}]
             /\ upCtx' = IF i \in UpDirs THEN cx
                         ELSE [cx EXCEPT ![i] = [NoCtx EXCEPT !.at = "init", !.k = run.k]]
             /\ upAsk' = IF i \in UpDirs THEN asks
                         ELSE asks \cup {[sid |-> <<i, run.k>>, at |-> "sent"]}
           filled == /\ upCtx' \in {MaybeComplete(f) : f \in FillSlots(cx)}
                     /\ upReq' = reqs \cup NewRequests(cx, upCtx')
                     /\ upRun' = [run EXCEPT !.at = IF InFlight(upCtx') = {} THEN "tail"
                                                    ELSE "race", !.item = ""]
<1>1. \/ upReq' = reqs /\ \E i \in next : taken(i)
      \/ filled
  BY DEF TakeOrFill
<1>2. run.k \in 0 .. UpSubmits /\ run.left \in SUBSET UpItems
  BY RunTyped
<1>3. ASSUME upReq' = reqs, NEW i \in next, taken(i)
      PROVE  UpAwaited' /\ UpFlights' /\ reqs \subseteq upReq'
  <2>1. CASE i \in UpDirs
    <3>1. upRun' = [run EXCEPT !.at = "mkdir", !.item = i, !.left = run.left \ {i}]
      BY <1>3, <2>1
    <3>2. upRun'.at = "mkdir"
      BY <3>1 DEF UpRuns
    <3>3. upCtx' = cx
      BY <1>3, <2>1
    <3> QED BY <1>3, <3>2, <3>3 DEF UpAwaited, UpFlights
  <2>2. CASE i \notin UpDirs
    <3> DEFINE d == [NoCtx EXCEPT !.at = "init", !.k = run.k]
               a == [sid |-> <<i, run.k>>, at |-> "sent"]
    <3>1. upRun' = [run EXCEPT !.at = "init", !.item = i, !.left = run.left \ {i}]
      BY <1>3, <2>2
    <3>2. upRun'.at = "init" /\ upRun'.item = i
      BY <3>1 DEF UpRuns
    <3>3. d.k = run.k /\ d.fly = {}
      BY <1>2, CtxNew
    <3>4. upCtx' = [cx EXCEPT ![i] = d] /\ upAsk' = asks \cup {a}
      BY <1>3, <2>2
    <3>5. i \in UpFiles
      BY <1>2, <2>2 DEF UpItems
    <3>6. a.sid = <<i, run.k>>
      OBVIOUS
    <3> HIDE DEF d, a
    <3>7. upCtx'[i] = d /\ \A j \in UpFiles \ {i} : upCtx'[j] = cx[j]
      BY <3>4, <3>5
    <3>8. a \in upAsk' /\ a.sid = <<i, upCtx'[i].k>>
      BY <3>3, <3>4, <3>6, <3>7
    <3>9. UpAwaited'
      BY <3>2, <3>8 DEF UpAwaited, UpSid
    <3>10. UpFlights'
      BY <3>3, <3>7 DEF UpFlights, FlightOK
    <3> QED BY <1>3, <3>9, <3>10
  <2> QED BY <2>1, <2>2
<1>4. CASE filled
  <2>1. upRun'.at = IF InFlight(upCtx') = {} THEN "tail" ELSE "race"
    <3> DEFINE at == IF InFlight(upCtx') = {} THEN "tail" ELSE "race"
    <3>1. upRun' = [run EXCEPT !.at = at, !.item = ""]
      BY <1>4
    <3> HIDE DEF at
    <3>2. upRun'.at = at
      BY <3>1 DEF UpRuns
    <3> QED BY <3>2 DEF at
  <2>2. \A i \in UpFiles : FlightOK(upCtx'[i])
    BY <1>4, FillFlights
  <2>3. UpFlights'
    BY <2>2 DEF UpFlights
  <2>4. UpAwaited'
    BY <2>1 DEF UpAwaited
  <2> QED BY <1>4, <2>3, <2>4
<1> QED BY <1>1, <1>3, <1>4

LEMMA RunOnWaits ==
  ASSUME NEW run \in UpRuns, NEW cx \in [UpFiles -> UpContexts],
         NEW list, NEW reqs, NEW asks,
         \A i \in UpFiles : FlightOK(cx[i]),
         RunOn(run, cx, list, reqs, asks)
  PROVE  UpAwaited' /\ UpFlights' /\ reqs \subseteq upReq'
<1> DEFINE cx2 == MaybeComplete(cx)
           list2 == Merging(cx, cx2, list)
           reqs2 == reqs \cup NewRequests(cx, cx2)
<1>1. TakeOrFill(run, cx2, list2, reqs2, asks)
  BY DEF RunOn
<1>2. \A i \in UpFiles :
        /\ cx2[i] \in UpContexts /\ cx2[i].dead = cx[i].dead /\ cx2[i].fly = cx[i].fly
        /\ cx2[i].at = cx[i].at \/ (cx[i].at = "up" /\ cx2[i].at = "merge")
        /\ cx[i].fly # {} => cx2[i] = cx[i]
  <2>1. \A i \in UpFiles : cx[i].fly # {} => cx2[i] = cx[i]
    BY DEF MaybeComplete
  <2> QED BY <2>1, CompleteSteady
<1>3. cx2 \in [UpFiles -> UpContexts]
  <2>1. DOMAIN cx2 = UpFiles /\ cx2 = [i \in UpFiles |-> cx2[i]]
    BY DEF MaybeComplete
  <2> QED BY <1>2, <2>1
<1>4. reqs \subseteq reqs2
  OBVIOUS
<1> HIDE DEF cx2, list2, reqs2
<1>5. \A i \in UpFiles : FlightOK(cx2[i])
  BY <1>2 DEF FlightOK
<1>6. UpAwaited' /\ UpFlights' /\ reqs2 \subseteq upReq'
  BY <1>1, <1>3, <1>5, FillWaits
<1> QED BY <1>4, <1>6

(* The contexts keep what is on the way, and a file that is given up stays *)
(* so.                                                                     *)
CtxKept == \A i \in UpFiles :
  /\ upCtx'[i].k = upCtx[i].k /\ upCtx'[i].fly = upCtx[i].fly
  /\ upCtx[i].dead => upCtx'[i].dead
  /\ upCtx[i].at = "up" => upCtx'[i].at = "up" \/ upCtx'[i].dead

CommitsKept == \A q \in upReq : q.at = "commit" =>
                 \E r \in upReq' : r.sid = q.sid /\ r.at = "commit"

LEMMA FlightsStay ==
  ASSUME UpFlights, CtxKept
  PROVE  UpFlights'
BY DEF UpFlights, CtxKept, FlightOK

LEMMA CommitsStay ==
  ASSUME UpCommits, CommitsKept,
         \A s \in UpSids : upSess'[s].st = "completing" => upSess[s].st = "completing"
  PROVE  UpCommits'
BY DEF UpCommits, CommitsKept

(* A step that leaves the run where it is, and its init request too.       *)
LEMMA QuietWaits ==
  ASSUME UpInv, UpWaits, CtxKept,
         upRun'.at = upRun.at, upRun'.item = upRun.item, upLocked' => upLocked,
         \A a \in upAsk : upRun.at = "init" /\ a.sid = UpSid(upRun.item) =>
            \E b \in upAsk' : b.sid = a.sid
  PROVE  UpAwaited' /\ UpFlights'
<1>1. UpFlights'
  BY FlightsStay DEF UpWaits
<1>2. InFlight(upCtx') = InFlight(upCtx)
  BY DEF CtxKept, InFlight
<1>3. ASSUME upRun'.at = "init" PROVE \E b \in upAsk' : b.sid = UpSid(upRun.item)'
  <2>1. upRun.at = "init" /\ upRun.item \in UpFiles
    BY <1>3 DEF UpInv, UpPageInv, PageOK
  <2>2. PICK a \in upAsk : a.sid = UpSid(upRun.item)
    BY <2>1 DEF UpWaits, UpAwaited
  <2>3. UpSid(upRun.item)' = UpSid(upRun.item)
    BY <2>1 DEF UpSid, CtxKept
  <2> QED BY <2>1, <2>2, <2>3
<1>4. upLocked' => upRun'.at # "idle"
  BY DEF UpWaits, UpAwaited
<1>5. upRun'.at = "race" => InFlight(upCtx') # {}
  BY <1>2 DEF UpWaits, UpAwaited
<1> QED BY <1>1, <1>3, <1>4, <1>5 DEF UpAwaited

(* A step after which no run is under way, or only a scan is awaited.      *)
LEMMA RestWaits ==
  ASSUME UpWaits, CtxKept, (upRun'.at = "idle" /\ ~upLocked') \/ upRun'.at = "scan"
  PROVE  UpAwaited' /\ UpFlights'
BY FlightsStay DEF UpWaits, UpAwaited

(* A step whose last call is fillSlots.                                    *)
LEMMA LoopWaits ==
  ASSUME UpWaits, NEW run \in UpRuns, NEW cx \in [UpFiles -> UpContexts],
         NEW list, NEW reqs, NEW asks, RunOn(run, cx, list, reqs, asks),
         \A i \in UpFiles : FlightOK(cx[i]),
         \A q \in upReq : q.at = "commit" => \E r \in reqs : r.sid = q.sid /\ r.at = "commit",
         upSess' = upSess
  PROVE  UpWaits'
<1>1. UpAwaited' /\ UpFlights' /\ reqs \subseteq upReq'
  BY RunOnWaits
<1>2. CommitsKept
  BY <1>1 DEF CommitsKept
<1>3. UpCommits'
  BY <1>2, CommitsStay DEF UpWaits
<1> QED BY <1>1, <1>3 DEF UpWaits

(* A step that touches neither the run, the contexts nor the requests.     *)
LEMMA ListWaits ==
  ASSUME UpInv, UpWaits, upRun' = upRun, upLocked' => upLocked,
         upCtx' = upCtx, upAsk' = upAsk, upReq' = upReq, upSess' = upSess
  PROVE  UpWaits'
<1>1. CtxKept /\ CommitsKept
  BY DEF CtxKept, CommitsKept
<1>2. UpAwaited' /\ UpFlights'
  BY <1>1, QuietWaits
<1>3. UpCommits'
  BY <1>1, CommitsStay DEF UpWaits
<1> QED BY <1>2, <1>3 DEF UpWaits

(* Giving up contexts.                                                     *)
LEMMA CutWaits ==
  ASSUME UpInv, UpWaits, NEW I, upCtx' = CutCtx(upCtx, I), upReq' = CutReq(upReq, I),
         upSess' = upSess
  PROVE  /\ CtxKept /\ UpCommits'
         /\ upRun' = upRun /\ upAsk' = upAsk /\ (upLocked' => upLocked) => UpWaits'
<1>1. CtxKept
  <2> SUFFICES ASSUME NEW i \in UpFiles
               PROVE  /\ upCtx'[i].k = upCtx[i].k /\ upCtx'[i].fly = upCtx[i].fly
                      /\ upCtx'[i].at = upCtx[i].at /\ (upCtx[i].dead => upCtx'[i].dead)
    BY DEF CtxKept
  <2>1. upCtx[i] \in UpContexts
    BY UpTypes DEF UpInv
  <2>2. upCtx'[i] = upCtx[i] \/ upCtx'[i] = [upCtx[i] EXCEPT !.dead = TRUE]
    BY DEF CutCtx
  <2> QED BY <2>1, <2>2 DEF UpContexts
<1>2. CommitsKept
  <2> SUFFICES ASSUME NEW q \in upReq, q.at = "commit"
               PROVE  \E r \in upReq' : r.sid = q.sid /\ r.at = "commit"
    BY DEF CommitsKept
  <2> DEFINE r == [q EXCEPT !.live = q.live /\ q.sid \notin CutSids(I)]
  <2>1. r \in upReq'
    BY DEF CutReq
  <2>2. q \in UpRequests
    BY UpTypes DEF UpInv
  <2>3. r.sid = q.sid /\ r.at = q.at
    BY <2>2 DEF UpRequests
  <2> QED BY <2>1, <2>3
<1>3. UpCommits'
  BY <1>2, CommitsStay DEF UpWaits
<1>4. ASSUME upRun' = upRun, upAsk' = upAsk, upLocked' => upLocked PROVE UpWaits'
  BY <1>1, <1>3, <1>4, QuietWaits DEF UpWaits
<1> QED BY <1>1, <1>3, <1>4

LEMMA CutCommits ==
  ASSUME UpInv, NEW I, NEW q \in upReq, q.at = "commit"
  PROVE  \E r \in CutReq(upReq, I) : r.sid = q.sid /\ r.at = "commit"
<1> DEFINE r == [q EXCEPT !.live = q.live /\ q.sid \notin CutSids(I)]
<1>1. r \in CutReq(upReq, I)
  BY DEF CutReq
<1>2. q \in UpRequests
  BY UpTypes DEF UpInv
<1>3. r.sid = q.sid /\ r.at = q.at
  BY <1>2 DEF UpRequests
<1> QED BY <1>1, <1>3

(* One context changes: d is what becomes of it.                           *)
LEMMA OneCtx ==
  ASSUME UpInv, NEW i \in UpFiles, NEW d, upCtx' = [upCtx EXCEPT ![i] = d],
         d.k = upCtx[i].k, d.fly = upCtx[i].fly, upCtx[i].dead => d.dead,
         upCtx[i].at = "up" => d.at = "up" \/ d.dead
  PROVE  CtxKept
<1>1. upCtx \in [UpFiles -> UpContexts]
  BY UpTypes DEF UpInv
<1>2. upCtx'[i] = d /\ \A j \in UpFiles \ {i} : upCtx'[j] = upCtx[j]
  BY <1>1
<1> QED BY <1>2 DEF CtxKept

LEMMA ChoosingWaits ==
  ASSUME UpInv, UpWaits, NEW i \in UpFiles,
         UpPick(i) \/ UpDropRead(i) \/ UpDrop(i) \/ HandleFolderScanBatch(i)
  PROVE  UpWaits'
<1>1. CASE UpPick(i) \/ UpDropRead(i)
  <2>1. PICK I : /\ upCtx' = CutCtx(upCtx, I) /\ upReq' = CutReq(upReq, I)
                 /\ upLocked' = upLocked /\ upRun' = upRun /\ upAsk' = upAsk
                 /\ upSess' = upSess
    BY <1>1 DEF UpPick, UpDropRead, AppendItem, upServer
  <2> QED BY <2>1, CutWaits
<1>2. CASE UpDrop(i) \/ HandleFolderScanBatch(i)
  BY <1>2, ListWaits DEF UpDrop, HandleFolderScanBatch, upNet, upServer
<1> QED BY <1>1, <1>2

LEMMA ListStepWaits ==
  ASSUME UpInv, UpWaits,
         \/ UpDropFolder \/ HandleFolderScanComplete
         \/ \E i \in UpItems : UpDoneTimer(i)
         \/ \E all \in upEnding : UpReloaded(all)
  PROVE  UpWaits'
BY ListWaits DEF UpDropFolder, HandleFolderScanComplete, UpDoneTimer, UpReloaded, upNet,
   upServer

LEMMA CancelWaits ==
  ASSUME UpInv, UpWaits,
         ResetFileUploadState \/ \E I \in SUBSET UpItems : RemoveFileUploadItem(I)
  PROVE  UpWaits'
<1>1. ASSUME NEW I \in SUBSET UpItems, RemoveFileUploadItem(I) PROVE UpWaits'
  BY <1>1, CutWaits DEF RemoveFileUploadItem, CancelItems, upServer
<1>2. CASE ResetFileUploadState
  <2>1. PICK I : /\ upCtx' = CutCtx(upCtx, I) /\ upReq' = CutReq(upReq, I)
                 /\ upLocked' = FALSE /\ upRun' = NoUpRun /\ upSess' = upSess
    BY <1>2 DEF ResetFileUploadState, CancelItems, upServer
  <2>2. CtxKept /\ UpCommits'
    BY <2>1, CutWaits
  <2>3. upRun'.at = "idle" /\ ~upLocked'
    BY <2>1, NoRunIs
  <2> QED BY <2>2, <2>3, RestWaits DEF UpWaits
<1> QED BY <1>1, <1>2

LEMMA NetWaits ==
  ASSUME UpInv, UpWaits, upRun' = upRun, upLocked' = upLocked, upAsk' = upAsk,
         upSess' = upSess, CtxKept, CommitsKept
  PROVE  UpWaits'
BY QuietWaits, CommitsStay DEF UpWaits

LEMMA LoseWaits ==
  ASSUME UpInv, UpWaits, NEW q \in upReq, UpLose(q)
  PROVE  UpWaits'
<1>1. /\ upRun' = upRun /\ upLocked' = upLocked /\ upAsk' = upAsk /\ upSess' = upSess
      /\ upCtx' = upCtx
      /\ upReq' = (upReq \ {q}) \cup (IF q.at \in {"write", "commit", "wait"}
                                        THEN {[q EXCEPT !.live = FALSE]} ELSE {})
  BY DEF UpLose, upPage, upServer
<1>2. CtxKept
  BY <1>1 DEF CtxKept
<1>3. CommitsKept
  <2> SUFFICES ASSUME NEW p \in upReq, p.at = "commit"
               PROVE  \E r \in upReq' : r.sid = p.sid /\ r.at = "commit"
    BY DEF CommitsKept
  <2>1. CASE p # q
    BY <1>1, <2>1
  <2>2. CASE p = q
    <3> DEFINE r == [q EXCEPT !.live = FALSE]
    <3>1. r \in upReq'
      BY <1>1, <2>2
    <3>2. q \in UpRequests
      BY UpTypes DEF UpInv
    <3>3. r.sid = q.sid /\ r.at = q.at
      BY <3>2 DEF UpRequests
    <3> QED BY <2>2, <3>1, <3>3
  <2> QED BY <2>1, <2>2
<1> QED BY <1>1, <1>2, <1>3, NetWaits

LEMMA RetryWaits ==
  ASSUME UpInv, UpWaits, NEW i \in UpFiles, NEW part \in UpParts,
         UpError(i, part) \/ UpRetry(i, part)
  PROVE  UpWaits'
<1>1. CASE UpError(i, part)
  <2>1. PICK q \in upReq : q.at # "commit" /\ upReq' = upReq \ {q}
    BY <1>1 DEF UpError, UpAnswers
  <2>2. /\ upRun' = upRun /\ upLocked' = upLocked /\ upAsk' = upAsk /\ upSess' = upSess
        /\ upCtx' = upCtx
    BY <1>1 DEF UpError, upPage, upServer
  <2>3. CtxKept /\ CommitsKept
    BY <2>1, <2>2 DEF CtxKept, CommitsKept
  <2> QED BY <2>2, <2>3, NetWaits
<1>2. CASE UpRetry(i, part)
  <2> DEFINE c == upCtx[i]
             d == [c EXCEPT !.tries = [c.tries EXCEPT ![part] = @ + 1]]
  <2>1. c \in UpContexts
    BY UpTypes DEF UpInv
  <2>2. upCtx' = [upCtx EXCEPT ![i] = d]
    BY <1>2 DEF UpRetry
  <2>3. d.k = c.k /\ d.fly = c.fly /\ d.dead = c.dead /\ d.at = c.at
    <3> HIDE DEF c
    <3> QED BY <2>1 DEF UpContexts
  <2> HIDE DEF d
  <2>4. CtxKept
    BY <2>2, <2>3, OneCtx
  <2>5. /\ upRun' = upRun /\ upLocked' = upLocked /\ upAsk' = upAsk /\ upSess' = upSess
        /\ upReq \subseteq upReq'
    BY <1>2 DEF UpRetry, upPage, upServer
  <2>6. CommitsKept
    BY <2>5 DEF CommitsKept
  <2> QED BY <2>4, <2>5, <2>6, NetWaits
<1> QED BY <1>1, <1>2

(* A file that is merged ends, stored or given up, and the run waits on.   *)
LEMMA EndWaits ==
  ASSUME UpInv, UpWaits, NEW i \in UpFiles, upCtx[i].at # "up" \/ upCtx'[i].dead,
         NEW d, upCtx' = [upCtx EXCEPT ![i] = d],
         d.k = upCtx[i].k, d.fly = upCtx[i].fly, upCtx[i].dead => d.dead,
         upRun'.at = upRun.at, upRun'.item = upRun.item, upLocked' = upLocked,
         upAsk' = upAsk, upSess' = upSess, CommitsKept
  PROVE  UpWaits'
<1>1. upCtx'[i] = d
  BY UpTypes DEF UpInv
<1>2. CtxKept
  BY <1>1, OneCtx
<1>3. UpAwaited' /\ UpFlights'
  BY <1>2, QuietWaits
<1> QED BY <1>3, CommitsStay DEF UpWaits

LEMMA MergedWaits ==
  ASSUME UpInv, UpWaits, NEW i \in UpFiles, UpMerged(i)
  PROVE  UpWaits'
<1> DEFINE c == upCtx[i]
           d == [c EXCEPT !.at = "over"]
<1>1. c \in UpContexts /\ upRun \in UpRuns
  BY UpTypes DEF UpInv
<1>2. c.at = "merge" /\ upCtx' = [upCtx EXCEPT ![i] = d]
  BY DEF UpMerged
<1>3. d.k = c.k /\ d.fly = c.fly /\ d.dead = c.dead
  <2> HIDE DEF c
  <2> QED BY <1>1 DEF UpContexts
<1>4. upRun'.at = upRun.at /\ upRun'.item = upRun.item
  <2>1. upRun' = [upRun EXCEPT !.won = TRUE, !.fin = TRUE]
    BY DEF UpMerged
  <2> QED BY <1>1, <2>1 DEF UpRuns
<1>5. upLocked' = upLocked /\ upAsk' = upAsk /\ upSess' = upSess
  BY DEF UpMerged, UpPageStays, upServer
<1>6. upReq' = upReq \/ \E q \in upReq : q.at = "done" /\ upReq' = upReq \ {q}
  BY DEF UpMerged, UpAnswers
<1>7. CommitsKept
  BY <1>6 DEF CommitsKept
<1> HIDE DEF d
<1> QED BY <1>2, <1>3, <1>4, <1>5, <1>7, EndWaits

LEMMA FinishWaits ==
  ASSUME UpInv, UpWaits, UpFinish
  PROVE  UpWaits'
<1>1. /\ upRun' = NoUpRun /\ upLocked' = FALSE /\ upCtx' = upCtx
      /\ upSess' = upSess /\ upReq' = upReq
  BY DEF UpFinish, upNet, upServer
<1>2. upRun'.at = "idle" /\ ~upLocked'
  BY <1>1, NoRunIs
<1>3. CtxKept /\ CommitsKept
  BY <1>1 DEF CtxKept, CommitsKept
<1> QED BY <1>1, <1>2, <1>3, RestWaits, CommitsStay DEF UpWaits

LEMMA GiveUpWaits ==
  ASSUME UpInv, UpWaits, NEW i \in UpFiles, NEW part \in UpParts, UpGiveUp(i, part)
  PROVE  UpWaits'
<1> DEFINE c == upCtx[i]
           reqs == CutReq(upReq, {i})
<1>1. c \in UpContexts /\ upRun \in UpRuns /\ upCtx \in [UpFiles -> UpContexts]
  BY UpTypes DEF UpInv
<1>2. /\ upLocked' = upLocked /\ upSess' = upSess
      /\ \/ /\ upCtx' = [upCtx EXCEPT ![i].dead = TRUE, ![i].at = "over"]
            /\ upReq' = reqs /\ upRun' = [upRun EXCEPT !.fin = TRUE]
            /\ upAsk' = upAsk
         \/ RunOn(upRun, [upCtx EXCEPT ![i].dead = TRUE, ![i].at = "over", ![i].fly = {}],
                  Marked(i, "FAILED"), reqs, upAsk)
  BY DEF UpGiveUp, UpPageStays, upServer
<1>3. \A q \in upReq : q.at = "commit" => \E r \in reqs : r.sid = q.sid /\ r.at = "commit"
  BY CutCommits
<1> HIDE DEF reqs
<1>4. CASE /\ upCtx' = [upCtx EXCEPT ![i].dead = TRUE, ![i].at = "over"]
           /\ upReq' = reqs /\ upRun' = [upRun EXCEPT !.fin = TRUE]
           /\ upAsk' = upAsk
  <2> DEFINE d == [c EXCEPT !.dead = TRUE, !.at = "over"]
  <2>1. upCtx' = [upCtx EXCEPT ![i] = d]
    BY <1>1, <1>4
  <2>2. d.k = c.k /\ d.fly = c.fly /\ d.dead
    <3> HIDE DEF c
    <3> QED BY <1>1 DEF UpContexts
  <2>3. upRun'.at = upRun.at /\ upRun'.item = upRun.item
    BY <1>1, <1>4 DEF UpRuns
  <2> HIDE DEF d
  <2>4. upCtx'[i] = d
    BY <1>1, <2>1
  <2>5. CommitsKept
    BY <1>3, <1>4 DEF CommitsKept
  <2> QED BY <1>2, <1>4, <2>1, <2>2, <2>3, <2>4, <2>5, EndWaits
<1>5. CASE RunOn(upRun, [upCtx EXCEPT ![i].dead = TRUE, ![i].at = "over", ![i].fly = {}],
                 Marked(i, "FAILED"), reqs, upAsk)
  <2> DEFINE d == [c EXCEPT !.dead = TRUE, !.at = "over", !.fly = {}]
             cx == [upCtx EXCEPT ![i] = d]
  <2>1. RunOn(upRun, cx, Marked(i, "FAILED"), reqs, upAsk)
    BY <1>1, <1>5
  <2>2. d \in UpContexts /\ d.fly = {}
    <3> HIDE DEF c
    <3> QED BY <1>1 DEF UpContexts
  <2> HIDE DEF d
  <2>3. cx \in [UpFiles -> UpContexts] /\ \A j \in UpFiles : FlightOK(cx[j])
    BY <1>1, <2>2 DEF UpWaits, UpFlights, FlightOK
  <2> HIDE DEF cx
  <2> QED BY <1>1, <1>2, <1>3, <2>1, <2>3, LoopWaits
<1> QED BY <1>2, <1>4, <1>5

LEMMA SettledWaits ==
  ASSUME UpInv, UpWaits, NEW i \in UpFiles,
         UpAbortedSettled(i) \/ \E x \in AllChunks : UpChunkSettled(i, x)
  PROVE  UpWaits'
<1> DEFINE c == upCtx[i]
<1>1. c \in UpContexts /\ upRun \in UpRuns /\ upCtx \in [UpFiles -> UpContexts]
  BY UpTypes DEF UpInv
<1>2. FlightOK(c)
  BY DEF UpWaits, UpFlights
<1>3. CASE UpAbortedSettled(i)
  <2> DEFINE d == [c EXCEPT !.fly = {}, !.at = "over"]
             cx == [upCtx EXCEPT ![i] = d]
  <2>1. RunOn(upRun, cx, upList, upReq, upAsk) /\ upSess' = upSess
    BY <1>1, <1>3 DEF UpAbortedSettled, upServer
  <2>2. d \in UpContexts /\ d.fly = {}
    <3> HIDE DEF c
    <3> QED BY <1>1 DEF UpContexts
  <2> HIDE DEF d
  <2>3. cx \in [UpFiles -> UpContexts] /\ \A j \in UpFiles : FlightOK(cx[j])
    BY <1>1, <2>2 DEF UpWaits, UpFlights, FlightOK
  <2> HIDE DEF cx
  <2> QED BY <1>1, <2>1, <2>3, LoopWaits
<1>4. ASSUME NEW x \in AllChunks, UpChunkSettled(i, x) PROVE UpWaits'
  <2>1. /\ ~c.dead /\ x \in c.fly /\ upSess' = upSess
    BY <1>4 DEF UpChunkSettled, UpLive, upServer
  <2>2. PICK q \in UpAnswers(i, x) :
          /\ q.at \in {"ok", "done"}
          /\ RunOn(upRun, [upCtx EXCEPT ![i].fly = @ \ {x}, ![i].known = @ \/ q.at = "done"],
                   upList, upReq \ {q}, upAsk)
    BY <1>4 DEF UpChunkSettled
  <2> DEFINE fly == c.fly \ {x}
             known == c.known \/ q.at = "done"
             d == [c EXCEPT !.fly = fly, !.known = known]
             cx == [upCtx EXCEPT ![i] = d]
  <2>3. RunOn(upRun, cx, upList, upReq \ {q}, upAsk)
    BY <1>1, <2>2
  <2>4. fly \in SUBSET (1 .. UpChunks) /\ known \in BOOLEAN
    BY <1>1, CtxTyped
  <2> HIDE DEF fly, known
  <2>5. d \in UpContexts /\ d.at = c.at
    <3> HIDE DEF c
    <3> QED BY <1>1, <2>4 DEF UpContexts
  <2>6. FlightOK(d)
    BY <1>2, <2>1, <2>5 DEF FlightOK
  <2> HIDE DEF d
  <2>7. cx \in [UpFiles -> UpContexts] /\ \A j \in UpFiles : FlightOK(cx[j])
    BY <1>1, <2>5, <2>6 DEF UpWaits, UpFlights
  <2>8. \A p \in upReq : p.at = "commit" => p \in upReq \ {q}
    BY <2>2
  <2> HIDE DEF cx
  <2> QED BY <1>1, <2>1, <2>3, <2>7, <2>8, LoopWaits
<1> QED BY <1>3, <1>4

LEMMA InitAnsweredWaits ==
  ASSUME UpInv, UpWaits, NEW a \in upAsk, UpInitAnswered(a)
  PROVE  UpWaits'
<1> DEFINE i == a.sid[1]
           mine == upRun.at = "init" /\ UpSid(i) = a.sid /\ upRun.item = i
           asks == upAsk \ {a}
           c == upCtx[i]
           ended(at, dead) == [upCtx EXCEPT ![i].at = at, ![i].dead = dead]
<1>1. upRun \in UpRuns /\ upCtx \in [UpFiles -> UpContexts]
  BY UpTypes DEF UpInv
<1>2. a.sid \in UpSids /\ i \in UpFiles
  BY UpTypes, AskTyped, SidParts DEF UpInv
<1>3. upLocked' = upLocked /\ upSess' = upSess
  BY DEF UpInitAnswered, UpPageStays, upServer
<1>4. CASE ~mine
  <2>1. upAsk' = asks /\ upRun' = upRun /\ upCtx' = upCtx /\ upReq' = upReq
    BY <1>2, <1>4 DEF UpInitAnswered
  <2>2. CtxKept /\ CommitsKept
    BY <2>1 DEF CtxKept, CommitsKept
  <2>3. ASSUME NEW b \in upAsk, upRun.at = "init", b.sid = UpSid(upRun.item)
        PROVE  b \in upAsk'
    <3>1. b.sid[1] = upRun.item
      BY <2>3 DEF UpSid
    <3>2. b # a
      BY <1>4, <2>3, <3>1
    <3> QED BY <2>1, <3>2
  <2>4. UpAwaited' /\ UpFlights'
    <3>1. \A b \in upAsk : upRun.at = "init" /\ b.sid = UpSid(upRun.item) =>
             \E e \in upAsk' : e.sid = b.sid
      BY <2>3
    <3> QED BY <1>3, <2>1, <2>2, <3>1, QuietWaits
  <2> QED BY <1>3, <2>2, <2>4, CommitsStay DEF UpWaits
<1>5. CASE mine
  <2>1. ASSUME NEW at \in {"up", "over"}, NEW dead \in BOOLEAN, NEW run \in UpRuns, NEW list,
               at = "up" \/ dead, RunOn(run, ended(at, dead), list, upReq, asks)
        PROVE  UpWaits'
    <3> DEFINE d == [c EXCEPT !.at = at, !.dead = dead]
               cx == [upCtx EXCEPT ![i] = d]
    <3>1. ended(at, dead) = cx /\ c \in UpContexts
      BY <1>1, <1>2
    <3>2. d \in UpContexts /\ d.at = at /\ d.dead = dead
      <4>1. at \in CtxStages
        BY DEF CtxStages
      <4> HIDE DEF c
      <4> QED BY <3>1, <4>1 DEF UpContexts, CtxStages
    <3>3. FlightOK(d)
      BY <2>1, <3>2 DEF FlightOK
    <3> HIDE DEF d
    <3>4. cx \in [UpFiles -> UpContexts] /\ \A j \in UpFiles : FlightOK(cx[j])
      BY <1>1, <1>2, <3>2, <3>3 DEF UpWaits, UpFlights
    <3>5. RunOn(run, cx, list, upReq, asks)
      BY <2>1, <3>1
    <3> HIDE DEF cx, asks
    <3> QED BY <1>3, <3>4, <3>5, LoopWaits
  <2>2. [upRun EXCEPT !.fin = TRUE] \in UpRuns
    BY <1>1 DEF UpRuns
  <2>3. CASE a.at = "made" /\ UpLive(i)
    <3>1. RunOn(upRun, ended("up", FALSE), Marked(i, "UPLOADING"), upReq, asks)
      BY <1>5, <2>3 DEF UpInitAnswered
    <3> HIDE DEF ended, asks
    <3> QED BY <1>1, <2>1, <3>1
  <2>4. CASE a.at = "made" /\ ~UpLive(i)
    <3>1. RunOn(upRun, ended("over", TRUE), upList, upReq, asks)
      BY <1>5, <2>4 DEF UpInitAnswered
    <3> HIDE DEF ended, asks
    <3> QED BY <1>1, <2>1, <3>1
  <2>5. CASE a.at = "bad"
    <3>1. RunOn([upRun EXCEPT !.fin = TRUE], ended("over", TRUE), Marked(i, "FAILED"),
                upReq, asks)
      BY <1>5, <2>5 DEF UpInitAnswered
    <3> HIDE DEF ended, asks
    <3> QED BY <2>1, <2>2, <3>1
  <2>6. a.at \in {"made", "bad"}
    BY UpTypes, AskTyped DEF UpInv, UpInitAnswered
  <2> QED BY <2>3, <2>4, <2>5, <2>6
<1> QED BY <1>4, <1>5

LEMMA MkdirAnsweredWaits ==
  ASSUME UpInv, UpWaits, UpMkdirAnswered
  PROVE  UpWaits'
<1>1. upRun \in UpRuns /\ upCtx \in [UpFiles -> UpContexts]
  BY UpTypes DEF UpInv
<1>2. upSess' = upSess
  BY DEF UpMkdirAnswered, upServer
<1>3. PICK run, list :
        /\ run \in {[upRun EXCEPT !.won = TRUE, !.fin = TRUE], [upRun EXCEPT !.fin = TRUE]}
        /\ RunOn(run, upCtx, list, upReq, upAsk)
  BY DEF UpMkdirAnswered
<1>4. run \in UpRuns
  BY <1>1, <1>3 DEF UpRuns
<1> QED BY <1>1, <1>2, <1>3, <1>4, LoopWaits DEF UpWaits, UpFlights

LEMMA BeginWaits ==
  ASSUME UpInv, UpWaits, NEW k \in 0 .. UpSubmits, NEW list, BeginRun(k, list),
         upSess' = upSess
  PROVE  UpWaits'
<1> DEFINE items == {i \in UpItems : UpListed(list, i)}
           run == [NoUpRun EXCEPT !.k = k, !.left = items, !.all = items]
<1>1. CASE items = {}
  <2>1. upRun' = NoUpRun /\ upLocked' = FALSE /\ upCtx' = upCtx /\ upReq' = upReq
    BY <1>1 DEF BeginRun
  <2>2. upRun'.at = "idle" /\ ~upLocked'
    BY <2>1, NoRunIs
  <2>3. CtxKept /\ CommitsKept
    BY <2>1 DEF CtxKept, CommitsKept
  <2> QED BY <2>2, <2>3, RestWaits, CommitsStay DEF UpWaits
<1>2. CASE items # {}
  <2>1. RunOn(run, upCtx, [i \in UpItems |-> IF i \in items THEN "WAITING" ELSE list[i]],
              upReq, upAsk)
    BY <1>2 DEF BeginRun
  <2>2. items \in SUBSET UpItems
    OBVIOUS
  <2> HIDE DEF items
  <2>3. run \in UpRuns
    BY <2>2, RunBegun
  <2>4. upCtx \in [UpFiles -> UpContexts] /\ \A i \in UpFiles : FlightOK(upCtx[i])
    BY UpTypes DEF UpInv, UpWaits, UpFlights
  <2> HIDE DEF run
  <2> QED BY <2>1, <2>3, <2>4, LoopWaits
<1> QED BY <1>1, <1>2

LEMMA SubmitWaits ==
  ASSUME UpInv, UpWaits, UpSubmit \/ UpScanned
  PROVE  UpWaits'
<1>1. CASE UpScanned
  <2>1. upRun.k \in 0 .. UpSubmits
    BY UpTypes, RunTyped DEF UpInv
  <2> QED BY <1>1, <2>1, BeginWaits DEF UpScanned, upServer
<1>2. CASE UpSubmit
  <2> DEFINE k == upCount["submit"] + 1
  <2>1. k \in 0 .. UpSubmits
    <3>1. upCount["submit"] \in Nat
      BY UpTypes DEF UpInv
    <3>2. upCount["submit"] < UpSubmits
      BY <1>2 DEF UpSubmit, UpCounted, UpUsed
    <3> QED BY <3>1, <3>2, UpConstants
  <2>2. PICK list :
          \/ /\ upRun' = [NoUpRun EXCEPT !.at = "scan", !.k = k]
             /\ UNCHANGED <<upCtx, upReq, upAsk>>
          \/ BeginRun(k, list)
    BY <1>2 DEF UpSubmit
  <2>3. upSess' = upSess
    BY <1>2 DEF UpSubmit, upServer
  <2> HIDE DEF k
  <2>4. CASE /\ upRun' = [NoUpRun EXCEPT !.at = "scan", !.k = k]
             /\ UNCHANGED <<upCtx, upReq, upAsk>>
    <3>1. {} \in SUBSET UpItems
      OBVIOUS
    <3>2. upRun'.at = "scan"
      BY <2>1, <2>4, <3>1, RunMade, Zenon
    <3>3. CtxKept /\ CommitsKept
      BY <2>4 DEF CtxKept, CommitsKept
    <3> QED BY <2>3, <3>2, <3>3, RestWaits, CommitsStay DEF UpWaits
  <2>5. CASE BeginRun(k, list)
    BY <2>1, <2>3, <2>5, BeginWaits
  <2> QED BY <2>2, <2>4, <2>5
<1> QED BY <1>1, <1>2

(* A step of the server on request q, for which the sessions become sess.  *)
LEMMA ServedWaits ==
  ASSUME UpInv, UpWaits, NEW q \in upReq, NEW at, NEW sess \in [UpSids -> UpSessions],
         ServerStep(q, at, sess),
         \A s \in UpSids : sess[s].st = "completing" =>
            \/ s = q.sid /\ at = "commit"
            \/ upSess[s].st = "completing" /\ (s # q.sid \/ q.at # "commit")
  PROVE  UpWaits'
<1>1. /\ upReq' = Moved(q, at) /\ upSess' = Released(sess, Moved(q, at))
      /\ upLocked' = upLocked /\ upRun' = upRun /\ upCtx' = upCtx /\ upAsk' = upAsk
  BY DEF ServerStep, upPage
<1>2. CtxKept
  BY <1>1 DEF CtxKept
<1>3. UpAwaited' /\ UpFlights'
  BY <1>1, <1>2, QuietWaits
<1>4. ASSUME NEW s \in UpSids, upSess'[s].st = "completing"
      PROVE  \E r \in upReq' : r.sid = s /\ r.at = "commit"
  <2>1. sess[s].st = "completing"
    BY <1>1, <1>4, NoSession DEF Released
  <2>2. CASE s = q.sid /\ at = "commit"
    <3> DEFINE r == [q EXCEPT !.at = at]
    <3>1. r \in upReq'
      BY <1>1, <2>2 DEF Moved
    <3>2. q \in UpRequests
      BY UpTypes DEF UpInv
    <3>3. r.sid = q.sid /\ r.at = at
      BY <3>2 DEF UpRequests
    <3> QED BY <2>2, <3>1, <3>3
  <2>3. CASE upSess[s].st = "completing" /\ (s # q.sid \/ q.at # "commit")
    <3>1. PICK r \in upReq : r.sid = s /\ r.at = "commit"
      BY <2>3 DEF UpWaits, UpCommits
    <3>2. r \in upReq'
      BY <1>1, <2>3, <3>1 DEF Moved
    <3> QED BY <3>1, <3>2
  <2> QED BY <1>4, <2>1, <2>2, <2>3
<1> QED BY <1>3, <1>4 DEF UpWaits, UpCommits

LEMMA BeginCompletionWaits ==
  ASSUME UpInv, UpWaits, NEW q \in upReq, q.at \in {"sent", "write"},
         NEW sess \in [UpSids -> UpSessions],
         \A s \in UpSids : sess[s].st = upSess[s].st,
         BeginCompletion(q, sess)
  PROVE  UpWaits'
<1>1. q.sid \in UpSids
  BY UpTypes, RequestTyped DEF UpInv
<1>2. sess[q.sid].st \in {"none", "active", "completing", "committed", "canceled"}
  BY <1>1 DEF UpSessions
<1>3. CASE sess[q.sid].st # "active"
  <2>1. PICK at : ServerStep(q, at, sess)
    BY <1>2, <1>3 DEF BeginCompletion
  <2> QED BY <2>1, ServedWaits
<1>4. CASE sess[q.sid].st = "active"
  <2> DEFINE new == [sess EXCEPT ![q.sid].st = "completing"]
  <2>1. ServerStep(q, "commit", new)
    BY <1>4 DEF BeginCompletion
  <2>2. new \in [UpSids -> UpSessions]
    BY <1>1 DEF UpSessions
  <2>3. \A s \in UpSids : s # q.sid => new[s] = sess[s]
    BY <1>1
  <2> HIDE DEF new
  <2> QED BY <2>1, <2>2, <2>3, ServedWaits
<1> QED BY <1>3, <1>4

LEMMA ServerWaits ==
  ASSUME UpInv, UpWaits, NEW q \in upReq,
         \/ HandleApiFileUploadChunk(q) \/ WriteUploadChunk(q)
         \/ HandleApiFileUploadComplete(q) \/ CommitUpload(q) \/ CompletionAwaited(q)
  PROVE  UpWaits'
<1>1. /\ q.sid \in UpSids /\ q \in UpRequests
      /\ upSess \in [UpSids -> UpSessions] /\ upSess[q.sid] \in UpSessions
  BY UpTypes, RequestTyped DEF UpInv
<1>2. CASE HandleApiFileUploadChunk(q)
  <2>1. q.at = "sent" /\ \/ BeginCompletion(q, upSess)
                         \/ \E at : ServerStep(q, at, upSess)
    BY <1>1, <1>2 DEF HandleApiFileUploadChunk, UpSessions
  <2>2. CASE BeginCompletion(q, upSess)
    BY <1>1, <2>1, <2>2, BeginCompletionWaits
  <2>3. CASE \E at : ServerStep(q, at, upSess)
    BY <1>1, <2>1, <2>3, ServedWaits
  <2> QED BY <2>1, <2>2, <2>3
<1>3. CASE WriteUploadChunk(q)
  <2> DEFINE got == [upSess EXCEPT ![q.sid].got = @ \cup {q.part}]
  <2>1. q.at = "write" /\ \/ BeginCompletion(q, got) \/ ServerStep(q, "ok", got)
                          \/ ServerStep(q, "err", upSess)
    BY <1>3 DEF WriteUploadChunk
  <2>2. q.part \in 1 .. UpChunks
    <3>1. q.part \in 0 .. UpChunks
      BY <1>1 DEF UpRequests, UpParts
    <3>2. q.part # 0
      BY <2>1 DEF UpInv, UpServeInv, ServesOK
    <3> QED BY <3>1, <3>2, UpConstants
  <2>3. got \in [UpSids -> UpSessions] /\ \A s \in UpSids : got[s].st = upSess[s].st
    <3> DEFINE d == [upSess[q.sid] EXCEPT !.got = @ \cup {q.part}]
    <3>1. got = [upSess EXCEPT ![q.sid] = d]
      BY <1>1
    <3>2. d \in UpSessions /\ d.st = upSess[q.sid].st
      <4> DEFINE e == upSess[q.sid]
      <4>1. e.got \cup {q.part} \in SUBSET (1 .. UpChunks)
        BY <1>1, <2>2 DEF UpSessions
      <4> HIDE DEF e
      <4>2. e \in UpSessions
        BY <1>1 DEF e
      <4>3. [e EXCEPT !.got = e.got \cup {q.part}] \in UpSessions
        BY <4>1, <4>2 DEF UpSessions
      <4>4. [e EXCEPT !.got = e.got \cup {q.part}].st = e.st
        BY <4>2 DEF UpSessions
      <4> QED BY <4>3, <4>4 DEF e
    <3> HIDE DEF d
    <3> QED BY <1>1, <3>1, <3>2
  <2> HIDE DEF got
  <2>4. CASE BeginCompletion(q, got)
    BY <2>1, <2>3, <2>4, BeginCompletionWaits
  <2>5. CASE ServerStep(q, "ok", got)
    BY <2>1, <2>3, <2>5, ServedWaits
  <2>6. CASE ServerStep(q, "err", upSess)
    BY <1>1, <2>1, <2>6, ServedWaits
  <2> QED BY <2>1, <2>4, <2>5, <2>6
<1>4. CASE HandleApiFileUploadComplete(q)
  BY <1>1, <1>4, BeginCompletionWaits DEF HandleApiFileUploadComplete
<1>5. CASE CommitUpload(q)
  <2>1. PICK st \in {"committed", "canceled", "active"}, at \in {"done", "err"} :
          ServerStep(q, at, [upSess EXCEPT ![q.sid].st = st])
    BY <1>5 DEF CommitUpload
  <2> DEFINE new == [upSess EXCEPT ![q.sid].st = st]
  <2>2. /\ new \in [UpSids -> UpSessions] /\ new[q.sid].st = st
        /\ \A s \in UpSids : s # q.sid => new[s] = upSess[s]
    BY <1>1 DEF UpSessions
  <2>3. ServerStep(q, at, new)
    BY <2>1
  <2> HIDE DEF new
  <2> QED BY <2>1, <2>2, <2>3, ServedWaits
<1>6. CASE CompletionAwaited(q)
  <2>1. upSess[q.sid].st # "completing" /\ \E at : ServerStep(q, at, upSess)
    BY <1>6 DEF CompletionAwaited
  <2> QED BY <1>1, <2>1, ServedWaits
<1> QED BY <1>2, <1>3, <1>4, <1>5, <1>6

LEMMA SessionWaits ==
  ASSUME UpInv, UpWaits, CtxKept, CommitsKept, upRun' = upRun, upLocked' = upLocked,
         \A a \in upAsk : \E b \in upAsk' : b.sid = a.sid,
         \A s \in UpSids : upSess'[s].st = "completing" => upSess[s].st = "completing"
  PROVE  UpWaits'
<1>1. UpAwaited' /\ UpFlights'
  BY QuietWaits
<1> QED BY <1>1, CommitsStay DEF UpWaits

LEMMA InitAbortCleanupWaits ==
  ASSUME UpInv, UpWaits,
         \/ \E a \in upAsk : HandleApiFileUploadInit(a)
         \/ \E s \in UpSids : HandleApiFileUploadAbort(s) \/ CleanupExpiredUploadSessions(s)
  PROVE  UpWaits'
<1>1. upLocked' = upLocked /\ upRun' = upRun /\ upCtx' = upCtx /\ upReq' = upReq
  BY DEF HandleApiFileUploadInit, HandleApiFileUploadAbort, CleanupExpiredUploadSessions,
         upPage, upNet
<1>2. CtxKept /\ CommitsKept
  BY <1>1 DEF CtxKept, CommitsKept
<1>3. upSess \in [UpSids -> UpSessions]
  BY UpTypes DEF UpInv
<1>4. ASSUME NEW a \in upAsk, HandleApiFileUploadInit(a) PROVE UpWaits'
  <2>1. a \in UpAsks /\ a.sid \in UpSids
    BY UpTypes, AskTyped DEF UpInv
  <2>2. PICK at : upAsk' = (upAsk \ {a}) \cup {[a EXCEPT !.at = at]}
    BY <1>4 DEF HandleApiFileUploadInit
  <2> DEFINE b == [a EXCEPT !.at = at]
  <2>3. b.sid = a.sid
    BY <2>1 DEF UpAsks
  <2> HIDE DEF b
  <2>4. \A e \in upAsk : \E f \in upAsk' : f.sid = e.sid
    BY <2>2, <2>3 DEF b
  <2>5. upSess' = upSess
        \/ upSess' = [upSess EXCEPT ![a.sid] = [NoUpSess EXCEPT !.st = "active"]]
    BY <1>4 DEF HandleApiFileUploadInit
  <2>6. [NoUpSess EXCEPT !.st = "active"].st = "active"
    BY DEF NoUpSess
  <2>7. \A s \in UpSids : upSess'[s].st = "completing" => upSess[s].st = "completing"
    BY <1>3, <2>1, <2>5, <2>6
  <2> QED BY <1>1, <1>2, <2>4, <2>7, SessionWaits
<1>5. ASSUME NEW s \in UpSids,
             HandleApiFileUploadAbort(s) \/ CleanupExpiredUploadSessions(s)
      PROVE  UpWaits'
  <2>1. upAsk' = upAsk
    BY <1>5 DEF HandleApiFileUploadAbort, CleanupExpiredUploadSessions, upNet
  <2>2. \/ upSess' = upSess
        \/ upSess' = Released([upSess EXCEPT ![s].st = "canceled"], upReq)
        \/ upSess' = [upSess EXCEPT ![s] = NoUpSess]
    BY <1>5 DEF HandleApiFileUploadAbort, CleanupExpiredUploadSessions
  <2>3. \A t \in UpSids : upSess'[t].st = "completing" => upSess[t].st = "completing"
    <3>1. CASE upSess' = Released([upSess EXCEPT ![s].st = "canceled"], upReq)
      <4> DEFINE new == [upSess EXCEPT ![s].st = "canceled"]
      <4>1. new[s].st = "canceled" /\ \A t \in UpSids : t # s => new[t] = upSess[t]
        BY <1>3 DEF UpSessions
      <4> HIDE DEF new
      <4>2. \A t \in UpSids : upSess'[t] \in {new[t], NoUpSess}
        BY <3>1 DEF Released, new
      <4> QED BY <4>1, <4>2, NoSession
    <3>2. CASE upSess' = [upSess EXCEPT ![s] = NoUpSess]
      BY <1>3, <3>2, NoSession
    <3> QED BY <2>2, <3>1, <3>2
  <2> QED BY <1>1, <1>2, <2>1, <2>3, SessionWaits
<1> QED BY <1>4, <1>5

LEMMA UpWaitsStart ==
  ASSUME UpInit
  PROVE  UpWaits
<1>1. \A i \in UpFiles : upCtx[i].fly = {}
  BY NoCtxTyped DEF UpInit
<1>2. \A s \in UpSids : upSess[s].st = "none"
  BY NoSession DEF UpInit
<1>3. upRun.at = "idle" /\ ~upLocked
  BY NoRunIs DEF UpInit
<1> QED BY <1>1, <1>2, <1>3 DEF UpWaits, UpAwaited, UpFlights, FlightOK, UpCommits

LEMMA UpWaitsNext ==
  ASSUME UpInv, UpWaits, [UpNext]_upVars
  PROVE  UpWaits'
<1>1. CASE UpAnswer
  BY <1>1, InitAbortCleanupWaits, InitAnsweredWaits, ServerWaits, MkdirAnsweredWaits
     DEF UpAnswer
<1>2. CASE UpLoop
  <2>1. CASE UpScanned
    BY <2>1, SubmitWaits
  <2>2. CASE UpFinish
    BY <2>2, FinishWaits
  <2>3. ASSUME NEW i \in UpFiles,
               \/ UpMerged(i) \/ UpAbortedSettled(i)
               \/ \E c \in AllChunks : UpChunkSettled(i, c)
        PROVE  UpWaits'
    BY <2>3, MergedWaits, SettledWaits
  <2>4. ASSUME NEW i \in UpFiles, NEW part \in UpParts,
               UpError(i, part) \/ UpRetry(i, part) \/ UpGiveUp(i, part)
        PROVE  UpWaits'
    BY <2>4, RetryWaits, GiveUpWaits
  <2>5. CASE \E all \in upEnding : UpReloaded(all)
    BY <2>5, ListStepWaits
  <2> QED BY <1>2, <2>1, <2>2, <2>3, <2>4, <2>5 DEF UpLoop
<1>3. ASSUME NEW i \in UpFiles,
             UpPick(i) \/ UpDrop(i) \/ UpDropRead(i) \/ HandleFolderScanBatch(i)
      PROVE  UpWaits'
  BY <1>3, ChoosingWaits
<1>4. CASE \/ HandleFolderScanComplete \/ UpDropFolder
           \/ \E i \in UpItems : UpDoneTimer(i)
  BY <1>4, ListStepWaits
<1>5. CASE UpSubmit
  BY <1>5, SubmitWaits
<1>6. CASE ResetFileUploadState \/ \E I \in SUBSET UpItems : RemoveFileUploadItem(I)
  BY <1>6, CancelWaits
<1>7. ASSUME NEW q \in upReq, UpLose(q) PROVE UpWaits'
  BY <1>7, LoseWaits
<1>8. CASE \E s \in UpSids : CleanupExpiredUploadSessions(s)
  BY <1>8, InitAbortCleanupWaits
<1>9. CASE UNCHANGED upVars
  <2>1. /\ upRun' = upRun /\ upLocked' = upLocked /\ upCtx' = upCtx /\ upAsk' = upAsk
        /\ upReq' = upReq /\ upSess' = upSess
    BY <1>9 DEF upVars, upPage, upNet, upServer
  <2> QED BY <2>1, ListWaits
<1> QED BY <1>1, <1>2, <1>3, <1>4, <1>5, <1>6, <1>7, <1>8, <1>9 DEF UpNext, UpProgress

(* Every part of a file that is waited for can be carried on.              *)
LEMMA PartMoves ==
  ASSUME UpInv, UpWaits, NEW i \in UpFiles, NEW p
  PROVE  UpPartMoves(i, p)
<1> SUFFICES ASSUME Pending(i, p) PROVE UpPartMoves(i, p)
  BY DEF UpPartMoves
<1>1. PICK q \in upReq : q.sid = UpSid(i) /\ q.part = p /\ q.live
  BY DEF Pending
<1>2. /\ q.sid \in UpSids
      /\ q.at \in {"sent", "write", "commit", "wait", "ok", "done", "err"}
  <2>1. q \in UpRequests
    BY UpTypes DEF UpInv
  <2> QED BY <2>1 DEF UpRequests
<1>3. CASE q.at \in {"ok", "done", "err"}
  <2>1. q \in UpAnswers(i, p)
    BY <1>1, <1>3 DEF UpAnswers
  <2> QED BY <1>1, <2>1 DEF UpPartMoves
<1>4. CASE q.at \in {"sent", "write", "commit"}
  BY <1>1, <1>4 DEF UpPartMoves, UpServerCanStep
<1>5. CASE q.at = "wait"
  <2>1. CASE upSess[q.sid].st = "completing"
    <3>1. PICK r \in upReq : r.sid = q.sid /\ r.at = "commit"
      BY <1>2, <2>1 DEF UpWaits, UpCommits
    <3> QED BY <1>1, <3>1 DEF UpPartMoves, UpServerCanStep
  <2>2. CASE upSess[q.sid].st # "completing"
    BY <1>1, <1>5, <2>2 DEF UpPartMoves, UpServerCanStep
  <2> QED BY <2>1, <2>2
<1> QED BY <1>2, <1>3, <1>4, <1>5

(* A page that is locked by an upload has something to be carried on: no   *)
(* loss, retry, removal or refusal leaves the run of uploadFileGroupChunks *)
(* waiting for a promise that nobody settles, or a completion waiting for  *)
(* a request that is gone (CompleteDone).                                  *)
THEOREM UploadsMoveOn == UpSpec => []UpMovesOn
<1>1. UpInit => UpWaits
  BY UpWaitsStart
<1>2. UpInv /\ UpWaits /\ [UpNext]_upVars => UpWaits'
  BY UpWaitsNext
<1>3. UpInv /\ UpWaits => UpMovesOn
  <2> SUFFICES ASSUME UpInv, UpWaits, upLocked PROVE UpMovesOn
    BY DEF UpMovesOn
  <2>1. upRun.at \in {"scan", "init", "mkdir", "race", "tail"}
    <3>1. upRun.at \in {"idle", "scan", "init", "mkdir", "race", "tail"}
      BY UpTypes, RunTyped DEF UpInv
    <3> QED BY <3>1 DEF UpWaits, UpAwaited
  <2>2. ASSUME NEW i \in UpFiles, NEW c \in upCtx[i].fly, ~upCtx[i].dead PROVE UpLive(i)
    BY <2>2 DEF UpWaits, UpFlights, FlightOK, UpLive
  <2> QED BY <2>1, <2>2, PartMoves DEF UpMovesOn, UpWaits, UpAwaited
<1> QED BY <1>1, <1>2, <1>3, UploadInvariant, PTL DEF UpSpec
=============================================================================
