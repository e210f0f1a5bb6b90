----------------------- MODULE TerminalStream_proofs -----------------------
(***************************************************************************)
(* Proofs about TerminalStream: for any number of clients, any chunks and  *)
(* any capacities, a writer never sleeps over unread output, a terminal    *)
(* gets the history in order and once, nothing is dropped in silence, and  *)
(* what the history does not keep is sent live.  What the filter makes of  *)
(* a chunk is an induction over the chunk, by its least counterexample.    *)
(***************************************************************************)
EXTENDS TerminalStream, SequenceTheorems, WellFoundedInduction,
        TLAPS

(* --------- the filter of the alternate screen, chunk by chunk ---------- *)

\* Every set of numbers that is not empty has a least element.
LEMMA LeastNumber ==
    ASSUME NEW S \in SUBSET Nat, S # {}
    PROVE  \E m \in S : \A k \in S : ~(k < m)
<1>1. \E m \in S : \A k \in S : <<k, m>> \notin OpToRel(<, Nat)
  BY NatLessThanWellFounded, WFMin
<1> QED BY <1>1 DEF OpToRel

\* g is the work of the filter on the first n places of the chunk.
Filters(g, n, isActive, isHeld, chunk) ==
    g = [i \in 0 .. n |-> IF i = 0 THEN [active |-> isActive, out |-> <<>>,
                           held |-> IF isHeld THEN <<0>> ELSE <<>>]
            ELSE FilterUnit(g[i - 1], i, chunk[i])]

\* The function that Filter is defined by exists.
LEMMA FiltersExist ==
    ASSUME NEW a \in BOOLEAN, NEW h \in BOOLEAN, NEW chunk \in Seq(Kinds), NEW n \in Nat
    PROVE  \E g : Filters(g, n, a, h, chunk)
<1> DEFINE Bad == {m \in Nat : ~\E g : Filters(g, m, a, h, chunk)}
<1>1. SUFFICES ASSUME Bad # {} PROVE FALSE
  OBVIOUS
<1>2. PICK m \in Bad : \A k \in Bad : ~(k < m)
  BY <1>1, LeastNumber
<1>3. CASE m = 0
  <2> DEFINE g == [i \in 0 .. 0 |-> [active |-> a, out |-> <<>>, held |-> IF h THEN <<0>> ELSE <<>>]]
  <2>1. Filters(g, 0, a, h, chunk)
    BY DEF Filters
  <2> QED BY <1>2, <1>3, <2>1
<1>4. CASE m # 0
  <2>1. m - 1 \in Nat /\ m - 1 < m
    BY <1>4
  <2>2. PICK g : Filters(g, m - 1, a, h, chunk)
    BY <1>2, <2>1
  <2> DEFINE gg == [i \in 0 .. m |-> IF i = m THEN FilterUnit(g[m - 1], m, chunk[m])
                                     ELSE g[i]]
  <2>3. \A i \in 0 .. m : gg[i] = IF i = 0 THEN [active |-> a, out |-> <<>>,
                           held |-> IF h THEN <<0>> ELSE <<>>]
            ELSE FilterUnit(gg[i - 1], i, chunk[i])
    <3> SUFFICES ASSUME NEW i \in 0 .. m
                 PROVE gg[i] = IF i = 0 THEN [active |-> a, out |-> <<>>,
                           held |-> IF h THEN <<0>> ELSE <<>>]
            ELSE FilterUnit(gg[i - 1], i, chunk[i])
      OBVIOUS
    <3>1. CASE i = m
      <4>1. gg[i - 1] = g[m - 1]
        BY <2>1, <3>1
      <4> QED BY <1>4, <3>1, <4>1
    <3>2. CASE i # m /\ i # 0
      <4>1. gg[i - 1] = g[i - 1] /\ gg[i] = g[i] /\ i \in 0 .. m - 1
        BY <3>2
      <4>2. g[i] = FilterUnit(g[i - 1], i, chunk[i])
        BY <2>2, <3>2, <4>1 DEF Filters
      <4> QED BY <3>2, <4>1, <4>2
    <3>3. CASE i = 0 /\ i # m
      BY <2>1, <2>2, <3>3 DEF Filters
    <3> QED BY <3>1, <3>2, <3>3
  <2>4. Filters(gg, m, a, h, chunk)
    BY <2>3 DEF Filters
  <2> QED BY <1>2, <2>4
<1> QED BY <1>3, <1>4

LEMMA FilterIs ==
    ASSUME NEW a \in BOOLEAN, NEW h \in BOOLEAN, NEW chunk \in Seq(Kinds)
    PROVE  \E g : Filters(g, Len(chunk), a, h, chunk) /\ Filter(a, h, chunk) = g[Len(chunk)]
<1> DEFINE g == CHOOSE g : Filters(g, Len(chunk), a, h, chunk)
<1>1. Len(chunk) \in Nat
  OBVIOUS
<1>2. Filters(g, Len(chunk), a, h, chunk)
  BY <1>1, FiltersExist
<1>3. Filter(a, h, chunk) = g[Len(chunk)]
  BY DEF Filter, Filters
<1> QED BY <1>2, <1>3

Filtered == [active : BOOLEAN, held : Seq(Nat), out : Seq(Nat)]

\* What is kept so far of the first n units: the places are in order, none is
\* there twice, and the half held back comes after all that went out.
Sorted(f, n, isHeld) ==
    /\ f \in Filtered
    /\ \A k \in DOMAIN f.out : /\ f.out[k] <= n
                               /\ f.out[k] = 0 => isHeld
    /\ \A j, k \in DOMAIN f.out : j < k => f.out[j] < f.out[k]
    /\ f.held # <<>> =>
         /\ f.held[1] <= n /\ (f.held[1] = 0 => isHeld)
         /\ f.held = <<f.held[1]>>
         /\ \A k \in DOMAIN f.out : f.out[k] < f.held[1]

LEMMA OneMore ==
    ASSUME NEW s \in Seq(Nat), NEW x \in Nat
    PROVE  LET t == s \o <<x>>
           IN  /\ t \in Seq(Nat) /\ Len(t) = Len(s) + 1
               /\ DOMAIN t = 1 .. (Len(s) + 1)
               /\ \A k \in DOMAIN t : t[k] = IF k = Len(s) + 1 THEN x ELSE s[k]
<1>1. s \o <<x>> = Append(s, x)
  BY AppendIsConcat
<1> QED BY <1>1, AppendProperties

\* The places up to n + 1 stay in order when the held half and n + 1 go out.
LEMMA SortedOut ==
    ASSUME NEW n \in Nat, NEW isHeld \in BOOLEAN, NEW f, Sorted(f, n, isHeld)
    PROVE  LET out == f.out \o f.held \o <<n + 1>>
           IN  /\ out \in Seq(Nat)
               /\ \A k \in DOMAIN out : /\ out[k] <= n + 1
                                        /\ out[k] = 0 => isHeld
               /\ \A j, k \in DOMAIN out : j < k => out[j] < out[k]
<1>1. f.out \in Seq(Nat) /\ f.held \in Seq(Nat)
  BY DEF Sorted, Filtered
<1>2. \A k \in DOMAIN f.out : f.out[k] \in Nat /\ k \in Nat /\ k <= Len(f.out)
  BY <1>1
<1>3. CASE f.held = <<>>
  <2> DEFINE out == f.out \o <<n + 1>>
  <2>1. /\ out \in Seq(Nat) /\ DOMAIN out = 1 .. (Len(f.out) + 1)
        /\ \A k \in DOMAIN out : out[k] = IF k = Len(f.out) + 1 THEN n + 1 ELSE f.out[k]
    BY <1>1, OneMore
  <2>2. f.out \o f.held = f.out
    BY <1>1, <1>3
  <2>3. \A k \in DOMAIN out : k \in DOMAIN f.out \/ k = Len(f.out) + 1
    BY <1>1, <2>1
  <2>4. Len(f.out) \in Nat
    BY <1>1
  <2> HIDE DEF out
  <2>5. \A k \in DOMAIN out : /\ out[k] <= n + 1
                              /\ out[k] = 0 => isHeld
    BY <1>2, <2>1, <2>3, <2>4 DEF Sorted
  <2>6. \A j, k \in DOMAIN out : j < k => out[j] < out[k]
    BY SMTT(30), <1>2, <2>1, <2>3, <2>4 DEF Sorted
  <2> QED BY <2>1, <2>2, <2>5, <2>6 DEF out
<1>4. CASE f.held # <<>>
  <2> DEFINE p == f.held[1]
             most == f.out \o <<p>>
             out == most \o <<n + 1>>
  <2>1. p \in Nat /\ f.held = <<p>>
    BY <1>1, <1>4 DEF Sorted
  <2>2. /\ most \in Seq(Nat) /\ DOMAIN most = 1 .. (Len(f.out) + 1)
        /\ Len(most) = Len(f.out) + 1
        /\ \A k \in DOMAIN most : most[k] = IF k = Len(f.out) + 1 THEN p ELSE f.out[k]
    BY <1>1, <2>1, OneMore
  <2>3. /\ out \in Seq(Nat) /\ DOMAIN out = 1 .. (Len(most) + 1)
        /\ \A k \in DOMAIN out : out[k] = IF k = Len(most) + 1 THEN n + 1 ELSE most[k]
    BY <2>2, OneMore
  <2>4. Len(f.out) \in Nat
    BY <1>1
  <2>5. f.out \o f.held \o <<n + 1>> = out
    BY <2>1
  <2>6. p <= n /\ (p = 0 => isHeld) /\ \A k \in DOMAIN f.out : f.out[k] < p
    BY <1>4 DEF Sorted
  <2> HIDE DEF out, most, p
  <2>7. \A k \in DOMAIN out : /\ k \in 1 .. (Len(f.out) + 2)
                              /\ k = Len(f.out) + 2 => out[k] = n + 1
                              /\ k = Len(f.out) + 1 => out[k] = p
                              /\ k \notin {Len(f.out) + 1, Len(f.out) + 2} =>
                                   k \in DOMAIN f.out /\ out[k] = f.out[k]
    BY SMTT(30), <1>1, <2>2, <2>3, <2>4
  <2>8. \A k \in DOMAIN out : /\ out[k] <= n + 1
                              /\ out[k] = 0 => isHeld
    BY <1>2, <2>1, <2>4, <2>6, <2>7 DEF Sorted
  <2>9. \A j, k \in DOMAIN out : j < k => out[j] < out[k]
    BY <1>2, <2>1, <2>4, <2>6, <2>7 DEF Sorted
  <2> QED BY <2>3, <2>5, <2>8, <2>9
<1> QED BY <1>3, <1>4

LEMMA SortedUnit ==
    ASSUME NEW n \in Nat, NEW isHeld \in BOOLEAN, NEW f, Sorted(f, n, isHeld),
           NEW kind \in Kinds
    PROVE  Sorted(FilterUnit(f, n + 1, kind), n + 1, isHeld)
<1> DEFINE g == FilterUnit(f, n + 1, kind)
<1>1. /\ f \in Filtered /\ f.active \in BOOLEAN /\ f.out \in Seq(Nat)
      /\ f.held \in Seq(Nat)
  BY DEF Sorted, Filtered
<1>2. \A k \in DOMAIN f.out : f.out[k] \in Nat
  BY <1>1
<1>3. /\ <<>> \in Seq(Nat) /\ <<n + 1>> \in Seq(Nat) /\ <<n + 1>> # <<>>
      /\ <<n + 1>>[1] = n + 1
  OBVIOUS
<1>4. CASE kind \in {"enter", "enterRest", "exit", "exitRest"}
  <2>1. g \in Filtered /\ g.out = f.out /\ g.held = <<>>
    BY <1>1, <1>3, <1>4 DEF FilterUnit, Filtered
  <2> HIDE DEF g
  <2> QED BY <1>2, <2>1 DEF Sorted, g
<1>5. CASE kind = "half"
  <2>1. g \in Filtered /\ g.out = f.out /\ g.held = <<n + 1>>
    BY <1>1, <1>3, <1>5 DEF FilterUnit, Filtered
  <2> HIDE DEF g
  <2> QED BY <1>2, <1>3, <2>1 DEF Sorted, g
<1>6. CASE kind \notin {"enter", "enterRest", "exit", "exitRest", "half"}
  <2> DEFINE out == f.out \o f.held \o <<n + 1>>
  <2>1. /\ out \in Seq(Nat)
        /\ \A k \in DOMAIN out : /\ out[k] <= n + 1
                                 /\ out[k] = 0 => isHeld
        /\ \A j, k \in DOMAIN out : j < k => out[j] < out[k]
    BY SortedOut
  <2> HIDE DEF out
  <2>2. g = [f EXCEPT !.held = <<>>, !.out = IF f.active THEN f.out ELSE out]
    BY <1>6 DEF FilterUnit, out
  <2>3. g \in Filtered /\ g.held = <<>> /\ (g.out = f.out \/ g.out = out)
    BY <1>1, <1>3, <2>1, <2>2 DEF Filtered
  <2> HIDE DEF g
  <2> QED BY <1>2, <2>1, <2>3 DEF Sorted, g
<1> QED BY <1>4, <1>5, <1>6

\* filterPTYAlternateScreenHistory keeps the places of a chunk in order and none
\* twice, and a half that it holds back comes after all that it lets through.
THEOREM FilterSorts ==
    ASSUME NEW a \in BOOLEAN, NEW h \in BOOLEAN, NEW chunk \in Seq(Kinds)
    PROVE  Sorted(Filter(a, h, chunk), Len(chunk), h)
<1>1. Len(chunk) \in Nat
  OBVIOUS
<1>2. PICK g : Filters(g, Len(chunk), a, h, chunk) /\ Filter(a, h, chunk) = g[Len(chunk)]
  BY FilterIs
<1> DEFINE Bad == {m \in 0 .. Len(chunk) : ~Sorted(g[m], m, h)}
<1>3. SUFFICES ASSUME Bad # {} PROVE FALSE
  BY <1>1, <1>2
<1>4. PICK m \in Bad : \A k \in Bad : ~(k < m)
  <2>1. Bad \in SUBSET Nat
    BY <1>1
  <2> HIDE DEF Bad
  <2> QED BY <1>3, <2>1, LeastNumber
<1>5. CASE m = 0
  <2>1. g[0] = [active |-> a, out |-> <<>>, held |-> IF h THEN <<0>> ELSE <<>>]
    BY <1>1, <1>2 DEF Filters
  <2>2. g[0] \in Filtered /\ g[0].out = <<>> /\ g[0].held = IF h THEN <<0>> ELSE <<>>
    BY <2>1 DEF Filtered
  <2>3. Sorted(g[0], 0, h)
    BY <2>2 DEF Sorted
  <2> QED BY <1>4, <1>5, <2>3
<1>6. CASE m # 0
  <2>1. m \in Nat /\ m - 1 \in Nat /\ m - 1 \in 0 .. Len(chunk) /\ m - 1 < m /\ m \in 1 .. Len(chunk)
    BY <1>1, <1>4, <1>6
  <2>2. Sorted(g[m - 1], m - 1, h)
    BY <1>4, <2>1
  <2>3. g[m] = FilterUnit(g[m - 1], m, chunk[m])
    BY <1>1, <1>2, <1>6, <2>1 DEF Filters
  <2>4. chunk[m] \in Kinds /\ (m - 1) + 1 = m
    BY <2>1
  <2>5. Sorted(FilterUnit(g[m - 1], (m - 1) + 1, chunk[m]), (m - 1) + 1, h)
    BY <2>1, <2>2, <2>4, SortedUnit
  <2> QED BY <1>4, <2>3, <2>4, <2>5
<1> QED BY <1>5, <1>6

\* Nothing of the first n places is lost: each is kept or is the half at the end.
KeepsAll(f, n, isHeld, chunk) ==
    /\ ~f.active
    /\ f.held # <<>> => \/ n = 0 /\ isHeld /\ f.held = <<0>>
                        \/ n > 0 /\ chunk[n] = "half" /\ f.held = <<n>>
    /\ \A i \in 1 .. n : Kept(f, i) \/ f.held = <<i>>
    /\ isHeld => Kept(f, 0) \/ f.held = <<0>>

NoSwitch(chunk) ==
    \A i \in 1 .. Len(chunk) :
        \/ chunk[i] \in {"text", "rest"}
        \/ chunk[i] = "half" /\ i = Len(chunk)

LEMMA KeepsUnit ==
    ASSUME NEW chunk \in Seq(Kinds), NoSwitch(chunk), NEW isHeld \in BOOLEAN,
           isHeld => chunk[1] = "rest",
           NEW n \in Nat, n < Len(chunk), NEW f, f \in Filtered,
           KeepsAll(f, n, isHeld, chunk)
    PROVE  KeepsAll(FilterUnit(f, n + 1, chunk[n + 1]), n + 1, isHeld, chunk)
<1> DEFINE g == FilterUnit(f, n + 1, chunk[n + 1])
<1>1. /\ f.out \in Seq(Nat) /\ f.held \in Seq(Nat) /\ f.active = FALSE
      /\ Len(chunk) \in Nat /\ n + 1 \in 1 .. Len(chunk)
  BY DEF Filtered, KeepsAll
<1>2. CASE chunk[n + 1] = "half"
  <2>1. /\ g = [f EXCEPT !.held = <<n + 1>>]
        /\ g.out = f.out /\ g.held = <<n + 1>> /\ g.active = FALSE
    BY <1>1, <1>2 DEF FilterUnit, Filtered
  <2>2. f.held = <<>>
    <3>1. n + 1 = Len(chunk)
      BY <1>1, <1>2 DEF NoSwitch
    <3>2. n > 0 => n \in 1 .. Len(chunk) /\ n # Len(chunk)
      BY <1>1, <3>1
    <3>3. n > 0 => chunk[n] # "half"
      BY <3>2 DEF NoSwitch
    <3> QED BY <1>2, <3>3 DEF KeepsAll
  <2> HIDE DEF g
  <2>3. \A i \in 1 .. n : Kept(g, i)
    BY <2>1, <2>2 DEF KeepsAll, Kept
  <2>4. isHeld => Kept(g, 0)
    BY <2>1, <2>2 DEF KeepsAll, Kept
  <2>5. \A i \in 1 .. n + 1 : i \in 1 .. n \/ i = n + 1
    OBVIOUS
  <2> QED BY <1>2, <2>1, <2>3, <2>4, <2>5 DEF KeepsAll, g
<1>3. CASE chunk[n + 1] # "half"
  <2> DEFINE out == f.out \o f.held \o <<n + 1>>
  <2>1. chunk[n + 1] \in {"text", "rest"}
    BY <1>1, <1>3 DEF NoSwitch
  <2>2. g.out = out /\ g.held = <<>> /\ g.active = FALSE
    BY <1>1, <2>1 DEF FilterUnit, Filtered
  <2>3. /\ \A i \in Nat : Kept(f, i) \/ f.held = <<i>> => \E k \in DOMAIN out : out[k] = i
        /\ \E k \in DOMAIN out : out[k] = n + 1
    <3>1. CASE f.held = <<>>
      <4> DEFINE short == f.out \o <<n + 1>>
      <4>1. /\ DOMAIN short = 1 .. (Len(f.out) + 1)
            /\ \A k \in DOMAIN short :
                 short[k] = IF k = Len(f.out) + 1 THEN n + 1 ELSE f.out[k]
        BY <1>1, OneMore
      <4>2. out = short
        BY <1>1, <3>1
      <4>3. DOMAIN f.out = 1 .. Len(f.out) /\ Len(f.out) \in Nat
        BY <1>1
      <4> HIDE DEF short, out
      <4>4. Len(f.out) + 1 \in DOMAIN short /\ short[Len(f.out) + 1] = n + 1
        BY <4>1, <4>3
      <4>5. \A k \in DOMAIN f.out : k \in DOMAIN short /\ short[k] = f.out[k]
        BY <4>1, <4>3
      <4>6. \A i : f.held # <<i>>
        BY <3>1
      <4> QED BY <4>2, <4>4, <4>5, <4>6 DEF Kept
    <3>2. CASE f.held # <<>>
      <4> DEFINE most == f.out \o f.held
                 all == most \o <<n + 1>>
      <4>1. PICK p \in Nat : f.held = <<p>>
        BY <3>2 DEF KeepsAll
      <4>2. /\ most \in Seq(Nat) /\ Len(most) = Len(f.out) + 1
            /\ DOMAIN most = 1 .. (Len(f.out) + 1)
            /\ \A k \in DOMAIN most : most[k] = IF k = Len(f.out) + 1 THEN p ELSE f.out[k]
        BY <1>1, <4>1, OneMore
      <4> HIDE DEF most
      <4>3. /\ DOMAIN all = 1 .. (Len(most) + 1)
            /\ \A k \in DOMAIN all : all[k] = IF k = Len(most) + 1 THEN n + 1 ELSE most[k]
        BY <4>2, OneMore
      <4>4. DOMAIN f.out = 1 .. Len(f.out) /\ Len(f.out) \in Nat
        BY <1>1
      <4>5. out = all
        BY DEF most
      <4> HIDE DEF out, all
      <4>0. PICK size \in Nat : size = Len(f.out)
        BY <4>4
      <4>12. Len(most) = size + 1 /\ Len(most) + 1 = size + 2
        BY <4>0, <4>2
      <4>13. DOMAIN all = 1 .. (size + 2)
        BY <4>3, <4>12
      <4>14. \A k \in DOMAIN all : all[k] = IF k = size + 2 THEN n + 1 ELSE most[k]
        BY <4>3, <4>12
      <4>10. /\ DOMAIN all = 1 .. (size + 2)
             /\ \A k \in 1 .. (size + 2) :
                  all[k] = IF k = size + 2 THEN n + 1 ELSE most[k]
        BY <4>13, <4>14
      <4>11. \A k \in 1 .. (size + 1) :
               most[k] = IF k = size + 1 THEN p ELSE f.out[k]
        BY <4>0, <4>2
      <4>6. size + 2 \in DOMAIN all /\ all[size + 2] = n + 1
        BY <4>10
      <4>7. size + 1 \in DOMAIN all /\ all[size + 1] = p
        BY <4>10, <4>11
      <4>8. \A k \in DOMAIN f.out : k \in DOMAIN all /\ all[k] = f.out[k]
        BY <4>0, <4>4, <4>10, <4>11
      <4>9. \A i : f.held = <<i>> => i = p
        BY <4>1
      <4> QED BY <4>5, <4>6, <4>7, <4>8, <4>9 DEF Kept
    <3> QED BY <3>1, <3>2
  <2> HIDE DEF g, out
  <2>4. \A i \in Nat : Kept(f, i) \/ f.held = <<i>> => Kept(g, i)
    BY <2>2, <2>3 DEF Kept
  <2>5. Kept(g, n + 1)
    BY <2>2, <2>3 DEF Kept
  <2>6. \A i \in 1 .. n + 1 : i \in Nat /\ (i \in 1 .. n \/ i = n + 1)
    OBVIOUS
  <2> QED BY <2>2, <2>4, <2>5, <2>6 DEF KeepsAll, g
<1> QED BY <1>2, <1>3

\* As long as nothing switches the screen, filterPTYAlternateScreenHistory loses
\* nothing: every place is kept, but for a half at the end that is held back.
THEOREM FilterKeepsPlainOutput ==
    ASSUME NEW h \in BOOLEAN, NEW chunk \in Seq(Kinds), NoSwitch(chunk),
           h => chunk[1] = "rest"
    PROVE  KeepsAll(Filter(FALSE, h, chunk), Len(chunk), h, chunk)
<1>1. Len(chunk) \in Nat
  OBVIOUS
<1>2. PICK g : Filters(g, Len(chunk), FALSE, h, chunk)
               /\ Filter(FALSE, h, chunk) = g[Len(chunk)]
  BY FilterIs
<1> DEFINE Bad == {m \in 0 .. Len(chunk) : ~(Sorted(g[m], m, h) /\ KeepsAll(g[m], m, h, chunk))}
<1>3. SUFFICES ASSUME Bad # {} PROVE FALSE
  <2>1. Len(chunk) \in 0 .. Len(chunk)
    BY <1>1
  <2>2. Len(chunk) \notin Bad
    BY <1>3
  <2> QED BY <1>2, <2>1, <2>2
<1>4. PICK m \in Bad : \A k \in Bad : ~(k < m)
  <2>1. Bad \in SUBSET Nat
    BY <1>1
  <2> HIDE DEF Bad
  <2> QED BY <1>3, <2>1, LeastNumber
<1>5. CASE m = 0
  <2>1. g[0] = [active |-> FALSE, out |-> <<>>, held |-> IF h THEN <<0>> ELSE <<>>]
    BY <1>1, <1>2 DEF Filters
  <2>2. /\ g[0] \in Filtered /\ g[0].out = <<>> /\ g[0].active = FALSE
        /\ g[0].held = IF h THEN <<0>> ELSE <<>>
    BY <2>1 DEF Filtered
  <2>3. Sorted(g[0], 0, h) /\ KeepsAll(g[0], 0, h, chunk)
    BY <2>2 DEF Sorted, KeepsAll
  <2> QED BY <1>4, <1>5, <2>3
<1>6. CASE m # 0
  <2>1. /\ m \in Nat /\ m - 1 \in Nat /\ m - 1 \in 0 .. Len(chunk) /\ m - 1 < m
        /\ m \in 1 .. Len(chunk) /\ m - 1 < Len(chunk)
    BY <1>1, <1>4, <1>6
  <2>2. Sorted(g[m - 1], m - 1, h) /\ KeepsAll(g[m - 1], m - 1, h, chunk)
    BY <1>4, <2>1
  <2>3. g[m] = FilterUnit(g[m - 1], m, chunk[m])
    BY <1>1, <1>2, <1>6, <2>1 DEF Filters
  <2>4. chunk[m] \in Kinds /\ (m - 1) + 1 = m
    BY <2>1
  <2>5. Sorted(FilterUnit(g[m - 1], (m - 1) + 1, chunk[m]), (m - 1) + 1, h)
    BY <2>1, <2>2, <2>4, SortedUnit
  <2>6. KeepsAll(FilterUnit(g[m - 1], (m - 1) + 1, chunk[(m - 1) + 1]), (m - 1) + 1, h, chunk)
    BY <2>1, <2>2, KeepsUnit DEF Sorted
  <2> QED BY <1>4, <2>3, <2>4, <2>5, <2>6
<1> QED BY <1>5, <1>6

(* ------------- the stream of the controller and the daemon ------------- *)

\* An append makes the history longer and never cuts into what it adds.
LEMMA AppendFacts ==
    ASSUME log \in Seq(Nat), base \in Nat, base <= Len(log),
           NEW units \in Seq(Nat), AppendHistory(units)
    PROVE  /\ log' \in Seq(Nat)
           /\ Len(log') = Len(log) + Len(units)
           /\ base' \in Nat
           /\ base' <= Len(log')
<1>1. Len(units) \in Nat /\ Len(log) \in Nat
  OBVIOUS
<1>2. log' \in Seq(Nat) /\ Len(log') = Len(log) + Len(units)
  BY DEF AppendHistory
<1>3. base' = BaseAfter(Len(units))
  BY DEF AppendHistory
<1>4. BaseAfter(Len(units)) \in Nat
  BY <1>1, LimitAssumption DEF BaseAfter, EndSeq
<1>5. BaseAfter(Len(units)) <= Len(log) + Len(units)
  <2> DEFINE added == Len(units)
             limit == IF added > Limit THEN added ELSE Limit
  <2>1. added \in Nat /\ limit \in Nat
    BY <1>1, LimitAssumption
  <2>2. BaseAfter(added) = IF Len(log) + added - base > limit
                           THEN Len(log) + added - limit ELSE base
    BY DEF BaseAfter, EndSeq
  <2> HIDE DEF added, limit
  <2> QED
    BY <1>1, <2>1, <2>2 DEF added
<1> QED
  BY <1>2, <1>3, <1>4, <1>5

\* The units of a chunk, and what the filter makes of them, are numbers.
LEMMA UnitFacts ==
    ASSUME pending \in Nat, emitted \in Nat, NEW places \in Seq(Nat)
    PROVE  UnitsAt(places) \in Seq(Nat) /\ Len(UnitsAt(places)) = Len(places)
<1>1. \A i \in Nat : UnitAt(i) \in Nat
  BY DEF UnitAt
<1>2. UnitsAt(places) = [k \in 1 .. Len(places) |-> UnitAt(places[k])]
  BY DEF UnitsAt
<1>3. Len(places) \in Nat /\ \A k \in 1 .. Len(places) : places[k] \in Nat
  OBVIOUS
<1>4. UnitsAt(places) \in [1 .. Len(places) -> Nat]
  BY <1>1, <1>2, <1>3
<1>5. UnitsAt(places) \in Seq(Nat)
  BY <1>3, <1>4, SeqDef
<1>6. Len(UnitsAt(places)) = Len(places)
  BY <1>3, <1>4, <1>5, LenProperties
<1> QED
  BY <1>5, <1>6

LEMMA FrameFacts ==
    /\ \A from, to \in Nat : Snapshot(from, to) \in Frame
    /\ \A from, to \in Nat : Live(from, to) \in Frame
    /\ \A from, to \in Nat, told \in BOOLEAN :
           [via |-> "history", lo |-> from, hi |-> to, notice |-> told] \in Frame
    /\ \A f \in Frame : f.lo \in Nat /\ f.hi \in Nat
BY DEF Snapshot, Live, Frame

LEMMA FilterFacts ==
    ASSUME pending \in Nat, emitted \in Nat, active \in BOOLEAN,
           NEW chunk \in Chunks
    PROVE  LET f == Filter(active, pending # NoUnit, chunk)
           IN  /\ f.active \in BOOLEAN
               /\ f.out \in Seq(Nat)
               /\ (IF f.held = <<>> THEN NoUnit ELSE UnitAt(f.held[1])) \in Nat
<1> DEFINE f == Filter(active, pending # NoUnit, chunk)
<1>1. f \in Filtered
  BY ChunksAssumption, FilterSorts DEF Sorted
<1> HIDE DEF f
<1>2. f.active \in BOOLEAN /\ f.out \in Seq(Nat) /\ f.held \in Seq(Nat)
  BY <1>1 DEF Filtered
<1>3. f.held # <<>> => f.held[1] \in Nat
  BY <1>2
<1>4. \A i \in Nat : UnitAt(i) \in Nat
  BY DEF UnitAt
<1> QED
  BY <1>2, <1>3, <1>4 DEF f, NoUnit

-----------------------------------------------------------------------------
(* The invariant, step by step.                                             *)

LEMMA StreamStart == ASSUME StreamInit PROVE ReadersIInv
<1>0. NoFrame \in Frame
  BY FrameFacts DEF NoFrame
<1>00. <<>> \in Seq(Frame) /\ <<>> \in Seq(Nat)
  OBVIOUS
<1>1. StreamTypeOK
  <2> USE DEF StreamInit
  <2>1. /\ pty \in BOOLEAN /\ active \in BOOLEAN /\ pending \in Nat
        /\ split \in BOOLEAN /\ emitted \in Nat /\ base \in Nat
    BY DEF NoUnit
  <2>2. stage \in [Clients -> Stages] /\ initial \in [Clients -> Frame]
    BY <1>0 DEF Stages
  <2>3. cursor \in [Clients -> Nat] /\ opened \in [Clients -> Nat]
    OBVIOUS
  <2>4. wake \in [Clients -> BOOLEAN] /\ writer \in [Clients -> {"top", "wait"}]
    OBVIOUS
  <2>5. queue \in [Clients -> Seq(Frame)] /\ got \in [Clients -> Seq(Frame)]
    BY <1>00
  <2> QED
    BY <2>1, <2>2, <2>3, <2>4, <2>5, <1>00 DEF StreamTypeOK
<1>2. CursorsWithin /\ GreetedFirst /\ ReadBehindCursor /\ QueuesAreLive
  BY DEF StreamInit, CursorsWithin, GreetedFirst, ReadBehindCursor,
         QueuesAreLive, EndSeq
<1>3. NoLostWakeup /\ HistoryInOrder /\ NothingSilentlyLost
  BY DEF StreamInit, NoLostWakeup, HistoryInOrder, NothingSilentlyLost, Ready
<1> QED
  BY <1>1, <1>2, <1>3 DEF ReadersIInv

\* What every step that leaves the cursors and the written frames alone needs.
LEMMA GotUnchanged ==
    ASSUME ReadersIInv, got' = got, cursor' = cursor
    PROVE  ReadBehindCursor' /\ HistoryInOrder' /\ NothingSilentlyLost'
BY DEF ReadersIInv, ReadBehindCursor, HistoryInOrder, NothingSilentlyLost,
       ToldOf, OfHistory

\* Putting out units wakes every ready client, or adds nothing to the history.
LEMMA OutputStep ==
    ASSUME ReadersIInv, NEW units \in Seq(Nat), NEW keep \in BOOLEAN,
           AppendHistory(units), WakeUnless(keep),
           keep => units = <<>>,
           pty' \in BOOLEAN, active' \in BOOLEAN, pending' \in Nat,
           split' \in BOOLEAN, emitted' \in Nat, slipped' \in SUBSET Nat,
           \/ UNCHANGED <<queue, stage>>
           \/ \E lo, hi \in Nat : EnqueueLive(Live(lo, hi)),
           UNCHANGED <<initial, cursor, writer, opened, got>>
    PROVE  ReadersIInv'
<1> USE DEF ReadersIInv
<1>1. /\ log' \in Seq(Nat) /\ Len(log') = Len(log) + Len(units)
      /\ base' \in Nat /\ base' <= Len(log') /\ Len(units) \in Nat
      /\ Len(log) \in Nat
  BY AppendFacts DEF StreamTypeOK, CursorsWithin, EndSeq
<1>2. wake' \in [Clients -> BOOLEAN]
  BY DEF WakeUnless, StreamTypeOK
<1>3. /\ queue' \in [Clients -> Seq(Frame)]
      /\ stage' \in [Clients -> Stages]
      /\ QueuesAreLive'
      /\ \A c \in Clients : stage'[c] = stage[c] \/ stage'[c] = "closed"
  <2>1. CASE UNCHANGED <<queue, stage>>
    BY <2>1 DEF StreamTypeOK, QueuesAreLive
  <2>2. CASE \E lo, hi \in Nat : EnqueueLive(Live(lo, hi))
    <3>1. PICK lo, hi \in Nat : EnqueueLive(Live(lo, hi))
      BY <2>2
    <3> DEFINE frame == Live(lo, hi)
    <3>2. frame \in Frame /\ frame.via = "live"
      BY FrameFacts DEF Live
    <3>3. EnqueueLive(frame)
      BY <3>1
    <3> HIDE DEF frame
    <3>4. stage' \in [Clients -> Stages]
      BY <3>3 DEF EnqueueLive, StreamTypeOK, Stages
    <3>5. \A c \in Clients : stage'[c] = stage[c] \/ stage'[c] = "closed"
      BY <3>3 DEF EnqueueLive
    <3>6. queue' \in [Clients -> Seq(Frame)]
      BY <3>2, <3>3 DEF EnqueueLive, StreamTypeOK
    <3>7. ASSUME NEW c \in Clients, NEW i \in DOMAIN queue'[c]
          PROVE  queue'[c][i].via = "live"
      <4>1. CASE queue'[c] = queue[c]
        BY <3>7, <4>1 DEF QueuesAreLive
      <4>2. CASE queue'[c] = Append(queue[c], frame)
        <5>1. queue[c] \in Seq(Frame)
          BY DEF StreamTypeOK
        <5>2. CASE i = Len(queue[c]) + 1
          BY <3>2, <4>2, <5>1, <5>2
        <5>3. CASE i \in DOMAIN queue[c]
          BY <4>2, <5>1, <5>3 DEF QueuesAreLive
        <5> QED
          BY <3>7, <4>2, <5>1, <5>2, <5>3
      <4> QED
        BY <3>3, <4>1, <4>2 DEF EnqueueLive
    <3> QED
      BY <3>4, <3>5, <3>6, <3>7 DEF QueuesAreLive
  <2> QED
    BY <2>1, <2>2
<1>4. StreamTypeOK'
  BY <1>1, <1>2, <1>3 DEF StreamTypeOK
<1>5. CursorsWithin'
  BY <1>1 DEF CursorsWithin, EndSeq, StreamTypeOK
<1>6. GreetedFirst'
  BY <1>3 DEF GreetedFirst, StreamTypeOK
<1>7. NoLostWakeup'
  <2> SUFFICES ASSUME NEW c \in Clients, stage'[c] = "open", cursor[c] < Len(log')
               PROVE  wake'[c]
    BY DEF NoLostWakeup, Ready, EndSeq
  <2>1. Ready(c)
    BY <1>3 DEF Ready
  <2>2. CASE keep
    BY <1>1, <2>1, <2>2 DEF NoLostWakeup, EndSeq, WakeUnless, StreamTypeOK
  <2>3. CASE ~keep
    BY <2>1, <2>3 DEF WakeUnless
  <2> QED
    BY <2>2, <2>3
<1>8. ReadBehindCursor' /\ HistoryInOrder' /\ NothingSilentlyLost'
  BY GotUnchanged
<1> QED
  BY <1>3, <1>4, <1>5, <1>6, <1>7, <1>8

LEMMA PlainStep ==
    ASSUME ReadersIInv, NEW chunk \in Chunks, OutputPlain(chunk)
    PROVE  ReadersIInv'
<1> DEFINE places == [i \in DOMAIN chunk |-> i]
<1>1. chunk \in Seq(Kinds) /\ Len(chunk) \in Nat
  BY ChunksAssumption
<1>2. places \in Seq(Nat)
  BY <1>1
<1>3. UnitsAt(places) \in Seq(Nat)
  BY <1>2, UnitFacts DEF ReadersIInv, StreamTypeOK
<1>4. AppendHistory(UnitsAt(places)) /\ WakeUnless(FALSE)
  BY DEF OutputPlain
<1>5. /\ pty' \in BOOLEAN /\ active' \in BOOLEAN /\ pending' \in Nat
      /\ split' \in BOOLEAN /\ emitted' \in Nat /\ slipped' \in SUBSET Nat
  BY <1>1 DEF OutputPlain, ReadersIInv, StreamTypeOK
<1>6. UNCHANGED <<queue, stage>> /\ UNCHANGED <<initial, cursor, writer, opened, got>>
  BY DEF OutputPlain
<1> HIDE DEF places
<1> QED
  BY <1>3, <1>4, <1>5, <1>6, OutputStep

LEMMA PTYStep ==
    ASSUME ReadersIInv, NEW chunk \in Chunks, OutputPTY(chunk)
    PROVE  ReadersIInv'
<1> DEFINE f == Filter(active, pending # NoUnit, chunk)
           units == UnitsAt(f.out)
<1>1. chunk \in Seq(Kinds) /\ Len(chunk) \in Nat
  BY ChunksAssumption
<1>2. /\ f.active \in BOOLEAN /\ f.out \in Seq(Nat)
      /\ (IF f.held = <<>> THEN NoUnit ELSE UnitAt(f.held[1])) \in Nat
  BY FilterFacts DEF ReadersIInv, StreamTypeOK
<1>0. PICK cmp \in Compared(f, Len(chunk)) :
        /\ WakeUnless(f.out = <<>> /\ ~KeptWhole(f, cmp))
        /\ IF ~KeptWhole(f, cmp) /\ GoesLive(f, cmp)
           THEN EnqueueLive(Live(emitted, emitted + Len(chunk)))
           ELSE UNCHANGED <<queue, stage>>
        /\ slipped' = slipped \cup Slips(f, Len(chunk), cmp)
  BY DEF OutputPTY
<1> DEFINE keep == f.out = <<>> /\ ~KeptWhole(f, cmp)
<1>3. /\ active' = f.active
      /\ pending' = IF f.held = <<>> THEN NoUnit ELSE UnitAt(f.held[1])
      /\ AppendHistory(units) /\ WakeUnless(keep)
      /\ \/ EnqueueLive(Live(emitted, emitted + Len(chunk)))
         \/ UNCHANGED <<queue, stage>>
  BY <1>0 DEF OutputPTY
<1>4. UNCHANGED <<initial, cursor, writer, opened, got>> /\ pty' = pty
      /\ emitted' = emitted + Len(chunk) /\ split' \in BOOLEAN
  BY DEF OutputPTY
<1> HIDE DEF f
<1>5. units \in Seq(Nat) /\ Len(units) = Len(f.out)
  BY <1>2, UnitFacts DEF ReadersIInv, StreamTypeOK
<1>6. keep \in BOOLEAN /\ (keep => units = <<>>)
  BY <1>2, <1>5
<1>7. emitted \in Nat /\ emitted' \in Nat /\ emitted + Len(chunk) \in Nat /\ pty' \in BOOLEAN
  BY <1>1, <1>4 DEF ReadersIInv, StreamTypeOK
<1>10. slipped' \in SUBSET Nat
  <2>1. slipped \in SUBSET Nat
    BY DEF ReadersIInv, StreamTypeOK
  <2>2. Slips(f, Len(chunk), cmp) \in SUBSET Nat
    BY <1>1, <1>7 DEF Slips
  <2> QED BY <1>0, <2>1, <2>2
<1>8. active' \in BOOLEAN /\ pending' \in Nat
  BY <1>2, <1>3
<1>9. \/ UNCHANGED <<queue, stage>>
      \/ \E lo, hi \in Nat : EnqueueLive(Live(lo, hi))
  BY <1>3, <1>7
<1> HIDE DEF units, keep
<1> QED
  BY <1>3, <1>4, <1>5, <1>6, <1>7, <1>8, <1>9, <1>10, OutputStep

LEMMA SystemMessageStep ==
    ASSUME ReadersIInv, SystemMessage
    PROVE  ReadersIInv'
<1>1. <<emitted + 1>> \in Seq(Nat)
  BY DEF ReadersIInv, StreamTypeOK
<1>2. /\ pty' \in BOOLEAN /\ active' \in BOOLEAN /\ pending' \in Nat
      /\ split' \in BOOLEAN /\ emitted' \in Nat /\ slipped' \in SUBSET Nat
  BY DEF SystemMessage, ReadersIInv, StreamTypeOK
<1>3. /\ AppendHistory(<<emitted + 1>>) /\ WakeUnless(FALSE)
      /\ UNCHANGED <<queue, stage>> /\ UNCHANGED <<initial, cursor, writer, opened, got>>
  BY DEF SystemMessage
<1> QED
  BY <1>1, <1>2, <1>3, OutputStep

LEMMA ResetStep ==
    ASSUME ReadersIInv, ResetScreen
    PROVE  ReadersIInv'
<1>1. StreamTypeOK'
  BY DEF ResetScreen, ReadersIInv, StreamTypeOK, NoUnit
<1>2. CursorsWithin' /\ GreetedFirst' /\ QueuesAreLive' /\ NoLostWakeup'
  BY DEF ResetScreen, ReadersIInv, CursorsWithin, GreetedFirst, QueuesAreLive,
         NoLostWakeup, Ready, EndSeq
<1>3. ReadBehindCursor' /\ HistoryInOrder' /\ NothingSilentlyLost'
  BY GotUnchanged DEF ResetScreen
<1> QED
  BY <1>1, <1>2, <1>3 DEF ReadersIInv

LEMMA GreetStep ==
    ASSUME ReadersIInv, NEW c \in Clients, Greet(c)
    PROVE  ReadersIInv'
<1> USE DEF ReadersIInv
<1>1. EndSeq \in Nat /\ EndSeq' = EndSeq /\ base' = base
  BY DEF StreamTypeOK, EndSeq, Greet, historyVars
<1>2. initial'[c].via = "snapshot" /\ initial'[c].hi = EndSeq
  BY DEF Greet, Snapshot, StreamTypeOK
<1>3. (IF pty /\ active THEN EndSeq ELSE base) \in Nat
  BY <1>1 DEF StreamTypeOK
<1>4. initial' \in [Clients -> Frame]
  BY <1>1, <1>3, FrameFacts DEF Greet, StreamTypeOK
<1>5. StreamTypeOK'
  BY <1>1, <1>4 DEF StreamTypeOK, Greet, Stages, CursorAtGreeting, outputVars, historyVars
<1>6. CursorsWithin'
  BY <1>1 DEF CursorsWithin, Greet, CursorAtGreeting, StreamTypeOK
<1>7. GreetedFirst'
  BY <1>2 DEF GreetedFirst, Greet, CursorAtGreeting, StreamTypeOK
<1>8. got[c] = <<>> /\ got' = got
  BY DEF GreetedFirst, Greet
<1>9. ReadBehindCursor'
  BY <1>8 DEF ReadBehindCursor, Greet, StreamTypeOK, OfHistory
<1>10. QueuesAreLive' /\ HistoryInOrder'
  BY <1>8 DEF QueuesAreLive, HistoryInOrder, Greet, OfHistory
<1>11. NoLostWakeup'
  BY <1>1 DEF NoLostWakeup, Ready, Greet, StreamTypeOK
<1>12. NothingSilentlyLost'
  BY <1>8 DEF NothingSilentlyLost, ToldOf, Greet, StreamTypeOK
<1> QED
  BY <1>5, <1>6, <1>7, <1>9, <1>10, <1>11, <1>12

\* What it means that one more frame is written to the terminal of c.
LEMMA OneMoreFrame ==
    ASSUME StreamTypeOK, NEW c \in Clients, NEW f \in Frame,
           got' = [got EXCEPT ![c] = Append(@, f)]
    PROVE  /\ got' \in [Clients -> Seq(Frame)]
           /\ Len(got[c]) \in Nat /\ DOMAIN got[c] = 1 .. Len(got[c])
           /\ DOMAIN got'[c] = 1 .. Len(got[c]) + 1
           /\ got'[c][Len(got[c]) + 1] = f
           /\ \A i \in DOMAIN got[c] : got'[c][i] = got[c][i]
           /\ got'[c] # <<>>
           /\ \A d \in Clients : d # c => got'[d] = got[d]
<1>1. got \in [Clients -> Seq(Frame)] /\ got[c] \in Seq(Frame)
  BY DEF StreamTypeOK
<1>2. got'[c] = Append(got[c], f)
  BY <1>1
<1>3. Append(got[c], f) \in Seq(Frame)
  BY <1>1
<1>4. got' \in [Clients -> Seq(Frame)]
  BY <1>1, <1>3
<1>5. \A d \in Clients : d # c => got'[d] = got[d]
  BY <1>1
<1>6. Len(got'[c]) = Len(got[c]) + 1 /\ Len(got[c]) \in Nat
  BY <1>1, <1>2
<1>7. /\ DOMAIN got[c] = 1 .. Len(got[c])
      /\ DOMAIN got'[c] = 1 .. Len(got[c]) + 1
      /\ got'[c][Len(got[c]) + 1] = f
      /\ \A i \in DOMAIN got[c] : got'[c][i] = got[c][i]
  BY <1>1, <1>2
<1>8. got'[c] # <<>>
  BY <1>6, <1>7
<1> QED
  BY <1>4, <1>5, <1>6, <1>7, <1>8

\* Every frame written before stays written: a told position stays told.
LEMMA ToldStays ==
    ASSUME StreamTypeOK, NEW c \in Clients, NEW f \in Frame,
           got' = [got EXCEPT ![c] = Append(@, f)]
    PROVE  \A d \in Clients, p \in Nat : ToldOf(d, p) => ToldOf(d, p)'
<1> SUFFICES ASSUME NEW d \in Clients, NEW p \in Nat, ToldOf(d, p)
             PROVE  ToldOf(d, p)'
  OBVIOUS
<1>1. PICK i \in DOMAIN got[d] :
          \/ got[d][i].via = "snapshot" /\ p <= got[d][i].hi
          \/ got[d][i].via = "history" /\ p <= got[d][i].hi
             /\ (got[d][i].lo < p \/ got[d][i].notice)
  BY DEF ToldOf
<1>2. i \in DOMAIN got'[d] /\ got'[d][i] = got[d][i]
  BY OneMoreFrame
<1> QED
  BY <1>1, <1>2 DEF ToldOf

\* The connection becomes attached, or ends.
LEMMA AttachStep ==
    ASSUME ReadersIInv, NEW c \in Clients, Attach(c) \/ Disconnect(c)
    PROVE  ReadersIInv'
<1> USE DEF ReadersIInv
<1>1. /\ stage' \in [Clients -> Stages]
      /\ \A d \in Clients : \/ stage'[d] = stage[d] \/ stage'[d] = "closed"
                            \/ stage'[d] = "attached" /\ stage[d] = "greeted"
  BY DEF Attach, Disconnect, StreamTypeOK, Stages
<1>2. UNCHANGED <<outputVars, historyVars, initial, cursor, wake, queue,
                  writer, opened, got>>
  BY DEF Attach, Disconnect
<1>3. StreamTypeOK'
  BY <1>1, <1>2 DEF StreamTypeOK, outputVars, historyVars
<1>4. CursorsWithin' /\ QueuesAreLive'
  BY <1>2 DEF CursorsWithin, QueuesAreLive, EndSeq, historyVars
<1>5. GreetedFirst'
  BY <1>1, <1>2 DEF GreetedFirst
<1>6. NoLostWakeup'
  BY <1>1, <1>2 DEF NoLostWakeup, Ready, EndSeq, historyVars
<1>7. ReadBehindCursor' /\ HistoryInOrder' /\ NothingSilentlyLost'
  BY <1>2, GotUnchanged
<1> QED
  BY <1>3, <1>4, <1>5, <1>6, <1>7

\* EnableTerminalHistory wakes the writer it makes ready.
LEMMA EnableStep ==
    ASSUME ReadersIInv, NEW c \in Clients, Enable(c)
    PROVE  ReadersIInv'
<1> USE DEF ReadersIInv
<1>1. UNCHANGED <<outputVars, historyVars, initial, cursor, queue, writer, got>>
  BY DEF Enable
<1>2. /\ stage' \in [Clients -> Stages] /\ wake' \in [Clients -> BOOLEAN]
      /\ opened' \in [Clients -> Nat]
  BY DEF Enable, StreamTypeOK, Stages
<1>3. StreamTypeOK'
  BY <1>1, <1>2 DEF StreamTypeOK, outputVars, historyVars
<1>4. CursorsWithin' /\ QueuesAreLive'
  BY <1>1 DEF CursorsWithin, QueuesAreLive, EndSeq, historyVars
<1>5. GreetedFirst'
  BY <1>1 DEF GreetedFirst, Enable, StreamTypeOK
<1>6. NoLostWakeup'
  BY <1>1 DEF NoLostWakeup, Ready, EndSeq, historyVars, Enable, StreamTypeOK
<1>7. ReadBehindCursor' /\ HistoryInOrder' /\ NothingSilentlyLost'
  BY <1>1, GotUnchanged
<1> QED
  BY <1>3, <1>4, <1>5, <1>6, <1>7

\* The copy of the history is the first frame, and ends at the cursor.
LEMMA SendInitialStep ==
    ASSUME ReadersIInv, NEW c \in Clients, SendInitial(c)
    PROVE  ReadersIInv'
<1> USE DEF ReadersIInv
<1> DEFINE f == initial[c]
<1>1. /\ f \in Frame /\ f.via = "snapshot" /\ f.hi = cursor[c]
      /\ got[c] = <<>> /\ cursor[c] \in Nat
  BY DEF SendInitial, GreetedFirst, StreamTypeOK
<1>2. got' = [got EXCEPT ![c] = Append(@, f)]
  BY DEF SendInitial
<1>3. UNCHANGED <<outputVars, historyVars, initial, cursor, wake, queue,
                  writer, opened>>
  BY DEF SendInitial
<1>4. /\ stage' \in [Clients -> Stages] /\ stage'[c] = "greeted"
      /\ \A d \in Clients : d # c => stage'[d] = stage[d]
  BY DEF SendInitial, StreamTypeOK, Stages
<1> HIDE DEF f
<1>5. /\ got' \in [Clients -> Seq(Frame)] /\ got'[c] # <<>>
      /\ DOMAIN got'[c] = 1 .. 1 /\ got'[c][1] = f
      /\ \A d \in Clients : d # c => got'[d] = got[d]
  <2>1. Len(got[c]) = 0
    BY <1>1
  <2>2. /\ got' \in [Clients -> Seq(Frame)] /\ got'[c] # <<>>
        /\ DOMAIN got'[c] = 1 .. Len(got[c]) + 1
        /\ got'[c][Len(got[c]) + 1] = f
        /\ \A d \in Clients : d # c => got'[d] = got[d]
    BY <1>1, <1>2, OneMoreFrame
  <2> QED
    BY <2>1, <2>2
<1>6. StreamTypeOK'
  BY <1>3, <1>4, <1>5 DEF StreamTypeOK, outputVars, historyVars
<1>7. CursorsWithin' /\ QueuesAreLive'
  BY <1>3 DEF CursorsWithin, QueuesAreLive, EndSeq, historyVars
<1>8. GreetedFirst'
  BY <1>3, <1>4, <1>5 DEF GreetedFirst
<1>9. NoLostWakeup'
  BY <1>3, <1>4 DEF NoLostWakeup, Ready, EndSeq, historyVars
<1>10. ReadBehindCursor'
  BY <1>1, <1>3, <1>5 DEF ReadBehindCursor, OfHistory
<1>11. HistoryInOrder'
  <2> SUFFICES ASSUME NEW d \in Clients, NEW i \in DOMAIN got'[d],
                      NEW j \in DOMAIN got'[d], i < j,
                      OfHistory(got'[d][i]), OfHistory(got'[d][j])
               PROVE  got'[d][i].hi <= got'[d][j].lo
    BY DEF HistoryInOrder, OfHistory
  <2>1. CASE d = c
    BY <1>5, <2>1
  <2>2. CASE d # c
    BY <1>5, <2>2 DEF HistoryInOrder
  <2> QED
    BY <2>1, <2>2
<1>12. NothingSilentlyLost'
  <2> SUFFICES ASSUME NEW d \in Clients, got'[d] # <<>>, NEW p \in 1 .. cursor[d]
               PROVE  ToldOf(d, p)'
    BY <1>3 DEF NothingSilentlyLost
  <2>1. CASE d = c
    BY <1>1, <1>5, <2>1 DEF ToldOf
  <2>2. CASE d # c
    BY SMTT(30), <1>5, <2>2 DEF NothingSilentlyLost, ToldOf
  <2> QED
    BY <2>1, <2>2
<1> QED
  BY <1>6, <1>7, <1>8, <1>9, <1>10, <1>11, <1>12

LEMMA WriterParksStep ==
    ASSUME ReadersIInv, NEW c \in Clients, WriterParks(c)
    PROVE  ReadersIInv'
<1> USE DEF ReadersIInv
<1>1. UNCHANGED <<outputVars, historyVars, stage, initial, cursor, wake, queue,
                  opened, got>>
  BY DEF WriterParks
<1>2. StreamTypeOK'
  BY <1>1 DEF WriterParks, StreamTypeOK, outputVars, historyVars
<1>3. CursorsWithin' /\ QueuesAreLive' /\ GreetedFirst' /\ NoLostWakeup'
  BY <1>1 DEF CursorsWithin, QueuesAreLive, GreetedFirst, NoLostWakeup, Ready,
              EndSeq, historyVars
<1>4. ReadBehindCursor' /\ HistoryInOrder' /\ NothingSilentlyLost'
  BY <1>1, GotUnchanged
<1> QED
  BY <1>2, <1>3, <1>4

\* A live frame comes between the frames of the history without moving them.
LEMMA WriterSendsStep ==
    ASSUME ReadersIInv, NEW c \in Clients, WriterSends(c)
    PROVE  ReadersIInv'
<1> USE DEF ReadersIInv
<1>1. queue[c] \in Seq(Frame) /\ queue[c] # <<>>
  BY DEF WriterSends, StreamTypeOK
<1>2. PICK f \in Frame : f = Head(queue[c])
  BY <1>1
<1>3. f.via = "live"
  BY <1>1, <1>2 DEF QueuesAreLive
<1>4. /\ got' = [got EXCEPT ![c] = Append(@, f)]
      /\ queue' = [queue EXCEPT ![c] = Tail(@)]
      /\ writer' = [writer EXCEPT ![c] = "top"]
      /\ UNCHANGED <<outputVars, historyVars, stage, initial, cursor, wake,
                     opened>>
      /\ Ready(c)
  BY <1>2 DEF WriterSends
<1>5. /\ got' \in [Clients -> Seq(Frame)]
      /\ Len(got[c]) \in Nat /\ DOMAIN got[c] = 1 .. Len(got[c])
      /\ DOMAIN got'[c] = 1 .. Len(got[c]) + 1
      /\ got'[c][Len(got[c]) + 1] = f
      /\ \A i \in DOMAIN got[c] : got'[c][i] = got[c][i]
      /\ got'[c] # <<>>
      /\ \A d \in Clients : d # c => got'[d] = got[d]
  BY <1>4, OneMoreFrame
<1>6. Tail(queue[c]) \in Seq(Frame)
  BY <1>1
<1>7. queue' \in [Clients -> Seq(Frame)]
  BY <1>4, <1>6 DEF StreamTypeOK
<1>8. StreamTypeOK'
  BY <1>4, <1>5, <1>7 DEF StreamTypeOK, outputVars, historyVars
<1>9. CursorsWithin' /\ NoLostWakeup'
  BY <1>4 DEF CursorsWithin, EndSeq, historyVars, NoLostWakeup, Ready
<1>10. QueuesAreLive'
  <2>1. \A i \in DOMAIN Tail(queue[c]) :
            i + 1 \in DOMAIN queue[c] /\ Tail(queue[c])[i] = queue[c][i + 1]
    BY <1>1
  <2>2. queue'[c] = Tail(queue[c]) /\ \A d \in Clients : d # c => queue'[d] = queue[d]
    BY <1>4 DEF StreamTypeOK
  <2> SUFFICES ASSUME NEW d \in Clients, NEW i \in DOMAIN queue'[d]
               PROVE  queue'[d][i].via = "live"
    BY DEF QueuesAreLive
  <2>3. CASE d = c
    <3>1. i + 1 \in DOMAIN queue[c] /\ queue'[c][i] = queue[c][i + 1]
      BY <2>1, <2>2, <2>3
    <3> QED
      BY <2>3, <3>1 DEF QueuesAreLive
  <2>4. CASE d # c
    BY <2>2, <2>4 DEF QueuesAreLive
  <2> QED
    BY <2>3, <2>4
<1>11. GreetedFirst'
  BY <1>4, <1>5 DEF GreetedFirst, Ready
<1>12. ReadBehindCursor'
  <2> SUFFICES ASSUME NEW d \in Clients, NEW i \in DOMAIN got'[d],
                      OfHistory(got'[d][i])
               PROVE  got'[d][i].hi <= cursor[d]
    BY <1>4 DEF ReadBehindCursor, OfHistory
  <2>1. CASE d = c
    <3>1. i \in DOMAIN got[c] /\ got'[c][i] = got[c][i]
      BY <1>3, <1>5, <2>1 DEF OfHistory
    <3> QED
      BY <2>1, <3>1 DEF ReadBehindCursor
  <2>2. CASE d # c
    BY <1>5, <2>2 DEF ReadBehindCursor
  <2> QED
    BY <2>1, <2>2
<1>13. HistoryInOrder'
  <2> SUFFICES ASSUME NEW d \in Clients, NEW i \in DOMAIN got'[d],
                      NEW j \in DOMAIN got'[d], i < j,
                      OfHistory(got'[d][i]), OfHistory(got'[d][j])
               PROVE  got'[d][i].hi <= got'[d][j].lo
    BY DEF HistoryInOrder, OfHistory
  <2>1. CASE d = c
    <3>1. /\ i \in DOMAIN got[c] /\ got'[c][i] = got[c][i]
          /\ j \in DOMAIN got[c] /\ got'[c][j] = got[c][j]
      BY <1>3, <1>5, <2>1 DEF OfHistory
    <3> QED
      BY <2>1, <3>1 DEF HistoryInOrder
  <2>2. CASE d # c
    BY <1>5, <2>2 DEF HistoryInOrder
  <2> QED
    BY <2>1, <2>2
<1>14. NothingSilentlyLost'
  <2>1. \A d \in Clients, p \in Nat : ToldOf(d, p) => ToldOf(d, p)'
    BY <1>4, ToldStays
  <2>2. \A d \in Clients : got'[d] # <<>> => got[d] # <<>>
    BY <1>4, <1>5 DEF GreetedFirst, Ready
  <2>3. \A d \in Clients : \A p \in 1 .. cursor[d] : p \in Nat
    BY DEF StreamTypeOK
  <2> QED
    BY <1>4, <2>1, <2>2, <2>3 DEF NothingSilentlyLost
<1> QED
  BY <1>8, <1>9, <1>10, <1>11, <1>12, <1>13, <1>14

\* A flush starts where the last one ended, or behind the gap it announces,
\* and leaves a wake-up if it could not take all.
LEMMA FlushFacts ==
    ASSUME ReadersIInv, NEW c \in Clients, cursor[c] < EndSeq
    PROVE  /\ ReadFrom(c) \in Nat /\ ReadUpTo(c) \in Nat
           /\ cursor[c] <= ReadFrom(c) /\ ReadFrom(c) <= ReadUpTo(c)
           /\ ReadUpTo(c) <= EndSeq
           /\ Dropped(c) <=> cursor[c] < ReadFrom(c)
           /\ More(c) <=> ReadUpTo(c) < EndSeq
           /\ Dropped(c) \in BOOLEAN
<1>1. cursor[c] \in Nat /\ base \in Nat /\ base <= EndSeq /\ EndSeq \in Nat
  BY DEF ReadersIInv, StreamTypeOK, CursorsWithin, EndSeq
<1>2. /\ ReadFrom(c) \in Nat /\ cursor[c] <= ReadFrom(c)
      /\ ReadFrom(c) <= EndSeq
      /\ Dropped(c) <=> cursor[c] < ReadFrom(c)
  BY <1>1 DEF ReadFrom, Dropped
<1>3. /\ ReadUpTo(c) \in Nat /\ ReadFrom(c) <= ReadUpTo(c)
      /\ ReadUpTo(c) <= EndSeq
  <2> HIDE DEF ReadFrom
  <2> QED
    BY <1>1, <1>2, FrameMaxAssumption DEF ReadUpTo
<1> QED
  BY <1>2, <1>3 DEF More, Dropped

LEMMA WriterFlushesStep ==
    ASSUME ReadersIInv, NEW c \in Clients, WriterFlushes(c)
    PROVE  ReadersIInv'
<1> USE DEF ReadersIInv
<1>1. /\ Ready(c) /\ writer' = [writer EXCEPT ![c] = "top"]
      /\ UNCHANGED <<outputVars, historyVars, stage, initial, queue, opened>>
  BY DEF WriterFlushes
<1>2. CASE ~(cursor[c] < EndSeq)
  <2>1. /\ wake' = [wake EXCEPT ![c] = FALSE]
        /\ UNCHANGED <<got, cursor>>
    BY <1>2 DEF WriterFlushes
  <2>2. StreamTypeOK'
    BY <1>1, <2>1 DEF StreamTypeOK, outputVars, historyVars
  <2>3. CursorsWithin' /\ QueuesAreLive' /\ GreetedFirst'
    BY <1>1, <2>1 DEF CursorsWithin, QueuesAreLive, GreetedFirst, EndSeq, historyVars
  <2>4. NoLostWakeup'
    BY <1>1, <1>2, <2>1 DEF NoLostWakeup, Ready, EndSeq, historyVars, StreamTypeOK
  <2>5. ReadBehindCursor' /\ HistoryInOrder' /\ NothingSilentlyLost'
    BY <2>1, GotUnchanged
  <2> QED
    BY <2>2, <2>3, <2>4, <2>5
<1>3. CASE cursor[c] < EndSeq
  <2>1. PICK from \in Nat, to \in Nat, told \in BOOLEAN :
            /\ from = ReadFrom(c) /\ to = ReadUpTo(c) /\ told = Dropped(c)
            /\ cursor[c] <= from /\ from <= to /\ to <= EndSeq
            /\ told <=> cursor[c] < from
            /\ More(c) <=> to < EndSeq
    BY <1>3, FlushFacts
  <2> DEFINE frame == [via |-> "history", lo |-> from, hi |-> to, notice |-> told]
  <2>2. PICK f \in Frame : f = frame
    BY FrameFacts
  <2>3. f.via = "history" /\ f.lo = from /\ f.hi = to /\ f.notice = told
    BY <2>2
  <2>4. /\ got' = [got EXCEPT ![c] = Append(@, f)]
        /\ cursor' = [cursor EXCEPT ![c] = to]
        /\ wake' = [wake EXCEPT ![c] = More(c)]
    BY <1>3, <2>1, <2>2 DEF WriterFlushes
  <2> HIDE DEF frame
  <2>5. /\ got' \in [Clients -> Seq(Frame)]
        /\ Len(got[c]) \in Nat /\ DOMAIN got[c] = 1 .. Len(got[c])
        /\ DOMAIN got'[c] = 1 .. Len(got[c]) + 1
        /\ got'[c][Len(got[c]) + 1] = f
        /\ \A i \in DOMAIN got[c] : got'[c][i] = got[c][i]
        /\ got'[c] # <<>>
        /\ \A d \in Clients : d # c => got'[d] = got[d]
    BY <2>4, OneMoreFrame
  <2>6. /\ cursor' \in [Clients -> Nat] /\ cursor'[c] = to
        /\ \A d \in Clients : d # c => cursor'[d] = cursor[d]
        /\ cursor[c] \in Nat
    BY <2>4 DEF StreamTypeOK
  <2>7. wake' \in [Clients -> BOOLEAN]
    <3>1. More(c) \in BOOLEAN
      BY DEF More
    <3> QED
      BY <2>4, <3>1 DEF StreamTypeOK
  <2>8. StreamTypeOK'
    BY <1>1, <2>5, <2>6, <2>7 DEF StreamTypeOK, outputVars, historyVars
  <2>9. CursorsWithin'
    BY <1>1, <2>1, <2>6 DEF CursorsWithin, EndSeq, historyVars
  <2>10. QueuesAreLive'
    BY <1>1 DEF QueuesAreLive
  <2>11. GreetedFirst'
    BY <1>1, <2>5, <2>6 DEF GreetedFirst, Ready
  <2>12. NoLostWakeup'
    BY <1>1, <2>1, <2>4, <2>6 DEF NoLostWakeup, Ready, EndSeq, historyVars,
                                  StreamTypeOK
  <2>13. \A i \in DOMAIN got[c] : OfHistory(got[c][i]) => got[c][i].hi <= from
    <3> SUFFICES ASSUME NEW i \in DOMAIN got[c], OfHistory(got[c][i])
                 PROVE  got[c][i].hi <= from
      OBVIOUS
    <3>1. got[c][i] \in Frame
      BY <2>5 DEF StreamTypeOK
    <3>2. got[c][i].hi \in Nat /\ got[c][i].hi <= cursor[c]
      BY <3>1, FrameFacts DEF ReadBehindCursor
    <3> QED
      BY <2>1, <2>6, <3>2
  <2>14. ReadBehindCursor'
    <3> SUFFICES ASSUME NEW d \in Clients, NEW i \in DOMAIN got'[d],
                        OfHistory(got'[d][i])
                 PROVE  got'[d][i].hi <= cursor'[d]
      BY DEF ReadBehindCursor, OfHistory
    <3>1. CASE d # c
      BY <2>5, <2>6, <3>1 DEF ReadBehindCursor
    <3>2. CASE d = c /\ i = Len(got[c]) + 1
      BY <2>3, <2>5, <2>6, <3>2
    <3>3. CASE d = c /\ i \in DOMAIN got[c]
      <4>1. got[c][i].hi <= from /\ got'[c][i] = got[c][i]
        BY <2>5, <2>13, <3>3
      <4>2. got[c][i].hi \in Nat
        BY <3>3, FrameFacts DEF StreamTypeOK
      <4> QED
        BY <2>1, <2>6, <3>3, <4>1, <4>2
    <3> QED
      BY <2>5, <3>1, <3>2, <3>3
  <2>15. HistoryInOrder'
    <3> SUFFICES ASSUME NEW d \in Clients, NEW i \in DOMAIN got'[d],
                        NEW j \in DOMAIN got'[d], i < j,
                        OfHistory(got'[d][i]), OfHistory(got'[d][j])
                 PROVE  got'[d][i].hi <= got'[d][j].lo
      BY DEF HistoryInOrder, OfHistory
    <3>1. CASE d # c
      BY <2>5, <3>1 DEF HistoryInOrder
    <3>2. CASE d = c /\ j \in DOMAIN got[c]
      <4>1. i \in DOMAIN got[c]
        BY <2>5, <3>2
      <4> QED
        BY <2>5, <3>2, <4>1 DEF HistoryInOrder
    <3>3. CASE d = c /\ j = Len(got[c]) + 1
      <4>1. i \in DOMAIN got[c] /\ got'[c][i] = got[c][i]
        BY <2>5, <3>3
      <4> QED
        BY <2>3, <2>5, <2>13, <3>3, <4>1
    <3> QED
      BY <2>5, <3>1, <3>2, <3>3
  <2>16. NothingSilentlyLost'
    <3> SUFFICES ASSUME NEW d \in Clients, got'[d] # <<>>, NEW p \in 1 .. cursor'[d]
                 PROVE  ToldOf(d, p)'
      BY DEF NothingSilentlyLost
    <3>1. p \in Nat /\ p >= 1
      BY <2>6
    <3>2. CASE p <= cursor[d] /\ got[d] # <<>>
      <4>1. p \in 1 .. cursor[d]
        BY <3>1, <3>2 DEF StreamTypeOK
      <4>2. ToldOf(d, p)
        BY <3>2, <4>1 DEF NothingSilentlyLost
      <4> QED
        BY <2>4, <3>1, <4>2, ToldStays
    <3>3. CASE d # c
      BY <2>5, <2>6, <3>2, <3>3
    <3>4. CASE d = c /\ ~(p <= cursor[c])
      <4>1. p <= to
        BY <2>6, <3>4
      <4>2. from < p \/ told
        BY <2>1, <2>6, <3>1, <3>4
      <4> QED
        BY <2>3, <2>5, <3>4, <4>1, <4>2 DEF ToldOf
    <3>5. got[c] # <<>>
      BY <1>1 DEF GreetedFirst, Ready
    <3> QED
      BY <3>2, <3>3, <3>4, <3>5
  <2> QED
    BY <2>8, <2>9, <2>10, <2>11, <2>12, <2>14, <2>15, <2>16
<1> QED
  BY <1>2, <1>3

LEMMA StreamStutter ==
    ASSUME ReadersIInv, UNCHANGED streamVars
    PROVE  ReadersIInv'
<1> USE DEF ReadersIInv, streamVars
<1>1. StreamTypeOK'
  BY DEF StreamTypeOK
<1>2. CursorsWithin' /\ QueuesAreLive' /\ GreetedFirst' /\ NoLostWakeup'
  BY DEF CursorsWithin, QueuesAreLive, GreetedFirst, NoLostWakeup, Ready, EndSeq
<1>3. ReadBehindCursor' /\ HistoryInOrder' /\ NothingSilentlyLost'
  BY GotUnchanged
<1> QED
  BY <1>1, <1>2, <1>3

-----------------------------------------------------------------------------

\* The cursors, the copies and the wake-ups agree, for any clients, chunks and
\* capacities.
LEMMA ReadersInvariant == StreamSpec => []ReadersIInv
<1>1. StreamInit => ReadersIInv
  BY StreamStart
<1>2. ReadersIInv /\ [StreamNext]_streamVars => ReadersIInv'
  <2> SUFFICES ASSUME ReadersIInv, [StreamNext]_streamVars
               PROVE  ReadersIInv'
    OBVIOUS
  <2>1. CASE Output
    BY <2>1, PlainStep, PTYStep DEF Output
  <2>2. CASE SystemMessage
    BY <2>2, SystemMessageStep
  <2>3. CASE ResetScreen
    BY <2>3, ResetStep
  <2>4. CASE \E c \in Clients : ClientStep(c)
    BY <2>4, GreetStep, SendInitialStep, AttachStep, EnableStep DEF ClientStep
  <2>5. CASE \E c \in Clients : WriterStep(c)
    BY <2>5, WriterParksStep, WriterSendsStep, WriterFlushesStep DEF WriterStep
  <2>6. CASE UNCHANGED streamVars
    BY <2>6, StreamStutter
  <2> QED
    BY <2>1, <2>2, <2>3, <2>4, <2>5, <2>6 DEF StreamNext
<1> QED
  BY <1>1, <1>2, PTL DEF StreamSpec

\* wakeTerminalClientsLocked, EnableTerminalHistory and the request for another
\* flush leave no writer asleep while its terminal is behind.
THEOREM WritersNeverSleep == StreamSpec => []NoLostWakeup
<1>1. ReadersIInv => NoLostWakeup
  BY DEF ReadersIInv
<1> QED
  BY <1>1, ReadersInvariant, PTL

\* The copy of SendInitialTerminal and the flushes after it hand a terminal
\* every position of the history at most once, and in order.
THEOREM HistoryIsInOrder == StreamSpec => []HistoryInOrder
<1>1. ReadersIInv => HistoryInOrder
  BY DEF ReadersIInv
<1> QED
  BY <1>1, ReadersInvariant, PTL

\* A terminal too slow for the bounded history is told of what it misses.
THEOREM GapsAreTold == StreamSpec => []NothingSilentlyLost
<1>1. ReadersIInv => NothingSilentlyLost
  BY DEF ReadersIInv
<1> QED
  BY <1>1, ReadersInvariant, PTL

-----------------------------------------------------------------------------
(* What is in the history is there once, and what is not reaches the ready  *)
(* clients.                                                                 *)

\* What the steps put out, for both: nothing or an append of numbered units.
LEMMA LogGrows ==
    ASSUME log \in Seq(Nat), NEW units \in Seq(Nat), log' = log \o units
    PROVE  /\ Len(log) \in Nat /\ Len(units) \in Nat
           /\ \A i \in DOMAIN log : i \in DOMAIN log' /\ log'[i] = log[i]
           /\ \A k \in DOMAIN units : /\ Len(log) + k \in DOMAIN log'
                                      /\ log'[Len(log) + k] = units[k]
           /\ \A i \in DOMAIN log' : \/ i \in DOMAIN log
                                     \/ i - Len(log) \in DOMAIN units
<1>1. /\ Len(log) \in Nat /\ Len(units) \in Nat
      /\ DOMAIN log = 1 .. Len(log) /\ DOMAIN units = 1 .. Len(units)
  OBVIOUS
<1>2. /\ Len(log') = Len(log) + Len(units) /\ DOMAIN log' = 1 .. Len(log')
      /\ \A i \in 1 .. Len(log') : log'[i] = IF i <= Len(log) THEN log[i]
                                            ELSE units[i - Len(log)]
  BY ConcatProperties
<1> QED BY <1>1, <1>2

LEMMA OnceGrows ==
    ASSUME StreamTypeOK, UnitsOnce, emitted' \in Nat, emitted <= emitted',
           NEW units \in Seq(Nat), log' = log \o units,
           \A k \in DOMAIN units : \/ units[k] \in emitted + 1 .. emitted'
                                   \/ units[k] = pending /\ pending # NoUnit,
           \A j, k \in DOMAIN units : units[j] = units[k] => j = k,
           pending' # NoUnit =>
              /\ pending' = pending \/ pending' \in emitted + 1 .. emitted'
              /\ \A k \in DOMAIN units : units[k] # pending'
    PROVE  UnitsOnce'
<1>1. /\ log \in Seq(Nat) /\ emitted \in Nat /\ pending \in Nat
      /\ DOMAIN log = 1 .. Len(log)
  BY DEF StreamTypeOK
<1>2. /\ Len(log) \in Nat /\ Len(units) \in Nat
      /\ \A i \in DOMAIN log : i \in DOMAIN log' /\ log'[i] = log[i]
      /\ \A k \in DOMAIN units : /\ Len(log) + k \in DOMAIN log'
                                 /\ log'[Len(log) + k] = units[k]
      /\ \A i \in DOMAIN log' : \/ i \in DOMAIN log
                                \/ i - Len(log) \in DOMAIN units
  BY <1>1, LogGrows
<1>3. DOMAIN log' \subseteq Nat
  <2>1. log' \in Seq(Nat)
    BY <1>1, ConcatProperties
  <2> QED BY <2>1
<1>4. \A i \in DOMAIN log' :
        \/ i \in DOMAIN log /\ log'[i] = log[i]
        \/ \E k \in DOMAIN units : i = Len(log) + k /\ log'[i] = units[k]
  <2> SUFFICES ASSUME NEW i \in DOMAIN log', i \notin DOMAIN log
               PROVE  \E k \in DOMAIN units : i = Len(log) + k /\ log'[i] = units[k]
    BY <1>2
  <2>1. i - Len(log) \in DOMAIN units /\ i = Len(log) + (i - Len(log))
    BY <1>2, <1>3
  <2> QED BY <1>2, <2>1
<1>5. \A i \in DOMAIN log : log[i] \in 1 .. emitted /\ (pending # NoUnit => log[i] # pending)
  BY DEF UnitsOnce
<1>6. pending # NoUnit => pending \in 1 .. emitted
  BY <1>1 DEF UnitsOnce, NoUnit
<1>7. \A i \in DOMAIN log' : log'[i] \in 1 .. emitted'
  BY SMTT(30), <1>1, <1>4, <1>5, <1>6
<1>8. ASSUME NEW i \in DOMAIN log', NEW j \in DOMAIN log', log'[i] = log'[j]
      PROVE  i = j
  <2>1. CASE i \in DOMAIN log /\ j \in DOMAIN log
    BY <1>2, <1>8, <2>1 DEF UnitsOnce
  <2>2. ASSUME NEW a \in DOMAIN log, NEW k \in DOMAIN units
        PROVE  log[a] # units[k]
    <3>1. log[a] \in Nat /\ log[a] <= emitted /\ (pending # NoUnit => log[a] # pending)
      BY <1>1, <1>5
    <3>2. \/ units[k] \in Nat /\ emitted + 1 <= units[k]
          \/ units[k] = pending /\ pending # NoUnit
      BY <1>1
    <3> QED BY <1>1, <3>1, <3>2
  <2>3. CASE i \notin DOMAIN log /\ j \notin DOMAIN log
    BY SMTT(30), <1>4, <1>8, <2>3
  <2> QED BY <1>4, <1>8, <2>1, <2>2, <2>3
<1>9. pending' # NoUnit => pending' <= emitted' /\ \A i \in DOMAIN log' : log'[i] # pending'
  <2>1. \A i \in DOMAIN log : pending' # NoUnit => log[i] # pending'
    BY <1>1, <1>5
  <2>2. pending' # NoUnit => pending' <= emitted'
    BY <1>1, <1>6
  <2> QED BY <1>4, <2>1, <2>2
<1> QED BY <1>7, <1>8, <1>9 DEF UnitsOnce

LEMMA OnceStart == StreamInit => UnitsOnce
BY DEF StreamInit, UnitsOnce, NoUnit

LEMMA OncePlain ==
    ASSUME StreamTypeOK, UnitsOnce, NEW chunk \in Chunks, OutputPlain(chunk)
    PROVE  UnitsOnce'
<1> DEFINE places == [i \in DOMAIN chunk |-> i]
           units == UnitsAt(places)
<1>1. /\ chunk \in Seq(Kinds) /\ Len(chunk) \in Nat /\ DOMAIN chunk = 1 .. Len(chunk)
      /\ emitted \in Nat /\ pending \in Nat
  BY ChunksAssumption DEF StreamTypeOK
<1>2. places \in Seq(Nat)
  BY <1>1
<1>3. units \in Seq(Nat)
  BY <1>1, <1>2, UnitFacts
<1>4. DOMAIN units = 1 .. Len(chunk) /\ \A k \in DOMAIN units : units[k] = emitted + k
  BY <1>1 DEF UnitsAt, UnitAt
<1> HIDE DEF places
<1>5. log' = log \o units /\ emitted' = emitted + Len(chunk) /\ pending' = pending
  BY DEF OutputPlain, AppendHistory, places
<1> HIDE DEF units
<1>6. emitted' \in Nat /\ emitted <= emitted'
  BY <1>1, <1>5
<1>7. \A k \in DOMAIN units : units[k] \in emitted + 1 .. emitted'
  BY <1>1, <1>4, <1>5
<1>8. \A j, k \in DOMAIN units : units[j] = units[k] => j = k
  BY <1>1, <1>4
<1>9. pending' # NoUnit => \A k \in DOMAIN units : units[k] # pending'
  BY <1>1, <1>5, <1>7 DEF UnitsOnce
<1> QED BY <1>3, <1>5, <1>6, <1>7, <1>8, <1>9, OnceGrows

\* The places of a chunk name different units.
LEMMA PlacesDiffer ==
    ASSUME StreamTypeOK, UnitsOnce, NEW n \in Nat
    PROVE  /\ \A i \in 0 .. n : i # 0 => UnitAt(i) \in emitted + 1 .. emitted + n
           /\ \A i, j \in 0 .. n :
                (pending # NoUnit \/ (i # 0 /\ j # 0)) /\ i < j => UnitAt(i) < UnitAt(j)
<1>1. emitted \in Nat /\ pending \in Nat /\ (pending # NoUnit => pending <= emitted)
  BY DEF StreamTypeOK, UnitsOnce
<1> QED BY <1>1 DEF UnitAt

LEMMA OncePTY ==
    ASSUME StreamTypeOK, UnitsOnce, NEW chunk \in Chunks, OutputPTY(chunk)
    PROVE  UnitsOnce'
<1> DEFINE h == pending # NoUnit
           f == Filter(active, h, chunk)
           units == UnitsAt(f.out)
           n == Len(chunk)
<1>1. /\ chunk \in Seq(Kinds) /\ n \in Nat /\ emitted \in Nat /\ pending \in Nat
      /\ active \in BOOLEAN /\ h \in BOOLEAN
  BY ChunksAssumption DEF StreamTypeOK
<1>2. Sorted(f, n, h)
  BY <1>1, FilterSorts
<1>3. /\ pending' = IF f.held = <<>> THEN NoUnit ELSE UnitAt(f.held[1])
      /\ log' = log \o units
      /\ emitted' = emitted + n
  BY DEF OutputPTY, AppendHistory
<1> HIDE DEF f, n
<1>4. f.out \in Seq(Nat) /\ f.held \in Seq(Nat) /\ DOMAIN f.out = 1 .. Len(f.out)
  BY <1>2 DEF Sorted, Filtered
<1>5. /\ units \in Seq(Nat) /\ DOMAIN units = DOMAIN f.out
      /\ \A k \in DOMAIN units : units[k] = UnitAt(f.out[k])
  BY <1>1, <1>4, UnitFacts DEF UnitsAt
<1> HIDE DEF units
<1>6. /\ \A k \in DOMAIN f.out : f.out[k] \in 0 .. n /\ (f.out[k] = 0 => h)
      /\ \A j, k \in DOMAIN f.out : j < k => f.out[j] < f.out[k]
      /\ f.held # <<>> => /\ f.held[1] \in 0 .. n /\ (f.held[1] = 0 => h)
                          /\ \A k \in DOMAIN f.out : f.out[k] < f.held[1]
  <2>1. /\ \A k \in DOMAIN f.out : f.out[k] <= n /\ (f.out[k] = 0 => h)
        /\ \A j, k \in DOMAIN f.out : j < k => f.out[j] < f.out[k]
        /\ f.held # <<>> => /\ f.held[1] <= n /\ (f.held[1] = 0 => h)
                            /\ \A k \in DOMAIN f.out : f.out[k] < f.held[1]
    BY <1>2 DEF Sorted
  <2>2. \A k \in DOMAIN f.out : f.out[k] \in Nat
    BY <1>4
  <2>3. f.held # <<>> => f.held[1] \in Nat
    BY <1>4
  <2> QED BY <1>1, <2>1, <2>2, <2>3
<1>7. /\ \A i \in 0 .. n : i # 0 => UnitAt(i) \in emitted + 1 .. emitted'
      /\ \A i, j \in 0 .. n : (h \/ (i # 0 /\ j # 0)) /\ i < j => UnitAt(i) < UnitAt(j)
      /\ UnitAt(0) = pending
      /\ \A i \in 0 .. n : UnitAt(i) \in Nat
  <2>1. \A i \in Nat : UnitAt(i) \in Nat
    BY <1>1 DEF UnitAt
  <2>2. UnitAt(0) = pending
    BY DEF UnitAt
  <2>3. /\ \A i \in 0 .. n : i # 0 => UnitAt(i) \in emitted + 1 .. emitted + n
        /\ \A i, j \in 0 .. n :
             (pending # NoUnit \/ (i # 0 /\ j # 0)) /\ i < j => UnitAt(i) < UnitAt(j)
    BY <1>1, PlacesDiffer
  <2>4. \A i \in 0 .. n : i \in Nat
    BY <1>1
  <2> QED BY <1>3, <2>1, <2>2, <2>3, <2>4
<1>8. emitted' \in Nat /\ emitted <= emitted'
  BY <1>1, <1>3
<1>9. \A k \in DOMAIN units : \/ units[k] \in emitted + 1 .. emitted'
                              \/ units[k] = pending /\ pending # NoUnit
  BY <1>5, <1>6, <1>7
<1>10. \A j, k \in DOMAIN units : j < k => units[j] < units[k]
  <2> SUFFICES ASSUME NEW j \in DOMAIN f.out, NEW k \in DOMAIN f.out, j < k
               PROVE  UnitAt(f.out[j]) < UnitAt(f.out[k])
    BY <1>5
  <2>1. f.out[j] < f.out[k] /\ f.out[j] \in 0 .. n /\ f.out[k] \in 0 .. n
    BY <1>6
  <2>2. h \/ (f.out[j] # 0 /\ f.out[k] # 0)
    BY <1>6
  <2> QED BY <1>7, <2>1, <2>2
<1>11. \A j, k \in DOMAIN units : units[j] = units[k] => j = k
  <2>1. \A j \in DOMAIN units : units[j] \in Nat /\ j \in Nat
    BY SMTT(30), <1>4, <1>5, <1>6, <1>7
  <2> QED BY <1>10, <2>1
<1>12. ASSUME pending' # NoUnit
       PROVE  /\ pending' = pending \/ pending' \in emitted + 1 .. emitted'
              /\ \A k \in DOMAIN units : units[k] # pending'
  <2>1. f.held # <<>> /\ pending' = UnitAt(f.held[1])
    BY <1>3, <1>12
  <2>2. /\ f.held[1] \in 0 .. n /\ (f.held[1] = 0 => h)
        /\ \A k \in DOMAIN f.out : f.out[k] < f.held[1]
    BY <1>6, <2>1
  <2>3. pending' = pending \/ pending' \in emitted + 1 .. emitted'
    BY <1>7, <2>1, <2>2
  <2>4. ASSUME NEW k \in DOMAIN f.out
        PROVE  UnitAt(f.out[k]) < UnitAt(f.held[1])
    <3>1. f.out[k] \in 0 .. n /\ f.out[k] < f.held[1] /\ (f.out[k] = 0 => h)
      BY <1>6, <2>2
    <3>2. h \/ (f.out[k] # 0 /\ f.held[1] # 0)
      BY <2>2, <3>1
    <3> QED BY <1>7, <2>2, <3>1, <3>2
  <2>5. \A k \in DOMAIN f.out : UnitAt(f.out[k]) \in Nat
    BY <1>6, <1>7
  <2> QED BY <1>5, <1>7, <2>1, <2>2, <2>3, <2>4, <2>5
<1> QED BY <1>3, <1>5, <1>8, <1>9, <1>11, <1>12, OnceGrows

LEMMA OnceSystem ==
    ASSUME StreamTypeOK, UnitsOnce, SystemMessage
    PROVE  UnitsOnce'
<1> DEFINE units == <<emitted + 1>>
<1>1. emitted \in Nat /\ pending \in Nat
  BY DEF StreamTypeOK
<1>2. /\ log' = log \o units /\ emitted' = emitted + 1 /\ pending' = pending
  BY DEF SystemMessage, AppendHistory
<1>3. units \in Seq(Nat) /\ DOMAIN units = {1} /\ units[1] = emitted + 1
  BY <1>1
<1>4. emitted' \in Nat /\ emitted <= emitted' /\ emitted + 1 \in emitted + 1 .. emitted'
  BY <1>1, <1>2
<1>5. pending' # NoUnit => pending' # emitted + 1
  BY <1>1, <1>2 DEF UnitsOnce
<1> HIDE DEF units
<1> QED BY <1>2, <1>3, <1>4, <1>5, OnceGrows

\* Nothing else puts anything out.
LEMMA OnceElse ==
    ASSUME UnitsOnce, log' = log, emitted' = emitted,
           pending' \in {pending, NoUnit}
    PROVE  UnitsOnce'
BY DEF UnitsOnce

\* A unit gets into the history once: the filter keeps every place of a chunk
\* at most once and in order, and a half is either held back or kept.
THEOREM HistoryHasItOnce == StreamSpec => []UnitsOnce
<1>1. StreamTypeOK /\ UnitsOnce /\ [StreamNext]_streamVars => UnitsOnce'
  <2> SUFFICES ASSUME StreamTypeOK, UnitsOnce, [StreamNext]_streamVars
               PROVE  UnitsOnce'
    OBVIOUS
  <2>1. CASE Output
    BY <2>1, OncePlain, OncePTY DEF Output
  <2>2. CASE SystemMessage
    BY <2>2, OnceSystem
  <2>3. CASE ResetScreen
    BY <2>3, OnceElse DEF ResetScreen
  <2>4. CASE \E c \in Clients : ClientStep(c)
    BY <2>4, OnceElse DEF ClientStep, Greet, SendInitial, Attach, Enable,
                          Disconnect, outputVars, historyVars
  <2>5. CASE \E c \in Clients : WriterStep(c)
    BY <2>5, OnceElse DEF WriterStep, WriterParks, WriterSends, WriterFlushes,
                          outputVars, historyVars
  <2>6. CASE UNCHANGED streamVars
    BY <2>6, OnceElse DEF streamVars
  <2> QED
    BY <2>1, <2>2, <2>3, <2>4, <2>5, <2>6 DEF StreamNext
<1>2. ReadersIInv => StreamTypeOK
  BY DEF ReadersIInv
<1> QED
  BY <1>1, <1>2, OnceStart, ReadersInvariant, PTL DEF StreamSpec

\* The cursors, the copies and the wake-ups of the terminal clients
\* (process_client.go) agree with the history (terminal_history.go) in every
\* reachable state, and the history with what was put out, for any clients,
\* chunks and capacities.
THEOREM StreamInvariant == StreamSpec => []StreamIInv
<1>1. ReadersIInv /\ UnitsOnce => StreamIInv
  BY DEF StreamIInv
<1> QED
  BY <1>1, ReadersInvariant, HistoryHasItOnce, PTL

\* A unit that is on its way or written stays so.
LEMMA StillDelivered ==
    ASSUME NEW c \in Clients, NEW n \in Nat, Delivered(c, n),
           \A i \in DOMAIN log : i \in DOMAIN log' /\ log'[i] = log[i],
           \A i \in DOMAIN got[c] : i \in DOMAIN got'[c] /\ got'[c][i] = got[c][i],
           \A i \in DOMAIN queue[c] :
              \/ \E j \in DOMAIN queue'[c] : queue'[c][j] = queue[c][i]
              \/ \E j \in DOMAIN got'[c] : got'[c][j] = queue[c][i]
    PROVE  Delivered(c, n)'
<1>1. CASE \E i \in DOMAIN log : log[i] = n
  BY <1>1 DEF Delivered
<1>2. CASE \E i \in DOMAIN queue[c] : InLive(queue[c][i], n)
  <2>1. PICK i \in DOMAIN queue[c] : InLive(queue[c][i], n)
    BY <1>2
  <2>2. CASE \E j \in DOMAIN queue'[c] : queue'[c][j] = queue[c][i]
    BY <2>1, <2>2 DEF Delivered, InLive
  <2>3. CASE \E j \in DOMAIN got'[c] : got'[c][j] = queue[c][i]
    BY <2>1, <2>3 DEF Delivered, InLive
  <2> QED BY <2>1, <2>2, <2>3
<1>3. CASE \E i \in DOMAIN got[c] : InLive(got[c][i], n)
  BY <1>3 DEF Delivered, InLive
<1> QED BY <1>1, <1>2, <1>3 DEF Delivered

\* What is put out is in the history, goes live, or slips through.
LEMMA OutputDelivers ==
    ASSUME StreamTypeOK, AlternateDelivered, NEW size \in Nat,
           NEW units \in Seq(Nat), log' = log \o units,
           emitted' = emitted + size, slipped \subseteq slipped',
           UNCHANGED <<opened, got>>,
           \/ UNCHANGED <<queue, stage>>
           \/ EnqueueLive(Live(emitted, emitted + size)),
           \A n \in emitted + 1 .. emitted + size :
              \/ \E k \in DOMAIN units : units[k] = n
              \/ n \in slipped'
              \/ EnqueueLive(Live(emitted, emitted + size))
    PROVE  AlternateDelivered'
<1> DEFINE frame == Live(emitted, emitted + size)
<1>1. /\ emitted \in Nat /\ log \in Seq(Nat) /\ opened \in [Clients -> Nat]
      /\ queue \in [Clients -> Seq(Frame)]
  BY DEF StreamTypeOK
<1>2. /\ Len(log) \in Nat
      /\ \A i \in DOMAIN log : i \in DOMAIN log' /\ log'[i] = log[i]
      /\ \A k \in DOMAIN units : /\ Len(log) + k \in DOMAIN log'
                                 /\ log'[Len(log) + k] = units[k]
  BY <1>1, LogGrows
<1>3. frame \in Frame /\ \A n \in emitted + 1 .. emitted + size : InLive(frame, n)
  BY <1>1, FrameFacts DEF Live, InLive
<1> HIDE DEF frame
<1>4. ASSUME NEW c \in Clients, EnqueueLive(frame), Ready(c)'
      PROVE  /\ Ready(c) /\ Len(queue[c]) + 1 \in DOMAIN queue'[c]
             /\ queue'[c][Len(queue[c]) + 1] = frame
             /\ \A i \in DOMAIN queue[c] : /\ i \in DOMAIN queue'[c]
                                           /\ queue'[c][i] = queue[c][i]
  <2>1. stage'[c] = "open" /\ Len(queue[c]) \in Nat /\ queue[c] \in Seq(Frame)
    BY <1>1, <1>4 DEF Ready
  <2>2. Ready(c) /\ Len(queue[c]) < QueueCap
    BY <1>4, <2>1, QueueCapAssumption DEF EnqueueLive, Ready
  <2>3. queue'[c] = Append(queue[c], frame)
    BY <1>4, <2>2 DEF EnqueueLive
  <2> QED BY <1>3, <2>1, <2>2, <2>3
<1>5. ASSUME NEW c \in Clients, Ready(c)'
      PROVE  Ready(c) /\ \A i \in DOMAIN queue[c] :
                           \E j \in DOMAIN queue'[c] : queue'[c][j] = queue[c][i]
  <2>1. CASE UNCHANGED <<queue, stage>>
    BY <1>5, <2>1 DEF Ready
  <2>2. CASE EnqueueLive(frame)
    BY <1>4, <1>5, <2>2
  <2> QED BY <2>1, <2>2 DEF frame
<1> SUFFICES ASSUME NEW c \in Clients, Ready(c)', NEW n \in opened[c] + 1 .. emitted + size
             PROVE  Delivered(c, n)' \/ n \in slipped'
  BY DEF AlternateDelivered
<1>6. n \in Nat /\ opened[c] \in Nat
  BY <1>1
<1>7. CASE n \in opened[c] + 1 .. emitted
  <2>1. Delivered(c, n) \/ n \in slipped
    BY <1>5, <1>7 DEF AlternateDelivered
  <2>2. \A i \in DOMAIN got[c] : i \in DOMAIN got'[c] /\ got'[c][i] = got[c][i]
    OBVIOUS
  <2>3. \A i \in DOMAIN queue[c] :
          \/ \E j \in DOMAIN queue'[c] : queue'[c][j] = queue[c][i]
          \/ \E j \in DOMAIN got'[c] : got'[c][j] = queue[c][i]
    BY <1>5
  <2>4. Delivered(c, n) => Delivered(c, n)'
    BY <1>2, <1>6, <2>2, <2>3, StillDelivered
  <2> QED BY <2>1, <2>4
<1>8. CASE n \in emitted + 1 .. emitted + size
  <2>1. CASE \E k \in DOMAIN units : units[k] = n
    BY <1>2, <2>1 DEF Delivered
  <2>2. CASE EnqueueLive(frame)
    <3>1. /\ Len(queue[c]) + 1 \in DOMAIN queue'[c]
          /\ queue'[c][Len(queue[c]) + 1] = frame
      BY <1>4, <2>2
    <3>2. InLive(frame, n)
      BY <1>3, <1>8
    <3> QED BY <3>1, <3>2 DEF Delivered, InLive
  <2>3. \/ \E k \in DOMAIN units : units[k] = n
        \/ n \in slipped' \/ EnqueueLive(frame)
    BY <1>8 DEF frame
  <2> QED BY <2>1, <2>2, <2>3
<1> QED BY <1>1, <1>6, <1>7, <1>8

LEMMA PlainDelivers ==
    ASSUME StreamTypeOK, AlternateDelivered, NEW chunk \in Chunks, OutputPlain(chunk)
    PROVE  AlternateDelivered'
<1> DEFINE places == [i \in DOMAIN chunk |-> i]
           units == UnitsAt(places)
           size == Len(chunk)
<1>1. /\ chunk \in Seq(Kinds) /\ size \in Nat /\ DOMAIN chunk = 1 .. size
      /\ emitted \in Nat /\ pending \in Nat
  BY ChunksAssumption DEF StreamTypeOK
<1>2. places \in Seq(Nat)
  BY <1>1
<1>3. units \in Seq(Nat)
  BY <1>1, <1>2, UnitFacts
<1>4. DOMAIN units = 1 .. size /\ \A k \in DOMAIN units : units[k] = emitted + k
  BY <1>1 DEF UnitsAt, UnitAt
<1> HIDE DEF places
<1>5. /\ log' = log \o units /\ emitted' = emitted + size /\ slipped' = slipped
      /\ UNCHANGED <<opened, got>> /\ UNCHANGED <<queue, stage>>
  BY DEF OutputPlain, AppendHistory, places
<1> HIDE DEF units, size
<1>6. \A n \in emitted + 1 .. emitted + size : \E k \in DOMAIN units : units[k] = n
  <2> SUFFICES ASSUME NEW n \in emitted + 1 .. emitted + size
               PROVE  \E k \in DOMAIN units : units[k] = n
    OBVIOUS
  <2>1. n - emitted \in 1 .. size /\ emitted + (n - emitted) = n
    BY <1>1
  <2> QED BY <1>4, <2>1
<1> QED BY <1>1, <1>3, <1>5, <1>6, OutputDelivers

\* Of a chunk of a PTY, what the history does not get is live or has slipped.
LEMMA PTYDelivers ==
    ASSUME StreamTypeOK, AlternateDelivered, NEW chunk \in Chunks, OutputPTY(chunk)
    PROVE  AlternateDelivered'
<1> DEFINE f == Filter(active, pending # NoUnit, chunk)
           units == UnitsAt(f.out)
           size == Len(chunk)
<1>1. /\ chunk \in Seq(Kinds) /\ size \in Nat /\ emitted \in Nat
      /\ pending \in Nat /\ active \in BOOLEAN
  BY ChunksAssumption DEF StreamTypeOK
<1>2. f.out \in Seq(Nat)
  BY <1>1, FilterFacts
<1>3. /\ log' = log \o units /\ emitted' = emitted + size
      /\ UNCHANGED <<opened, got>>
  BY DEF OutputPTY, AppendHistory
<1>4. PICK cmp \in Compared(f, size) :
        /\ IF ~KeptWhole(f, cmp) /\ GoesLive(f, cmp)
           THEN EnqueueLive(Live(emitted, emitted + size))
           ELSE UNCHANGED <<queue, stage>>
        /\ slipped' = slipped \cup Slips(f, size, cmp)
  BY DEF OutputPTY
<1> HIDE DEF f, size
<1>5. /\ units \in Seq(Nat) /\ DOMAIN units = DOMAIN f.out
      /\ \A k \in DOMAIN units : units[k] = UnitAt(f.out[k])
  BY <1>1, <1>2, UnitFacts DEF UnitsAt
<1> HIDE DEF units
<1>6. ASSUME NEW n \in emitted + 1 .. emitted + size
      PROVE  \/ \E k \in DOMAIN units : units[k] = n
             \/ n \in slipped'
             \/ EnqueueLive(Live(emitted, emitted + size))
  <2>1. PICK i \in 1 .. size : n = emitted + i
    <3>1. n - emitted \in 1 .. size /\ n = emitted + (n - emitted)
      BY <1>1, <1>6
    <3> QED BY <3>1
  <2>2. CASE Kept(f, i)
    <3>1. PICK k \in DOMAIN f.out : f.out[k] = i
      BY <2>2 DEF Kept
    <3>2. UnitAt(i) = n
      BY <2>1 DEF UnitAt
    <3> QED BY <1>5, <3>1, <3>2
  <2>3. CASE ~Kept(f, i) /\ ~KeptWhole(f, cmp) /\ GoesLive(f, cmp)
    BY <1>4, <2>3
  <2>4. CASE ~Kept(f, i) /\ (KeptWhole(f, cmp) \/ ~GoesLive(f, cmp))
    <3>1. Partly(f, size)
      BY <2>1, <2>4 DEF Partly
    <3>2. ~f.active /\ cmp # "less"
      BY <2>4 DEF KeptWhole, GoesLive
    <3>3. Kept(f, 0)
      BY <3>1, <3>2 DEF Compared
    <3>4. n \in Slips(f, size, cmp)
      BY <2>1, <2>4, <3>2, <3>3 DEF Slips
    <3> QED BY <1>4, <3>4
  <2> QED BY <2>2, <2>3, <2>4
<1>7. \/ UNCHANGED <<queue, stage>>
      \/ EnqueueLive(Live(emitted, emitted + size))
  BY <1>4
<1>8. slipped \subseteq slipped'
  BY <1>4
<1> QED BY <1>1, <1>3, <1>5, <1>6, <1>7, <1>8, OutputDelivers

LEMMA SystemDelivers ==
    ASSUME StreamTypeOK, AlternateDelivered, SystemMessage
    PROVE  AlternateDelivered'
<1> DEFINE units == <<emitted + 1>>
<1>1. emitted \in Nat
  BY DEF StreamTypeOK
<1>2. /\ log' = log \o units /\ emitted' = emitted + 1 /\ slipped' = slipped
      /\ UNCHANGED <<opened, got>> /\ UNCHANGED <<queue, stage>>
  BY DEF SystemMessage, AppendHistory
<1>3. units \in Seq(Nat) /\ 1 \in DOMAIN units /\ units[1] = emitted + 1
  BY <1>1
<1>4. \A n \in emitted + 1 .. emitted + 1 : n = emitted + 1
  BY <1>1
<1> HIDE DEF units
<1> QED BY <1>2, <1>3, <1>4, OutputDelivers

\* A step of a client that puts nothing out and takes no frame away.
LEMMA ClientDelivers ==
    ASSUME StreamTypeOK, AlternateDelivered, NEW c \in Clients,
           UNCHANGED <<emitted, slipped, log>>,
           \A d \in Clients : Ready(d)' => \/ Ready(d) /\ opened'[d] = opened[d]
                                           \/ opened'[d] = emitted,
           \A d \in Clients : \A i \in DOMAIN got[d] :
              i \in DOMAIN got'[d] /\ got'[d][i] = got[d][i],
           \A d \in Clients : \A i \in DOMAIN queue[d] :
              \/ \E j \in DOMAIN queue'[d] : queue'[d][j] = queue[d][i]
              \/ \E j \in DOMAIN got'[d] : got'[d][j] = queue[d][i]
    PROVE  AlternateDelivered'
<1>1. emitted \in Nat /\ opened \in [Clients -> Nat]
  BY DEF StreamTypeOK
<1> SUFFICES ASSUME NEW d \in Clients, Ready(d)', NEW n \in opened'[d] + 1 .. emitted
             PROVE  Delivered(d, n)' \/ n \in slipped
  BY DEF AlternateDelivered
<1>2. Ready(d) /\ opened'[d] = opened[d]
  BY <1>1
<1>3. Delivered(d, n) \/ n \in slipped
  BY <1>2 DEF AlternateDelivered
<1>4. n \in Nat
  BY <1>1, <1>2
<1>5. /\ \A i \in DOMAIN log : i \in DOMAIN log' /\ log'[i] = log[i]
      /\ \A i \in DOMAIN got[d] : i \in DOMAIN got'[d] /\ got'[d][i] = got[d][i]
      /\ \A i \in DOMAIN queue[d] :
              \/ \E j \in DOMAIN queue'[d] : queue'[d][j] = queue[d][i]
              \/ \E j \in DOMAIN got'[d] : got'[d][j] = queue[d][i]
  OBVIOUS
<1>6. Delivered(d, n) => Delivered(d, n)'
  BY <1>4, <1>5, StillDelivered
<1> QED BY <1>3, <1>6

\* Every handler that only moves a client on keeps what it was sent.
LEMMA QuietDelivers ==
    ASSUME StreamTypeOK, AlternateDelivered, NEW c \in Clients,
           Greet(c) \/ Attach(c) \/ Enable(c) \/ Disconnect(c) \/ WriterParks(c)
    PROVE  AlternateDelivered'
<1>1. UNCHANGED <<emitted, slipped, log, got, queue>>
  BY DEF Greet, Attach, Enable, Disconnect, WriterParks, outputVars, historyVars
<1>2. \A d \in Clients : Ready(d)' => \/ Ready(d) /\ opened'[d] = opened[d]
                                      \/ opened'[d] = emitted
  BY DEF Greet, Attach, Enable, Disconnect, WriterParks, Ready, StreamTypeOK
<1>3. /\ \A d \in Clients : \A i \in DOMAIN got[d] :
           i \in DOMAIN got'[d] /\ got'[d][i] = got[d][i]
      /\ \A d \in Clients : \A i \in DOMAIN queue[d] :
           \/ \E j \in DOMAIN queue'[d] : queue'[d][j] = queue[d][i]
           \/ \E j \in DOMAIN got'[d] : got'[d][j] = queue[d][i]
  BY <1>1
<1> QED BY <1>1, <1>2, <1>3, ClientDelivers

\* A step that writes one frame, which may come from the queue.
LEMMA WriteDelivers ==
    ASSUME StreamTypeOK, AlternateDelivered, NEW c \in Clients, NEW frame \in Frame,
           UNCHANGED <<emitted, slipped, log, opened>>,
           \A d \in Clients : Ready(d)' => Ready(d),
           got' = [got EXCEPT ![c] = Append(@, frame)],
           \/ queue' = queue
           \/ /\ queue[c] # <<>> /\ frame = Head(queue[c])
              /\ queue' = [queue EXCEPT ![c] = Tail(@)]
    PROVE  AlternateDelivered'
<1>1. /\ DOMAIN got'[c] = 1 .. Len(got[c]) + 1 /\ Len(got[c]) \in Nat
      /\ got'[c][Len(got[c]) + 1] = frame
      /\ DOMAIN got[c] = 1 .. Len(got[c])
      /\ \A i \in DOMAIN got[c] : got'[c][i] = got[c][i]
      /\ \A d \in Clients : d # c => got'[d] = got[d]
  BY OneMoreFrame
<1>2. \A d \in Clients : \A i \in DOMAIN got[d] :
        i \in DOMAIN got'[d] /\ got'[d][i] = got[d][i]
  <2> SUFFICES ASSUME NEW d \in Clients, NEW i \in DOMAIN got[d]
               PROVE  i \in DOMAIN got'[d] /\ got'[d][i] = got[d][i]
    OBVIOUS
  <2>1. CASE d = c
    BY <1>1, <2>1
  <2>2. CASE d # c
    BY <1>1, <2>2
  <2> QED BY <2>1, <2>2
<1>3. ASSUME NEW d \in Clients, NEW i \in DOMAIN queue[d]
      PROVE  \/ \E j \in DOMAIN queue'[d] : queue'[d][j] = queue[d][i]
             \/ \E j \in DOMAIN got'[d] : got'[d][j] = queue[d][i]
  <2>1. queue[d] \in Seq(Frame) /\ queue \in [Clients -> Seq(Frame)]
    BY DEF StreamTypeOK
  <2>2. CASE queue'[d] = queue[d]
    BY <2>2
  <2>3. CASE d = c /\ queue[c] # <<>> /\ frame = Head(queue[c]) /\ queue'[c] = Tail(queue[c])
    <3>1. CASE i = 1
      <4>1. queue[d][i] = frame
        BY <2>1, <2>3, <3>1
      <4> QED BY <1>1, <2>3, <4>1
    <3>2. CASE i # 1
      <4>1. i - 1 \in DOMAIN Tail(queue[d]) /\ Tail(queue[d])[i - 1] = queue[d][i]
        BY <2>1, <3>2
      <4> QED BY <2>3, <4>1
    <3> QED BY <3>1, <3>2
  <2> QED BY <2>1, <2>2, <2>3
<1> QED BY <1>2, <1>3, ClientDelivers

LEMMA SendDelivers ==
    ASSUME StreamTypeOK, AlternateDelivered, NEW c \in Clients,
           SendInitial(c) \/ WriterSends(c)
    PROVE  AlternateDelivered'
<1>1. CASE SendInitial(c)
  <2>1. initial[c] \in Frame
    BY DEF StreamTypeOK
  <2>2. /\ UNCHANGED <<emitted, slipped, log, opened>> /\ queue' = queue
        /\ got' = [got EXCEPT ![c] = Append(@, initial[c])]
    BY <1>1 DEF SendInitial, outputVars, historyVars
  <2>3. \A d \in Clients : Ready(d)' => Ready(d)
    BY <1>1 DEF SendInitial, Ready, StreamTypeOK
  <2> QED BY <2>1, <2>2, <2>3, WriteDelivers
<1>2. CASE WriterSends(c)
  <2>1. queue[c] # <<>> /\ queue[c] \in Seq(Frame)
    BY <1>2 DEF WriterSends, StreamTypeOK
  <2>2. Head(queue[c]) \in Frame
    BY <2>1
  <2>3. /\ UNCHANGED <<emitted, slipped, log, opened, stage>>
        /\ got' = [got EXCEPT ![c] = Append(@, Head(queue[c]))]
        /\ queue' = [queue EXCEPT ![c] = Tail(@)]
    BY <1>2 DEF WriterSends, outputVars, historyVars
  <2>4. \A d \in Clients : Ready(d)' => Ready(d)
    BY <2>3 DEF Ready
  <2> QED BY <2>1, <2>2, <2>3, <2>4, WriteDelivers
<1> QED BY <1>1, <1>2

LEMMA FlushDelivers ==
    ASSUME ReadersIInv, AlternateDelivered, NEW c \in Clients, WriterFlushes(c)
    PROVE  AlternateDelivered'
<1>1. StreamTypeOK
  BY DEF ReadersIInv
<1>2. /\ UNCHANGED <<emitted, slipped, log, opened, stage>> /\ queue' = queue
  BY DEF WriterFlushes, outputVars, historyVars
<1>3. \A d \in Clients : Ready(d)' => Ready(d)
  BY <1>2 DEF Ready
<1>4. CASE cursor[c] < EndSeq
  <2> DEFINE frame == [via |-> "history", lo |-> ReadFrom(c), hi |-> ReadUpTo(c),
                       notice |-> Dropped(c)]
  <2>1. frame \in Frame
    BY <1>4, FlushFacts, FrameFacts
  <2>2. got' = [got EXCEPT ![c] = Append(@, frame)]
    BY <1>4 DEF WriterFlushes
  <2> HIDE DEF frame
  <2> QED BY <1>1, <1>2, <1>3, <2>1, <2>2, WriteDelivers
<1>5. CASE ~(cursor[c] < EndSeq)
  <2>1. got' = got
    BY <1>5 DEF WriterFlushes
  <2>2. \A d \in Clients : \A i \in DOMAIN queue[d] :
          \E j \in DOMAIN queue'[d] : queue'[d][j] = queue[d][i]
    BY <1>2
  <2>3. \A d \in Clients : Ready(d)' => Ready(d) /\ opened'[d] = opened[d]
    BY <1>2, <1>3
  <2>4. UNCHANGED <<emitted, slipped, log>>
    BY <1>2
  <2> QED BY <1>1, <2>1, <2>2, <2>3, <2>4, ClientDelivers
<1> QED BY <1>4, <1>5

\* What the history does not keep is in the queue of every ready client or
\* written to it (writeTerminalLiveClientsLocked), for any chunks and any
\* queues: a client whose queue is full is closed, never skipped.
THEOREM AlternateIsDelivered == StreamSpec => []AlternateDelivered
<1>1. StreamInit => AlternateDelivered
  BY DEF StreamInit, AlternateDelivered, Ready
<1>2. ReadersIInv /\ AlternateDelivered /\ [StreamNext]_streamVars => AlternateDelivered'
  <2> SUFFICES ASSUME ReadersIInv, AlternateDelivered, [StreamNext]_streamVars
               PROVE  AlternateDelivered'
    OBVIOUS
  <2>0. StreamTypeOK
    BY DEF ReadersIInv
  <2>1. CASE Output
    BY <2>0, <2>1, PlainDelivers, PTYDelivers DEF Output
  <2>2. CASE SystemMessage
    BY <2>0, <2>2, SystemDelivers
  <2>3. CASE ResetScreen
    BY <2>3 DEF ResetScreen, AlternateDelivered, Delivered, Ready
  <2>4. CASE \E c \in Clients : ClientStep(c)
    BY <2>0, <2>4, QuietDelivers, SendDelivers DEF ClientStep
  <2>5. CASE \E c \in Clients : WriterStep(c)
    BY <2>0, <2>5, QuietDelivers, SendDelivers, FlushDelivers DEF WriterStep
  <2>6. CASE UNCHANGED streamVars
    BY <2>6 DEF streamVars, AlternateDelivered, Delivered, Ready
  <2> QED
    BY <2>1, <2>2, <2>3, <2>4, <2>5, <2>6 DEF StreamNext
<1> QED
  BY <1>1, <1>2, ReadersInvariant, PTL DEF StreamSpec

-----------------------------------------------------------------------------
(* Why a plain terminal shows its output in order and once, and what of that *)
(* a PTY terminal keeps.                                                     *)

\* What two frames from the history show is different output.
HistoryShownOnce ==
    \A c \in Clients : \A i, j \in DOMAIN got[c] :
        (i # j /\ OfHistory(got[c][i]) /\ OfHistory(got[c][j])) =>
            \A m \in DOMAIN UnitsOf(got[c][i]), n \in DOMAIN UnitsOf(got[c][j]) :
                UnitsOf(got[c][i])[m] # UnitsOf(got[c][j])[n]

\* While the terminal is plain the history grows in the order of the output,
\* and nothing passes it by.
PlainHistory ==
    /\ \A i, j \in DOMAIN log : i < j => log[i] < log[j]
    /\ \A c \in Clients : queue[c] = <<>>
    /\ \A c \in Clients : \A i \in DOMAIN got[c] : OfHistory(got[c][i])

\* The positions a history frame shows lie in the history, behind the cursor.
LEMMA FramePositions ==
    ASSUME StreamIInv, NEW c \in Clients, NEW i \in DOMAIN got[c], OfHistory(got[c][i]),
           NEW m \in DOMAIN UnitsOf(got[c][i])
    PROVE  /\ got[c][i].lo \in Nat /\ got[c][i].hi \in Nat /\ m \in Nat
           /\ got[c][i].lo < got[c][i].lo + m /\ got[c][i].lo + m <= got[c][i].hi
           /\ got[c][i].lo + m \in DOMAIN log
           /\ UnitsOf(got[c][i])[m] = log[got[c][i].lo + m]
<1>1. got[c] \in Seq(Frame) /\ log \in Seq(Nat) /\ cursor[c] \in Nat
  BY DEF StreamIInv, ReadersIInv, StreamTypeOK
<1>2. got[c][i] \in Frame
  BY <1>1
<1> DEFINE f == got[c][i]
<1>3. f.lo \in Nat /\ f.hi \in Nat /\ f.via # "live"
  BY <1>2, FrameFacts DEF OfHistory
<1>4. f.hi <= cursor[c] /\ cursor[c] <= Len(log) /\ Len(log) \in Nat
  BY <1>1 DEF StreamIInv, ReadersIInv, ReadBehindCursor, CursorsWithin, EndSeq
<1> HIDE DEF f
<1>5. UnitsOf(f) = [k \in 1 .. f.hi - f.lo |-> log[f.lo + k]]
  BY <1>3 DEF UnitsOf
<1>6. m \in 1 .. f.hi - f.lo /\ UnitsOf(f)[m] = log[f.lo + m]
  BY <1>5 DEF f
<1>7. DOMAIN log = 1 .. Len(log)
  BY <1>1
<1>8. cursor[c] \in Nat
  BY <1>1
<1>9. m \in Nat /\ f.lo < f.lo + m /\ f.lo + m <= f.hi
  BY <1>3, <1>6
<1>10. f.lo + m \in 1 .. Len(log)
  <2> DEFINE lo == f.lo
             hi == f.hi
             cur == cursor[c]
             len == Len(log)
  <2>1. /\ lo \in Nat /\ hi \in Nat /\ cur \in Nat /\ len \in Nat /\ m \in Nat
        /\ lo < lo + m /\ lo + m <= hi /\ hi <= cur /\ cur <= len
    BY <1>3, <1>4, <1>8, <1>9
  <2> HIDE DEF lo, hi, cur, len
  <2>2. lo + m \in 1 .. len
    BY <2>1
  <2> QED
    BY <2>2 DEF lo, len
<1>11. f.lo + m \in DOMAIN log
  BY <1>7, <1>10
<1> QED
  BY <1>3, <1>6, <1>9, <1>11 DEF f

\* Two frames from the history show different positions of it.
LEMMA FramesApart ==
    ASSUME StreamIInv, NEW c \in Clients, NEW i \in DOMAIN got[c], NEW j \in DOMAIN got[c],
           i < j, OfHistory(got[c][i]), OfHistory(got[c][j]),
           NEW m \in DOMAIN UnitsOf(got[c][i]), NEW n \in DOMAIN UnitsOf(got[c][j])
    PROVE  got[c][i].lo + m < got[c][j].lo + n
<1>1. got[c][i].hi <= got[c][j].lo
  BY DEF StreamIInv, ReadersIInv, HistoryInOrder
<1> QED
  BY <1>1, FramePositions

\* Whatever a terminal gets from the history it gets once, in every mode: the
\* copy at the greeting and the flushes after it never show a unit twice
\* (AddClientTerminalInitialLocked, flushTerminalHistory).
THEOREM HistoryIsShownOnce == StreamSpec => []HistoryShownOnce
<1>1. StreamIInv => HistoryShownOnce
  <2> SUFFICES ASSUME StreamIInv, NEW c \in Clients, NEW i \in DOMAIN got[c],
                      NEW j \in DOMAIN got[c], i # j,
                      OfHistory(got[c][i]), OfHistory(got[c][j]),
                      NEW m \in DOMAIN UnitsOf(got[c][i]), NEW n \in DOMAIN UnitsOf(got[c][j])
               PROVE  UnitsOf(got[c][i])[m] # UnitsOf(got[c][j])[n]
    BY DEF HistoryShownOnce
  <2>1. i \in Nat /\ j \in Nat
    <3>1. got[c] \in Seq(Frame)
      BY DEF StreamIInv, ReadersIInv, StreamTypeOK
    <3> QED
      BY <3>1
  <2>2. /\ got[c][i].lo + m \in DOMAIN log /\ got[c][j].lo + n \in DOMAIN log
        /\ UnitsOf(got[c][i])[m] = log[got[c][i].lo + m]
        /\ UnitsOf(got[c][j])[n] = log[got[c][j].lo + n]
        /\ got[c][i].lo + m \in Nat /\ got[c][j].lo + n \in Nat
    BY FramePositions
  <2>3. got[c][i].lo + m # got[c][j].lo + n
    <3>1. CASE i < j
      BY <2>2, <3>1, FramesApart
    <3>2. CASE j < i
      <4>1. got[c][j].lo + n < got[c][i].lo + m
        BY <3>2, FramesApart
      <4> QED
        BY <2>2, <4>1
    <3> QED
      BY <2>1, <3>1, <3>2
  <2> QED
    BY <2>2, <2>3 DEF StreamIInv, UnitsOnce
<1> QED
  BY <1>1, StreamInvariant, PTL

\* Units that are put out now come after all that the history holds.
LEMMA PlainGrows ==
    ASSUME StreamIInv, PlainHistory, NEW units \in Seq(Nat), log' = log \o units,
           \A k \in DOMAIN units : units[k] = emitted + k,
           UNCHANGED <<queue, got>>
    PROVE  PlainHistory'
<1>1. log \in Seq(Nat) /\ emitted \in Nat /\ DOMAIN log = 1 .. Len(log)
  BY DEF StreamIInv, ReadersIInv, StreamTypeOK
<1>2. /\ Len(log) \in Nat /\ Len(units) \in Nat
      /\ \A i \in DOMAIN log : i \in DOMAIN log' /\ log'[i] = log[i]
      /\ \A k \in DOMAIN units : /\ Len(log) + k \in DOMAIN log'
                                 /\ log'[Len(log) + k] = units[k]
      /\ \A i \in DOMAIN log' : \/ i \in DOMAIN log
                                \/ i - Len(log) \in DOMAIN units
  BY <1>1, LogGrows
<1>3. DOMAIN log' \subseteq Nat /\ DOMAIN units \subseteq Nat \ {0}
  <2>1. log' \in Seq(Nat)
    BY <1>1, ConcatProperties
  <2> QED BY <2>1
<1>4. \A i \in DOMAIN log : log[i] \in 1 .. emitted
  BY DEF StreamIInv, UnitsOnce
<1>5. \A i \in DOMAIN log' :
        \/ i \in DOMAIN log /\ log'[i] = log[i] /\ log[i] <= emitted
        \/ ~(i \in DOMAIN log) /\ Len(log) < i /\ log'[i] = emitted + (i - Len(log))
  <2> SUFFICES ASSUME NEW i \in DOMAIN log', i \notin DOMAIN log
               PROVE  Len(log) < i /\ log'[i] = emitted + (i - Len(log))
    BY <1>1, <1>2, <1>4
  <2>1. i - Len(log) \in DOMAIN units /\ i \in Nat
    BY <1>2, <1>3
  <2>2. log'[Len(log) + (i - Len(log))] = emitted + (i - Len(log))
    BY <1>2, <2>1
  <2>3. Len(log) + (i - Len(log)) = i /\ Len(log) < i
    BY <1>2, <1>3, <2>1
  <2> QED
    BY <2>2, <2>3
<1>6. ASSUME NEW i \in DOMAIN log', NEW j \in DOMAIN log', i < j
      PROVE  log'[i] < log'[j]
  <2>1. i \in Nat /\ j \in Nat
    BY <1>3
  <2>2. CASE i \in DOMAIN log /\ j \in DOMAIN log
    BY <1>2, <1>6, <2>2 DEF PlainHistory
  <2>3. CASE i \in DOMAIN log /\ j \notin DOMAIN log
    <3>1. log'[i] <= emitted /\ log'[i] \in Nat
      BY <1>1, <1>2, <1>4, <2>3
    <3>2. Len(log) < j /\ log'[j] = emitted + (j - Len(log))
      BY <1>5, <2>3
    <3> QED
      BY SMTT(30), <1>1, <1>2, <2>1, <3>1, <3>2
  <2>4. CASE i \notin DOMAIN log /\ j \notin DOMAIN log
    <3>1. /\ log'[i] = emitted + (i - Len(log))
          /\ log'[j] = emitted + (j - Len(log))
      BY <1>5, <2>4
    <3> QED
      BY <1>1, <1>2, <1>6, <2>1, <3>1
  <2>5. ~(i \notin DOMAIN log /\ j \in DOMAIN log)
    BY <1>1, <1>2, <1>5, <1>6, <2>1
  <2> QED
    BY <2>2, <2>3, <2>4, <2>5
<1> QED
  BY <1>6 DEF PlainHistory, OfHistory

\* One more frame from the history.
LEMMA PlainShows ==
    ASSUME StreamIInv, PlainHistory, NEW c \in Clients, NEW f \in Frame, OfHistory(f),
           got' = [got EXCEPT ![c] = Append(@, f)], UNCHANGED <<log, queue>>
    PROVE  PlainHistory'
<1>1. StreamTypeOK
  BY DEF StreamIInv, ReadersIInv
<1>2. ASSUME NEW d \in Clients, NEW i \in DOMAIN got'[d] PROVE OfHistory(got'[d][i])
  <2>1. CASE d = c
    <3>1. i \in 1 .. Len(got[c]) + 1 /\ Len(got[c]) \in Nat
      BY <1>1, <1>2, <2>1, OneMoreFrame
    <3>2. i = Len(got[c]) + 1 \/ i \in DOMAIN got[c]
      BY <1>1, <3>1, OneMoreFrame
    <3> QED
      BY <1>1, <2>1, <3>2, OneMoreFrame DEF PlainHistory
  <2>2. CASE d # c
    BY <1>1, <1>2, <2>2, OneMoreFrame DEF PlainHistory
  <2> QED
    BY <2>1, <2>2
<1> QED
  BY <1>2 DEF PlainHistory, OfHistory

LEMMA PlainStepKeeps ==
    ASSUME StreamIInv, PlainHistory, ~pty, [StreamNext]_streamVars
    PROVE  PlainHistory'
<1>1. /\ log \in Seq(Nat) /\ emitted \in Nat /\ pending \in Nat
      /\ initial \in [Clients -> Frame] /\ cursor \in [Clients -> Nat]
      /\ base \in Nat
  BY DEF StreamIInv, ReadersIInv, StreamTypeOK
<1>2. ASSUME NEW chunk \in Chunks, OutputPlain(chunk) PROVE PlainHistory'
  <2> DEFINE places == [i \in DOMAIN chunk |-> i]
             units == UnitsAt(places)
  <2>1. chunk \in Seq(Kinds) /\ Len(chunk) \in Nat /\ DOMAIN chunk = 1 .. Len(chunk)
    BY ChunksAssumption
  <2>2. places \in Seq(Nat)
    BY <2>1
  <2>3. units \in Seq(Nat)
    BY <1>1, <2>2, UnitFacts
  <2>4. \A k \in DOMAIN units : units[k] = emitted + k
    BY <2>1 DEF UnitsAt, UnitAt
  <2> HIDE DEF places
  <2>5. log' = log \o units /\ UNCHANGED <<queue, got>>
    BY <1>2 DEF OutputPlain, AppendHistory, places
  <2> HIDE DEF units
  <2> QED
    BY <2>3, <2>4, <2>5, PlainGrows
<1>3. ASSUME NEW chunk \in Chunks, OutputPTY(chunk) PROVE PlainHistory'
  BY <1>3 DEF OutputPTY
<1>4. CASE SystemMessage
  <2> DEFINE units == <<emitted + 1>>
  <2>1. units \in Seq(Nat) /\ \A k \in DOMAIN units : units[k] = emitted + k
    BY <1>1
  <2>2. log' = log \o units /\ UNCHANGED <<queue, got>>
    BY <1>4 DEF SystemMessage, AppendHistory
  <2> HIDE DEF units
  <2> QED
    BY <2>1, <2>2, PlainGrows
<1>5. CASE UNCHANGED <<log, queue, got>>
  BY <1>5 DEF PlainHistory, OfHistory
<1>6. CASE ResetScreen
  BY <1>5, <1>6 DEF ResetScreen
<1>7. ASSUME NEW c \in Clients, Greet(c) \/ Attach(c) \/ Enable(c) \/ Disconnect(c) \/ WriterParks(c)
      PROVE  PlainHistory'
  BY <1>5, <1>7 DEF Greet, Attach, Enable, Disconnect, WriterParks, historyVars
<1>8. ASSUME NEW c \in Clients, SendInitial(c) PROVE PlainHistory'
  <2>1. initial[c] \in Frame /\ OfHistory(initial[c])
    BY <1>1, <1>8 DEF SendInitial, StreamIInv, ReadersIInv, GreetedFirst, OfHistory
  <2>2. /\ got' = [got EXCEPT ![c] = Append(@, initial[c])]
        /\ UNCHANGED <<log, queue>>
    BY <1>8 DEF SendInitial, historyVars
  <2> QED
    BY <2>1, <2>2, PlainShows
<1>9. ASSUME NEW c \in Clients, WriterSends(c) PROVE PlainHistory'
  BY <1>9 DEF WriterSends, PlainHistory
<1>10. ASSUME NEW c \in Clients, WriterFlushes(c) PROVE PlainHistory'
  <2> DEFINE f == [via |-> "history", lo |-> ReadFrom(c), hi |-> ReadUpTo(c),
                   notice |-> Dropped(c)]
  <2>1. CASE cursor[c] < EndSeq
    <3>1. EndSeq \in Nat /\ FrameMax \in Nat
      BY <1>1, FrameMaxAssumption DEF EndSeq
    <3>2. ReadFrom(c) \in Nat /\ ReadUpTo(c) \in Nat /\ Dropped(c) \in BOOLEAN
      BY <1>1, <3>1 DEF ReadFrom, ReadUpTo, Dropped
    <3>3. f \in Frame /\ OfHistory(f)
      BY <3>2, FrameFacts DEF OfHistory
    <3>4. got' = [got EXCEPT ![c] = Append(@, f)] /\ UNCHANGED <<log, queue>>
      BY <1>10, <2>1 DEF WriterFlushes, historyVars
    <3> HIDE DEF f
    <3> QED
      BY <3>3, <3>4, PlainShows
  <2>2. CASE ~(cursor[c] < EndSeq)
    BY <1>5, <1>10, <2>2 DEF WriterFlushes, historyVars
  <2> QED
    BY <2>1, <2>2
<1>11. CASE UNCHANGED streamVars
  BY <1>5, <1>11 DEF streamVars
<1> QED
  BY <1>2, <1>3, <1>4, <1>6, <1>7, <1>8, <1>9, <1>10, <1>11
     DEF StreamNext, Output, ClientStep, WriterStep

\* As long as the terminal stays plain its page shows the output as promised,
\* every unit once and in order: all of it goes the way of the history.  What
\* breaks the promise is the second way, the queue of a PTY terminal.
THEOREM PlainOutputInOrder == StreamSpec /\ []~pty => []OutputInOrderOnce
<1>1. StreamInit => PlainHistory
  BY DEF StreamInit, PlainHistory
<1>2. StreamIInv /\ ~pty /\ PlainHistory /\ [StreamNext]_streamVars => PlainHistory'
  BY PlainStepKeeps
<1>3. StreamIInv /\ PlainHistory => OutputInOrderOnce
  <2> SUFFICES ASSUME StreamIInv, PlainHistory, NEW c \in Clients, NEW i \in DOMAIN got[c],
                      NEW j \in DOMAIN got[c], i < j,
                      NEW m \in DOMAIN UnitsOf(got[c][i]), NEW n \in DOMAIN UnitsOf(got[c][j])
               PROVE  UnitsOf(got[c][i])[m] < UnitsOf(got[c][j])[n]
    BY DEF OutputInOrderOnce
  <2>1. OfHistory(got[c][i]) /\ OfHistory(got[c][j])
    BY DEF PlainHistory
  <2>2. /\ got[c][i].lo + m \in DOMAIN log /\ got[c][j].lo + n \in DOMAIN log
        /\ UnitsOf(got[c][i])[m] = log[got[c][i].lo + m]
        /\ UnitsOf(got[c][j])[n] = log[got[c][j].lo + n]
    BY <2>1, FramePositions
  <2>3. got[c][i].lo + m < got[c][j].lo + n
    BY <2>1, FramesApart
  <2> QED
    BY <2>2, <2>3 DEF PlainHistory
<1> QED
  BY <1>1, <1>2, <1>3, StreamInvariant, PTL DEF StreamSpec

=============================================================================
