------------------------- MODULE SeedHistory_proofs -------------------------
(***************************************************************************)
(* Proofs about SeedHistory, for every set of items, length of hours, days *)
(* and batches, every retention setting and every bound.                   *)
(***************************************************************************)
EXTENDS SeedHistory, FiniteSetTheorems, WellFoundedInduction, TLAPS

-----------------------------------------------------------------------------
(* Induction over the length of a batch or the size of a set, and the     *)
(* folds of AnalyticsStore step by step.                                   *)

\* Every non-empty set of naturals has a least element: what induction over
\* the length of a batch or the size of a set comes down to.
LEMMA LeastNat ==
  ASSUME NEW T, T \subseteq Nat, T # {}
  PROVE  \E x \in T : \A y \in T : x <= y
<1> DEFINE R == OpToRel(<, Nat)
<1>1. IsWellFoundedOn(R, Nat)
  BY NatLessThanWellFounded
<1>2. \A x, y \in Nat : <<y, x>> \in R <=> y < x
  BY DEF OpToRel
<1> HIDE DEF R
<1>3. PICK x \in T : \A y \in T : ~ (<<y, x>> \in R)
  BY <1>1, WFMin
<1>4. \A y \in T : ~ (y < x)
  BY <1>2, <1>3
<1>5. \A y \in T : x <= y
  BY <1>4
<1> QED
  BY <1>5

\* A property of 0 that passes from each number to the next, as a set.
LEMMA SetInduction ==
  ASSUME NEW Q, NEW N \in Nat, 0 \in Q, \A n \in 1..N : n - 1 \in Q => n \in Q
  PROVE  \A n \in 0..N : n \in Q
<1> DEFINE T == (0..N) \ Q
<1> SUFFICES ASSUME T # {} PROVE FALSE
  OBVIOUS
<1>0. T \subseteq Nat
  OBVIOUS
<1>1. PICK m \in T : \A y \in T : m <= y
  <2> HIDE DEF T
  <2> QED  BY <1>0, LeastNat
<1>2. m # 0 /\ m \in 1..N /\ m - 1 \in 0..N /\ ~(m <= m - 1)
  BY <1>1
<1>3. m - 1 \in Q
  BY <1>1, <1>2
<1> QED
  BY <1>1, <1>2, <1>3

\* The largest index.
LEMMA MaxOfInterval ==
  ASSUME NEW n \in Nat, NEW s, s \subseteq 1..n, n \in s
  PROVE  Max(s) = n
<1>1. \A y \in s : n >= y
  OBVIOUS
<1>2. \A x \in s : (\A y \in s : x >= y) => x = n
  OBVIOUS
<1> QED
  BY <1>1, <1>2 DEF Max

\* Event by event, IngestEvent takes the tables t to the serial result.
LEMMA SerialSteps ==
  ASSUME NEW t, NEW ev, NEW N \in Nat, DOMAIN ev = 1..N
  PROVE  \E G : /\ G[0] = t
                /\ \A n \in 1..N : G[n] = IngestEvent(G[n - 1], ev[n])
                /\ G[N] = FoldLeft(IngestEvent, t, ev)
<1> DEFINE Body(g, s) == IF s = {} THEN t ELSE IngestEvent(g[s \ {Max(s)}], ev[Max(s)])
           Good(g, n) == g = [s \in SUBSET (1..n) |-> Body(g, s)]
           Q == {n \in Nat : \E g : Good(g, n)}
<1>1. 0 \in Q
  <2> DEFINE g == [s \in SUBSET (1..0) |-> t]
  <2>1. \A s \in SUBSET (1..0) : s = {}
    OBVIOUS
  <2>2. g = [s \in SUBSET (1..0) |-> Body(g, s)]
    BY <2>1
  <2> QED  BY <2>2
<1>2. ASSUME NEW n \in 1..N, n - 1 \in Q PROVE n \in Q
  <2>1. PICK g : Good(g, n - 1)
    BY <1>2
  <2> DEFINE k == [s \in SUBSET (1..n) |-> IF n \in s THEN IngestEvent(g[s \ {n}], ev[n]) ELSE g[s]]
  <2>2. ASSUME NEW s \in SUBSET (1..n) PROVE k[s] = Body(k, s)
    <3>1. CASE n \in s
      <4>1. Max(s) = n
        <5>1. n \in Nat /\ s \subseteq 1..n
          OBVIOUS
        <5> QED  BY <3>1, <5>1, MaxOfInterval
      <4>2. s \ {n} \in SUBSET (1..n) /\ n \notin s \ {n}
        OBVIOUS
      <4>3. k[s \ {n}] = g[s \ {n}]
        BY <4>2
      <4> QED  BY <3>1, <4>1, <4>3
    <3>2. CASE n \notin s
      <4>0. \A i \in s : i \in 1..(n - 1)
        BY <3>2
      <4>1. s \in SUBSET (1..(n - 1)) /\ s \ {Max(s)} \in SUBSET (1..n) /\ n \notin s \ {Max(s)}
        BY <3>2, <4>0, Zenon
      <4>2. k[s] = g[s] /\ k[s \ {Max(s)}] = g[s \ {Max(s)}]
        BY <3>2, <4>1
      <4>3. g[s] = Body(g, s)
        <5> HIDE DEF Body
        <5> QED  BY <2>1, <4>1
      <4> QED  BY <4>2, <4>3
    <3> QED  BY <3>1, <3>2
  <2>3. k = [s \in SUBSET (1..n) |-> Body(k, s)]
    <3> HIDE DEF Body
    <3>1. k = [s \in SUBSET (1..n) |-> k[s]]
      OBVIOUS
    <3> QED  BY <2>2, <3>1
  <2>4. n \in Nat
    OBVIOUS
  <2> HIDE DEF Body, k
  <2> QED  BY <2>3, <2>4
<1>3. \E g : Good(g, N)
  <2> HIDE DEF Q, Good
  <2>1. N \in Q
    BY <1>1, <1>2, SetInduction
  <2> QED  BY <2>1 DEF Q
<1> DEFINE iter == CHOOSE g : Good(g, N)
<1>4. Good(iter, N)
  BY <1>3
<1>5. FoldLeft(IngestEvent, t, ev) = iter[1..N]
  BY DEF FoldLeft, MapThenFoldSet
<1> HIDE DEF iter
<1> DEFINE G == [n \in 0..N |-> iter[1..n]]
<1>6. G[0] = t /\ G[N] = iter[1..N]
  BY <1>4
<1>7. ASSUME NEW n \in 1..N PROVE G[n] = IngestEvent(G[n - 1], ev[n])
  <2>0. \A i \in Int : (i \in 1..n => i \in 1..N) /\ (i \in 1..n /\ i # n <=> i \in 1..(n - 1))
    OBVIOUS
  <2>1. /\ 1..n \subseteq 1..N /\ n \in 1..n /\ 1..n # {} /\ (1..n) \ {n} = 1..(n - 1)
        /\ n \in Nat /\ n \in 0..N /\ n - 1 \in 0..N
    BY <2>0
  <2>2. Max(1..n) = n
    BY <2>1, MaxOfInterval
  <2>3. iter[1..n] = Body(iter, 1..n)
    <3> HIDE DEF Body
    <3> QED  BY <1>4, <2>1
  <2>4. iter[1..n] = IngestEvent(iter[1..(n - 1)], ev[n])
    BY <2>1, <2>2, <2>3
  <2> QED  BY <2>1, <2>4
<1> QED
  BY <1>5, <1>6, <1>7

\* Event by event, the loop of foldCurrentItems comes to the winners.
LEMMA WinnerSteps ==
  ASSUME NEW ev, NEW N \in Nat, DOMAIN ev = 1..N
  PROVE  \E G : /\ G[0] = << >>
                /\ \A n \in 1..N : G[n] = KeepLater(G[n - 1], ev[n])
                /\ G[N] = Winners(ev)
<1> DEFINE Body(g, s) == IF s = {} THEN << >> ELSE KeepLater(g[s \ {Max(s)}], ev[Max(s)])
           Good(g, n) == g = [s \in SUBSET (1..n) |-> Body(g, s)]
           Q == {n \in Nat : \E g : Good(g, n)}
<1>1. 0 \in Q
  <2> DEFINE g == [s \in SUBSET (1..0) |-> << >>]
  <2>1. \A s \in SUBSET (1..0) : s = {}
    OBVIOUS
  <2>2. g = [s \in SUBSET (1..0) |-> Body(g, s)]
    BY <2>1
  <2> QED  BY <2>2
<1>2. ASSUME NEW n \in 1..N, n - 1 \in Q PROVE n \in Q
  <2>1. PICK g : Good(g, n - 1)
    BY <1>2
  <2> DEFINE k == [s \in SUBSET (1..n) |-> IF n \in s THEN KeepLater(g[s \ {n}], ev[n]) ELSE g[s]]
  <2>2. ASSUME NEW s \in SUBSET (1..n) PROVE k[s] = Body(k, s)
    <3>1. CASE n \in s
      <4>1. Max(s) = n
        <5>1. n \in Nat /\ s \subseteq 1..n
          OBVIOUS
        <5> QED  BY <3>1, <5>1, MaxOfInterval
      <4>2. s \ {n} \in SUBSET (1..n) /\ n \notin s \ {n}
        OBVIOUS
      <4>3. k[s \ {n}] = g[s \ {n}]
        BY <4>2
      <4> QED  BY <3>1, <4>1, <4>3
    <3>2. CASE n \notin s
      <4>0. \A i \in s : i \in 1..(n - 1)
        BY <3>2
      <4>1. s \in SUBSET (1..(n - 1)) /\ s \ {Max(s)} \in SUBSET (1..n) /\ n \notin s \ {Max(s)}
        BY <3>2, <4>0, Zenon
      <4>2. k[s] = g[s] /\ k[s \ {Max(s)}] = g[s \ {Max(s)}]
        BY <3>2, <4>1
      <4>3. g[s] = Body(g, s)
        <5> HIDE DEF Body
        <5> QED  BY <2>1, <4>1
      <4> QED  BY <4>2, <4>3
    <3> QED  BY <3>1, <3>2
  <2>3. k = [s \in SUBSET (1..n) |-> Body(k, s)]
    <3> HIDE DEF Body
    <3>1. k = [s \in SUBSET (1..n) |-> k[s]]
      OBVIOUS
    <3> QED  BY <2>2, <3>1
  <2>4. n \in Nat
    OBVIOUS
  <2> HIDE DEF Body, k
  <2> QED  BY <2>3, <2>4
<1>3. \E g : Good(g, N)
  <2> HIDE DEF Q, Good
  <2>1. N \in Q
    BY <1>1, <1>2, SetInduction
  <2> QED  BY <2>1 DEF Q
<1> DEFINE iter == CHOOSE g : Good(g, N)
<1>4. Good(iter, N)
  BY <1>3
<1>5. Winners(ev) = iter[1..N]
  BY DEF Winners, FoldLeft, MapThenFoldSet
<1> HIDE DEF iter
<1> DEFINE G == [n \in 0..N |-> iter[1..n]]
<1>6. G[0] = << >> /\ G[N] = iter[1..N]
  <2>1. 1..0 = {} /\ {} \in SUBSET (1..N) /\ 0 \in 0..N /\ N \in 0..N
    OBVIOUS
  <2>2. iter[{}] = Body(iter, {})
    <3> HIDE DEF Body
    <3> QED  BY <1>4, <2>1
  <2> QED  BY <2>1, <2>2
<1>7. ASSUME NEW n \in 1..N PROVE G[n] = KeepLater(G[n - 1], ev[n])
  <2>0. \A i \in Int : (i \in 1..n => i \in 1..N) /\ (i \in 1..n /\ i # n <=> i \in 1..(n - 1))
    OBVIOUS
  <2>1. /\ 1..n \subseteq 1..N /\ n \in 1..n /\ 1..n # {} /\ (1..n) \ {n} = 1..(n - 1)
        /\ n \in Nat /\ n \in 0..N /\ n - 1 \in 0..N
    BY <2>0
  <2>2. Max(1..n) = n
    BY <2>1, MaxOfInterval
  <2>3. iter[1..n] = Body(iter, 1..n)
    <3> HIDE DEF Body
    <3> QED  BY <1>4, <2>1
  <2>4. iter[1..n] = KeepLater(iter[1..(n - 1)], ev[n])
    BY <2>1, <2>2, <2>3
  <2> QED  BY <2>1, <2>4
<1> QED
  BY <1>5, <1>6, <1>7

-----------------------------------------------------------------------------
(* current_items: a batch, and its events one after the other.             *)

\* The row of an event, with a first_seen of its own.
Row(w, f) == [name |-> w.name, first |-> f, last |-> w.time, gone |-> w.type = "deleted"]

\* What the ON CONFLICT clause makes of the row of i.
Upserted(c, i, w, f) ==
    IF i \notin DOMAIN c THEN Row(w, f)
    ELSE IF w.time >= c[i].last THEN Row(w, c[i].first) ELSE c[i]

\* Rows and their fields.
LEMMA RowFields ==
  ASSUME NEW w, NEW f, NEW g
  PROVE  /\ Row(w, f).last = w.time /\ Row(w, f).first = f
         /\ [Row(w, f) EXCEPT !.first = g] = Row(w, g)
         /\ FromEvent(w) = Row(w, w.time)
  BY DEF Row, FromEvent

IsTable(c) == c = [i \in DOMAIN c |-> c[i]]

\* An upsert changes one row.
LEMMA UpsertIsPut ==
  ASSUME NEW c, IsTable(c), NEW i, NEW w, NEW f
  PROVE  Upsert(c, i, Row(w, f)) = Put(c, i, Upserted(c, i, w, f))
<1>1. CASE i \notin DOMAIN c
  BY <1>1 DEF Upsert, Upserted
<1>2. CASE i \in DOMAIN c /\ w.time >= c[i].last
  BY <1>2, RowFields DEF Upsert, Upserted
<1>3. CASE i \in DOMAIN c /\ ~(w.time >= c[i].last)
  <2>1. Upsert(c, i, Row(w, f)) = c /\ Upserted(c, i, w, f) = c[i]
    BY <1>3, RowFields DEF Upsert, Upserted
  <2>2. DOMAIN c \cup {i} = DOMAIN c
    BY <1>3
  <2>3. [x \in DOMAIN c \cup {i} |-> IF x = i THEN c[i] ELSE c[x]] = [x \in DOMAIN c |-> c[x]]
    BY <2>2
  <2> QED  BY <2>1, <2>3 DEF Put, IsTable
<1> QED
  BY <1>1, <1>2, <1>3

\* Two events of an item one after the other do what the later of them does
\* alone, ties to the second: the running maximum of foldCurrentItems.
LEMMA LaterAbsorbs ==
  ASSUME NEW c, NEW i, NEW w, NEW e, NEW f, w.time \in Int, e.time \in Int,
         i \in DOMAIN c => c[i].last \in Int
  PROVE  LET r == Upserted(c, i, w, f)
         IN  /\ r.last \in Int
             /\ (IF e.time >= r.last THEN Row(e, r.first) ELSE r)
                  = Upserted(c, i, IF e.time >= w.time THEN e ELSE w, f)
<1>1. CASE i \notin DOMAIN c
  BY <1>1, RowFields DEF Upserted
<1>2. CASE i \in DOMAIN c /\ w.time >= c[i].last
  <2>1. Upserted(c, i, w, f) = Row(w, c[i].first)
    BY <1>2 DEF Upserted
  <2>2. CASE e.time >= w.time
    <3>1. e.time >= c[i].last
      BY <1>2, <2>2
    <3> QED  BY <1>2, <2>1, <2>2, <3>1, RowFields DEF Upserted
  <2>3. CASE ~(e.time >= w.time)
    BY <1>2, <2>1, <2>3, RowFields DEF Upserted
  <2> QED  BY <2>2, <2>3
<1>3. CASE i \in DOMAIN c /\ ~(w.time >= c[i].last)
  <2>1. Upserted(c, i, w, f) = c[i]
    BY <1>3 DEF Upserted
  <2>2. CASE e.time >= w.time
    BY <1>3, <2>1, <2>2 DEF Upserted
  <2>3. CASE ~(e.time >= w.time)
    <3>1. ~(e.time >= c[i].last)
      BY <1>3, <2>3
    <3> QED  BY <1>3, <2>1, <2>3, <3>1 DEF Upserted
  <2> QED  BY <2>2, <2>3
<1> QED
  BY <1>1, <1>2, <1>3

\* What the winners are after n events.
WinnersOK(ev, w, n) ==
    /\ IsTable(w)
    /\ DOMAIN w = {ev[k].id : k \in 1..n}
    /\ \A i \in DOMAIN w : \E k \in 1..n : w[i] = ev[k] /\ ev[k].id = i

\* They are events of the batch, one for each of its items.
LEMMA WinnersAreEvents ==
  ASSUME NEW ev, NEW N \in Nat, NEW W, W[0] = << >>,
         \A n \in 1..N : W[n] = KeepLater(W[n - 1], ev[n])
  PROVE  \A n \in 0..N : WinnersOK(ev, W[n], n)
<1> DEFINE Q == {n \in 0..N : WinnersOK(ev, W[n], n)}
<1>1. 0 \in Q
  <2>1. {ev[k].id : k \in 1..0} = {} /\ DOMAIN << >> = {}
    OBVIOUS
  <2>2. IsTable(<< >>)
    BY <2>1 DEF IsTable
  <2> QED  BY <2>1, <2>2 DEF WinnersOK
<1>2. ASSUME NEW n \in 1..N, n - 1 \in Q PROVE n \in Q
  <2> DEFINE w == W[n - 1]
             e == ev[n]
             v == W[n]
  <2>1. WinnersOK(ev, w, n - 1)
    BY <1>2
  <2>2. \A k : k \in 1..n <=> k = n \/ k \in 1..(n - 1)
    OBVIOUS
  <2>3. v = KeepLater(w, e) /\ n \in 0..N
    OBVIOUS
  <2>4. {ev[k].id : k \in 1..n} = {ev[k].id : k \in 1..(n - 1)} \cup {e.id}
    BY <2>2
  <2> HIDE DEF v, w
  <2>5. CASE e.id \in DOMAIN w /\ Before(e, w[e.id])
    <3>1. v = w
      BY <2>3, <2>5 DEF KeepLater
    <3> QED  BY <2>1, <2>2, <2>3, <2>4, <2>5, <3>1 DEF WinnersOK, v
  <2>6. CASE ~(e.id \in DOMAIN w /\ Before(e, w[e.id]))
    <3>1. v = [x \in DOMAIN w \cup {e.id} |-> IF x = e.id THEN e ELSE w[x]]
      BY <2>3, <2>6 DEF KeepLater, Put
    <3>2. IsTable(v) /\ DOMAIN v = DOMAIN w \cup {e.id}
      BY <3>1 DEF IsTable
    <3>3. DOMAIN v = {ev[k].id : k \in 1..n}
      BY <2>1, <2>4, <3>2 DEF WinnersOK
    <3>4. ASSUME NEW i \in DOMAIN v PROVE \E k \in 1..n : v[i] = ev[k] /\ ev[k].id = i
      <4>1. CASE i = e.id
        BY <2>2, <3>1, <3>2, <4>1
      <4>2. CASE i # e.id
        <5>1. i \in DOMAIN w /\ v[i] = w[i]
          BY <3>1, <3>2, <4>2
        <5> QED  BY <2>1, <2>2, <5>1 DEF WinnersOK
      <4> QED  BY <4>1, <4>2
    <3>5. WinnersOK(ev, v, n)
      BY <3>2, <3>3, <3>4 DEF WinnersOK
    <3> QED  BY <2>3, <3>5 DEF v
  <2> QED  BY <2>5, <2>6
<1> HIDE DEF Q
<1>3. \A n \in 0..N : n \in Q
  BY <1>1, <1>2, SetInduction
<1> QED
  BY <1>3 DEF Q

\* The first event of an item gives its first_seen.
LEMMA FirstOfItem ==
  ASSUME NEW ev, NEW N \in Nat, DOMAIN ev = 1..N, NEW n \in 1..N,
         \A k \in 1..(n - 1) : ev[k].id # ev[n].id
  PROVE  FirstSeen(ev, ev[n].id) = ev[n].time
<1> DEFINE S == {k \in DOMAIN ev : ev[k].id = ev[n].id}
<1>1. n \in S /\ S \subseteq 1..N
  OBVIOUS
<1>2. \A k \in S : n <= k
  <2> SUFFICES ASSUME NEW k \in S PROVE n <= k
    OBVIOUS
  <2>1. k \in Int /\ 1 <= k /\ ev[k].id = ev[n].id
    OBVIOUS
  <2>2. k \notin 1..(n - 1)
    BY <2>1
  <2> QED  BY <2>1, <2>2
<1> HIDE DEF S
<1>3. \A x \in S : (\A y \in S : x <= y) => x = n
  BY <1>1, <1>2
<1>4. Min(S) = n
  BY <1>1, <1>2, <1>3 DEF Min
<1> QED
  BY <1>4 DEF FirstSeen, S

\* No event stands behind a later one of its item that the tables hold to be
\* simultaneous.
InOrder(ev) ==
    \A j, k \in DOMAIN ev :
       j < k /\ ev[j].id = ev[k].id /\ ev[j].time = ev[k].time => ~(ev[k].sub < ev[j].sub)

\* current_items after the events that have led to the winners w.
CurrentIs(c0, c, w, ev) ==
    c = [i \in DOMAIN c0 \cup DOMAIN w |->
           IF i \in DOMAIN w THEN Upserted(c0, i, w[i], FirstSeen(ev, i)) ELSE c0[i]]

\* One event more, by itself and through the winners.
LEMMA CurrentStep ==
  ASSUME NEW ev, NEW N \in Nat, DOMAIN ev = 1..N, NEW n \in 1..N,
         \A k \in 1..N : ev[k].time \in Int /\ ev[k].sub \in Int,
         InOrder(ev),
         NEW c0, \A i \in DOMAIN c0 : c0[i].last \in Int,
         NEW w, WinnersOK(ev, w, n - 1), NEW c, CurrentIs(c0, c, w, ev)
  PROVE  CurrentIs(c0, ApplyEvent(c, ev[n]), KeepLater(w, ev[n]), ev)
<1> DEFINE e == ev[n]
           i == e.id
           d == ApplyEvent(c, e)
           v == KeepLater(w, e)
           row(x) == IF x \in DOMAIN v THEN Upserted(c0, x, v[x], FirstSeen(ev, x)) ELSE c0[x]
<1>0. e.time \in Int /\ e.sub \in Int
  OBVIOUS
<1>1. IsTable(c) /\ DOMAIN c = DOMAIN c0 \cup DOMAIN w
  BY DEF IsTable, CurrentIs
<1>2. d = Put(c, i, Upserted(c, i, e, e.time))
  BY <1>1, UpsertIsPut, RowFields DEF ApplyEvent
<1>3. d = [x \in DOMAIN c \cup {i} |-> IF x = i THEN Upserted(c, i, e, e.time) ELSE c[x]]
  BY <1>2 DEF Put
<1> HIDE DEF d, v
<1>4. DOMAIN v = DOMAIN w \cup {i} /\ \A x \in DOMAIN w : x # i => v[x] = w[x]
  BY DEF v, KeepLater, Put
<1>5. v[i] = IF i \in DOMAIN w /\ Before(e, w[i]) THEN w[i] ELSE e
  BY DEF v, KeepLater, Put
<1>6. Upserted(c, i, e, e.time) = Upserted(c0, i, v[i], FirstSeen(ev, i))
  <2>1. CASE i \notin DOMAIN w
    <3>1. \A k \in 1..(n - 1) : ev[k].id # i
      BY <2>1 DEF WinnersOK
    <3>2. FirstSeen(ev, i) = e.time
      BY <3>1, FirstOfItem
    <3>3. v[i] = e
      BY <1>5, <2>1
    <3>4. (i \in DOMAIN c <=> i \in DOMAIN c0) /\ (i \in DOMAIN c0 => c[i] = c0[i])
      BY <1>1, <2>1 DEF CurrentIs
    <3> QED  BY <3>2, <3>3, <3>4 DEF Upserted
  <2>2. CASE i \in DOMAIN w
    <3>1. PICK k \in 1..(n - 1) : w[i] = ev[k] /\ ev[k].id = i
      BY <2>2 DEF WinnersOK
    <3>2. k \in 1..N /\ k < n /\ k \in DOMAIN ev /\ n \in DOMAIN ev
      OBVIOUS
    <3>3. ev[k].time \in Int /\ ev[k].sub \in Int
      BY <3>2
    <3>4. Before(e, ev[k]) <=> ~(e.time >= ev[k].time)
      <4>1. ev[k].time = e.time => ~(e.sub < ev[k].sub)
        BY <3>1, <3>2 DEF InOrder
      <4> QED  BY <1>0, <3>3, <4>1 DEF Before
    <3>5. v[i] = IF e.time >= ev[k].time THEN e ELSE ev[k]
      BY <1>5, <2>2, <3>1, <3>4
    <3> DEFINE r == Upserted(c0, i, ev[k], FirstSeen(ev, i))
    <3>6. i \in DOMAIN c /\ c[i] = r
      BY <1>1, <2>2, <3>1 DEF CurrentIs
    <3>7. Upserted(c, i, e, e.time) = IF e.time >= r.last THEN Row(e, r.first) ELSE r
      BY <3>6 DEF Upserted
    <3>8. (IF e.time >= r.last THEN Row(e, r.first) ELSE r)
            = Upserted(c0, i, IF e.time >= ev[k].time THEN e ELSE ev[k], FirstSeen(ev, i))
      BY <1>0, <3>3, LaterAbsorbs
    <3> HIDE DEF r
    <3> QED  BY <3>5, <3>7, <3>8
  <2> QED  BY <2>1, <2>2
<1>7. DOMAIN c \cup {i} = DOMAIN c0 \cup DOMAIN v
  BY <1>1, <1>4
<1>8. ASSUME NEW x \in DOMAIN c \cup {i}
      PROVE  (IF x = i THEN Upserted(c, i, e, e.time) ELSE c[x]) = row(x)
  <2>1. CASE x = i
    BY <1>4, <1>6, <2>1
  <2>2. CASE x # i
    <3>1. x \in DOMAIN c0 \cup DOMAIN w /\ (x \in DOMAIN v <=> x \in DOMAIN w)
      BY <1>1, <1>4, <2>2
    <3>2. c[x] = IF x \in DOMAIN w THEN Upserted(c0, x, w[x], FirstSeen(ev, x)) ELSE c0[x]
      BY <3>1 DEF CurrentIs
    <3> QED  BY <1>4, <2>2, <3>1, <3>2
  <2> QED  BY <2>1, <2>2
<1> HIDE DEF i, row
<1>9. d = [x \in DOMAIN c0 \cup DOMAIN v |-> row(x)]
  BY <1>3, <1>7, <1>8
<1> QED
  BY <1>9 DEF CurrentIs, d, v, row

\* The rows that a batch leaves, by its winners.
LEMMA BatchRows ==
  ASSUME NEW ev, NEW N \in Nat, DOMAIN ev = 1..N, NEW t, IsTable(t.current)
  PROVE  /\ WinnersOK(ev, Winners(ev), N)
         /\ CurrentIs(t.current, IngestEventsBatch(t, ev).current, Winners(ev), ev)
<1> DEFINE c0 == t.current
           w  == Winners(ev)
           folded == foldCurrentItems(ev)
<1>1. WinnersOK(ev, w, N)
  <2>1. PICK W : /\ W[0] = << >>
                 /\ \A n \in 1..N : W[n] = KeepLater(W[n - 1], ev[n])
                 /\ W[N] = Winners(ev)
    BY WinnerSteps
  <2>2. \A n \in 0..N : WinnersOK(ev, W[n], n)
    BY <2>1, WinnersAreEvents
  <2>3. N \in 0..N
    OBVIOUS
  <2> QED  BY <2>1, <2>2, <2>3
<1>2. DOMAIN folded = DOMAIN w /\ \A i \in DOMAIN w : folded[i] = Row(w[i], FirstSeen(ev, i))
  BY RowFields DEF foldCurrentItems
<1>3. IngestEventsBatch(t, ev).current
        = [i \in DOMAIN c0 \cup DOMAIN folded |->
             IF i \in DOMAIN folded THEN Upsert(c0, i, folded[i])[i] ELSE c0[i]]
  BY DEF IngestEventsBatch
<1> HIDE DEF w, folded
<1>4. ASSUME NEW i \in DOMAIN w
      PROVE  Upsert(c0, i, folded[i])[i] = Upserted(c0, i, w[i], FirstSeen(ev, i))
  <2>1. Upsert(c0, i, folded[i]) = Put(c0, i, Upserted(c0, i, w[i], FirstSeen(ev, i)))
    BY <1>2, UpsertIsPut
  <2> QED  BY <2>1 DEF Put
<1>5. CurrentIs(c0, IngestEventsBatch(t, ev).current, w, ev)
  BY <1>2, <1>3, <1>4 DEF CurrentIs
<1> QED
  BY <1>1, <1>5 DEF w

\* The batch leaves current_items as its events in their order do.
LEMMA BatchCurrent ==
  ASSUME NEW ev, NEW N \in Nat, DOMAIN ev = 1..N,
         \A k \in 1..N : ev[k].time \in Int /\ ev[k].sub \in Int,
         InOrder(ev),
         NEW t, IsTable(t.current), \A i \in DOMAIN t.current : t.current[i].last \in Int
  PROVE  IngestEventsBatch(t, ev).current = FoldLeft(IngestEvent, t, ev).current
<1> DEFINE c0 == t.current
<1>1. PICK G : /\ G[0] = t
               /\ \A n \in 1..N : G[n] = IngestEvent(G[n - 1], ev[n])
               /\ G[N] = FoldLeft(IngestEvent, t, ev)
  BY SerialSteps
<1>2. PICK W : /\ W[0] = << >>
               /\ \A n \in 1..N : W[n] = KeepLater(W[n - 1], ev[n])
               /\ W[N] = Winners(ev)
  BY WinnerSteps
<1>3. \A n \in 0..N : WinnersOK(ev, W[n], n)
  BY <1>2, WinnersAreEvents
<1> DEFINE Q == {n \in 0..N : CurrentIs(c0, G[n].current, W[n], ev)}
<1>4. 0 \in Q
  <2>1. DOMAIN << >> = {}
    OBVIOUS
  <2>2. CurrentIs(c0, c0, << >>, ev)
    BY <2>1 DEF CurrentIs, IsTable
  <2> QED  BY <1>1, <1>2, <2>2
<1>5. ASSUME NEW n \in 1..N, n - 1 \in Q PROVE n \in Q
  <2>1. n - 1 \in 0..N /\ n \in 0..N
    OBVIOUS
  <2>2. CurrentIs(c0, ApplyEvent(G[n - 1].current, ev[n]), KeepLater(W[n - 1], ev[n]), ev)
    BY <1>3, <1>5, <2>1, CurrentStep
  <2>3. G[n].current = ApplyEvent(G[n - 1].current, ev[n])
    <3>1. G[n] = IngestEvent(G[n - 1], ev[n])
      BY <1>1
    <3> QED  BY <3>1 DEF IngestEvent
  <2> QED  BY <1>2, <2>1, <2>2, <2>3
<1>6. CurrentIs(c0, G[N].current, W[N], ev)
  <2> HIDE DEF Q
  <2>1. \A n \in 0..N : n \in Q
    BY <1>4, <1>5, SetInduction
  <2>2. N \in 0..N
    OBVIOUS
  <2> QED  BY <2>1, <2>2 DEF Q
<1>7. CurrentIs(c0, IngestEventsBatch(t, ev).current, Winners(ev), ev)
  BY BatchRows
<1> QED
  BY <1>1, <1>2, <1>6, <1>7 DEF CurrentIs

-----------------------------------------------------------------------------
(* event_buckets: a batch, its events one after the other, and their sum.  *)

Rows(S, k) == {r \in S : Bucket(r) = k}

\* A bucket has finitely many rows.
LEMMA RowsFinite ==
  ASSUME NEW S, NEW k, IsFiniteSet(S)
  PROVE  IsFiniteSet(Rows(S, k)) /\ Cardinality(Rows(S, k)) \in Nat
<1>1. Rows(S, k) \subseteq S
  BY DEF Rows
<1>2. IsFiniteSet(Rows(S, k))
  BY <1>1, FS_Subset
<1> QED
  BY <1>2, FS_CardinalityType

\* One event is counted as its key is.
LEMMA BumpByKey ==
  ASSUME NEW b, NEW e
  PROVE  BumpAll(b, {e}) = BumpAll(b, {Key(e)})
<1>1. Bucket(Key(e)) = Bucket(e)
  BY DEF Bucket, Key
<1>2. {Bucket(r) : r \in {e}} = {Bucket(r) : r \in {Key(e)}}
  BY <1>1
<1>3. ASSUME NEW k
      PROVE  Cardinality({r \in {e} : Bucket(r) = k})
               = Cardinality({r \in {Key(e)} : Bucket(r) = k})
  <2>1. CASE Bucket(e) = k
    <3>1. {r \in {e} : Bucket(r) = k} = {e}
      BY <2>1
    <3>2. {r \in {Key(e)} : Bucket(r) = k} = {Key(e)}
      BY <2>1, <1>1
    <3> QED  BY <3>1, <3>2, FS_Singleton
  <2>2. CASE Bucket(e) # k
    <3>1. {r \in {e} : Bucket(r) = k} = {} /\ {r \in {Key(e)} : Bucket(r) = k} = {}
      BY <2>2, <1>1
    <3> QED  BY <3>1
  <2> QED  BY <2>1, <2>2
<1> QED
  BY <1>2, <1>3 DEF BumpAll

\* Buckets that are bumped for nothing stay as they are.
LEMMA BumpNothing ==
  ASSUME NEW b, IsTable(b), \A k \in DOMAIN b : b[k] \in Nat
  PROVE  BumpAll(b, {}) = b
<1>1. {Bucket(r) : r \in {}} = {} /\ \A x : {r \in {} : Bucket(r) = x} = {}
  OBVIOUS
<1>2. Cardinality({}) = 0
  BY FS_EmptySet
<1>3. BumpAll(b, {}) = [x \in DOMAIN b |-> CountIn(b, x) + 0]
  BY <1>1, <1>2 DEF BumpAll
<1>4. \A x \in DOMAIN b : CountIn(b, x) + 0 = b[x]
  BY DEF CountIn
<1> QED
  BY <1>3, <1>4 DEF IsTable

\* Rows that are new one after the other are counted as when they come
\* together.
LEMMA BumpOneMore ==
  ASSUME NEW b, \A k \in DOMAIN b : b[k] \in Nat,
         NEW A, IsFiniteSet(A), NEW r, r \notin A
  PROVE  BumpAll(BumpAll(b, A), {r}) = BumpAll(b, A \cup {r})
<1> DEFINE b1 == BumpAll(b, A)
           one(x) == Cardinality(Rows({r}, x))
           D  == DOMAIN b \cup {Bucket(q) : q \in A \cup {r}}
<1>1. DOMAIN b1 = DOMAIN b \cup {Bucket(q) : q \in A}
  BY DEF BumpAll
<1>2. BumpAll(b1, {r}) = [x \in DOMAIN b1 \cup {Bucket(q) : q \in {r}} |-> CountIn(b1, x) + one(x)]
  BY DEF BumpAll, Rows
<1>3. DOMAIN b1 \cup {Bucket(q) : q \in {r}} = D
  BY <1>1
<1>4. BumpAll(b, A \cup {r}) = [x \in D |-> CountIn(b, x) + Cardinality(Rows(A \cup {r}, x))]
  BY DEF BumpAll, Rows
<1>5. ASSUME NEW x
      PROVE  CountIn(b1, x) = CountIn(b, x) + Cardinality(Rows(A, x)) /\ CountIn(b, x) \in Nat
  <2>1. CountIn(b, x) \in Nat
    BY DEF CountIn
  <2>2. CASE x \in DOMAIN b1
    BY <1>1, <2>1, <2>2 DEF CountIn, BumpAll, Rows
  <2>3. CASE x \notin DOMAIN b1
    <3>1. Rows(A, x) = {} /\ x \notin DOMAIN b
      BY <1>1, <2>3 DEF Rows
    <3> QED  BY <2>3, <3>1, FS_EmptySet DEF CountIn
  <2> QED  BY <2>1, <2>2, <2>3
<1>6. ASSUME NEW x
      PROVE  /\ Cardinality(Rows(A \cup {r}, x)) = Cardinality(Rows(A, x)) + one(x)
             /\ Cardinality(Rows(A, x)) \in Nat /\ one(x) \in Nat
  <2>1. IsFiniteSet(Rows(A, x)) /\ Cardinality(Rows(A, x)) \in Nat
    BY RowsFinite
  <2>2. CASE Bucket(r) = x
    <3>1. Rows(A \cup {r}, x) = Rows(A, x) \cup {r} /\ Rows({r}, x) = {r} /\ r \notin Rows(A, x)
      BY <2>2 DEF Rows
    <3>2. Cardinality(Rows(A, x) \cup {r}) = Cardinality(Rows(A, x)) + 1
      BY <2>1, <3>1, FS_AddElement
    <3>3. Cardinality({r}) = 1
      BY FS_Singleton
    <3>4. one(x) = 1 /\ Cardinality(Rows(A \cup {r}, x)) = Cardinality(Rows(A, x) \cup {r})
      BY <3>1, <3>3
    <3> HIDE DEF one
    <3> QED  BY <2>1, <3>2, <3>4
  <2>3. CASE Bucket(r) # x
    <3>1. Rows(A \cup {r}, x) = Rows(A, x) /\ Rows({r}, x) = {}
      BY <2>3 DEF Rows
    <3> QED  BY <2>1, <3>1, FS_EmptySet
  <2> QED  BY <2>2, <2>3
<1> HIDE DEF b1, one, D
<1>7. \A x \in D : CountIn(b1, x) + one(x) = CountIn(b, x) + Cardinality(Rows(A \cup {r}, x))
  <2> SUFFICES ASSUME NEW x \in D
               PROVE  CountIn(b1, x) + one(x) = CountIn(b, x) + Cardinality(Rows(A \cup {r}, x))
    OBVIOUS
  <2>1. CountIn(b1, x) = CountIn(b, x) + Cardinality(Rows(A, x)) /\ CountIn(b, x) \in Nat
    BY <1>5
  <2>2. /\ Cardinality(Rows(A \cup {r}, x)) = Cardinality(Rows(A, x)) + one(x)
        /\ Cardinality(Rows(A, x)) \in Nat /\ one(x) \in Nat
    BY <1>6
  <2> QED  BY <2>1, <2>2
<1>8. BumpAll(b1, {r}) = [x \in D |-> CountIn(b1, x) + one(x)]
  BY <1>2, <1>3
<1> QED
  BY <1>4, <1>7, <1>8 DEF b1

\* The keys of the first n events.
KeysTo(ev, n) == {Key(ev[k]) : k \in 1..n}

\* Finitely many.
LEMMA KeysToFinite ==
  ASSUME NEW ev, NEW n \in Nat
  PROVE  IsFiniteSet(KeysTo(ev, n))
<1> DEFINE keys == [k \in 1..n |-> Key(ev[k])]
<1>1. keys \in Seq(KeysTo(ev, n)) /\ Len(keys) = n
  BY DEF KeysTo
<1>2. \A x \in KeysTo(ev, n) : \E k \in 1..Len(keys) : keys[k] = x
  BY <1>1 DEF KeysTo
<1> QED
  BY <1>1, <1>2 DEF IsFiniteSet

\* The batch inserts and counts what its events one by one insert and count,
\* duplicates within the batch or of older rows included.
LEMMA BatchCounts ==
  ASSUME NEW ev, NEW N \in Nat, DOMAIN ev = 1..N,
         NEW t, IsTable(t.buckets), \A k \in DOMAIN t.buckets : t.buckets[k] \in Nat
  PROVE  /\ IngestEventsBatch(t, ev).events = FoldLeft(IngestEvent, t, ev).events
         /\ IngestEventsBatch(t, ev).buckets = FoldLeft(IngestEvent, t, ev).buckets
<1>1. PICK G : /\ G[0] = t
               /\ \A n \in 1..N : G[n] = IngestEvent(G[n - 1], ev[n])
               /\ G[N] = FoldLeft(IngestEvent, t, ev)
  BY SerialSteps
<1> DEFINE new(n) == KeysTo(ev, n) \ t.events
           J(n) == /\ G[n].events = t.events \cup KeysTo(ev, n)
                   /\ G[n].buckets = BumpAll(t.buckets, new(n))
           Q == {n \in 0..N : J(n)}
<1>2. 0 \in Q
  <2>1. KeysTo(ev, 0) = {} /\ new(0) = {}
    BY DEF KeysTo
  <2>2. BumpAll(t.buckets, {}) = t.buckets
    BY BumpNothing
  <2>3. J(0)
    BY <1>1, <2>1, <2>2
  <2> QED  BY <2>3
<1>3. ASSUME NEW n \in 1..N, n - 1 \in Q PROVE n \in Q
  <2> DEFINE g == G[n - 1]
             e == ev[n]
             A == new(n - 1)
  <2>1. G[n] = IngestEvent(g, e) /\ n \in 0..N /\ n - 1 \in Nat
    BY <1>1
  <2>2. \A k : k \in 1..n <=> k = n \/ k \in 1..(n - 1)
    OBVIOUS
  <2>3. KeysTo(ev, n) = KeysTo(ev, n - 1) \cup {Key(e)}
    BY <2>2 DEF KeysTo
  <2>4. g.events = t.events \cup KeysTo(ev, n - 1) /\ g.buckets = BumpAll(t.buckets, A)
    BY <1>3
  <2> HIDE DEF g, e
  <2>5. G[n].events = t.events \cup KeysTo(ev, n)
    BY <2>1, <2>3, <2>4 DEF IngestEvent
  <2>6. G[n].buckets = BumpAll(t.buckets, new(n))
    <3>1. CASE Key(e) \in g.events
      <4>1. new(n) = A
        BY <2>3, <2>4, <3>1
      <4>2. G[n].buckets = g.buckets
        BY <2>1, <3>1 DEF IngestEvent
      <4> HIDE DEF A, new
      <4> QED  BY <2>4, <4>1, <4>2
    <3>2. CASE Key(e) \notin g.events
      <4>1. new(n) = A \cup {Key(e)} /\ Key(e) \notin A
        BY <2>3, <2>4, <3>2
      <4>2. G[n].buckets = BumpAll(BumpAll(t.buckets, A), {Key(e)})
        <5>1. G[n].buckets = BumpAll(g.buckets, {e})
          BY <2>1, <3>2 DEF IngestEvent
        <5> QED  BY <2>4, <5>1, BumpByKey
      <4>3. IsFiniteSet(A)
        BY <2>1, KeysToFinite, FS_Subset
      <4> HIDE DEF A, new
      <4> QED  BY <4>1, <4>2, <4>3, BumpOneMore
    <3> QED  BY <3>1, <3>2
  <2> QED  BY <2>1, <2>5, <2>6
<1>4. J(N)
  <2> HIDE DEF Q, J
  <2>1. \A n \in 0..N : n \in Q
    BY <1>2, <1>3, SetInduction
  <2>2. N \in 0..N
    OBVIOUS
  <2> QED  BY <2>1, <2>2 DEF Q
<1>5. Inserted(t, ev) = new(N)
  BY DEF Inserted, KeysTo
<1>6. /\ IngestEventsBatch(t, ev).events = t.events \cup new(N)
      /\ IngestEventsBatch(t, ev).buckets = BumpAll(t.buckets, new(N))
  BY <1>5 DEF IngestEventsBatch
<1>7. t.events \cup new(N) = t.events \cup KeysTo(ev, N)
  OBVIOUS
<1> QED
  BY <1>1, <1>4, <1>6, <1>7

\* The rows of several buckets are counted one bucket after the other.
LEMMA OneBucketMore ==
  ASSUME NEW evr, IsFiniteSet(evr), NEW s, NEW x \in s
  PROVE  Cardinality({r \in evr : Bucket(r) \in s})
           = Cardinality(Rows(evr, x)) + Cardinality({r \in evr : Bucket(r) \in s \ {x}})
<1> DEFINE A == Rows(evr, x)
           B == {r \in evr : Bucket(r) \in s \ {x}}
           C == {r \in evr : Bucket(r) \in s}
<1>1. A \in SUBSET evr /\ B \in SUBSET evr /\ C = A \cup B /\ A \cap B = {}
  BY DEF Rows
<1> HIDE DEF A, B, C
<1>2. IsFiniteSet(A) /\ IsFiniteSet(B) /\ Cardinality(A) \in Nat /\ Cardinality(B) \in Nat
  BY <1>1, FS_Subset, FS_CardinalityType
<1>3. Cardinality(C) = Cardinality(A) + Cardinality(B) - Cardinality({})
  BY <1>1, <1>2, FS_Union
<1>4. Cardinality({}) = 0
  BY FS_EmptySet
<1>5. Cardinality(C) = Cardinality(A) + Cardinality(B)
  BY <1>2, <1>3, <1>4
<1> QED
  BY <1>5 DEF A, B, C

\* The sum of the counts of the buckets from a time on is the number of the
\* events in them, if each of these counts is right (StatsLast24h).
LEMMA StatsCountRows ==
  ASSUME NEW t, NEW y, NEW from, NEW evr, NEW K, IsFiniteSet(evr), IsFiniteSet(K),
         K = {k \in DOMAIN t.buckets : k[2] = y /\ k[1] * HourLength >= from},
         \A k \in K : t.buckets[k] = Cardinality(Rows(evr, k))
  PROVE  StatsSince(t, y, from) = Cardinality({r \in evr : Bucket(r) \in K})
<1> DEFINE C(s) == Cardinality({r \in evr : Bucket(r) \in s})
           Body(g, s) == IF s = {} THEN 0
                         ELSE t.buckets[CHOOSE x \in s : TRUE] + g[s \ {CHOOSE x \in s : TRUE}]
           Good(g) == g = [s \in SUBSET K |-> Body(g, s)]
           iter == CHOOSE g : Good(g)
<1>1. StatsSince(t, y, from) = iter[K]
  BY DEF StatsSince, MapThenSumSet, MapThenFoldSet
<1>2. C({}) = 0
  <2>1. {r \in evr : Bucket(r) \in {}} = {}
    OBVIOUS
  <2> QED  BY <2>1, FS_EmptySet
<1>3. ASSUME NEW s \in SUBSET K, s # {}
      PROVE  C(s) = t.buckets[CHOOSE x \in s : TRUE] + C(s \ {CHOOSE x \in s : TRUE})
  <2> DEFINE x == CHOOSE x \in s : TRUE
  <2>1. x \in s
    BY <1>3
  <2> HIDE DEF x
  <2>2. C(s) = Cardinality(Rows(evr, x)) + C(s \ {x})
    BY <2>1, OneBucketMore
  <2>3. t.buckets[x] = Cardinality(Rows(evr, x))
    BY <2>1
  <2> QED  BY <2>2, <2>3 DEF x
<1>4. \E g : Good(g)
  <2> HIDE DEF C
  <2> DEFINE g == [s \in SUBSET K |-> C(s)]
  <2>1. ASSUME NEW s \in SUBSET K PROVE C(s) = Body(g, s)
    <3>1. CASE s = {}
      BY <1>2, <3>1
    <3>2. CASE s # {}
      <4>1. s \ {CHOOSE x \in s : TRUE} \in SUBSET K
        OBVIOUS
      <4> QED  BY <1>3, <3>2, <4>1
    <3> QED  BY <3>1, <3>2
  <2>2. Good(g)
    <3> HIDE DEF Body
    <3> QED  BY <2>1
  <2> HIDE DEF Good, g
  <2> QED  BY <2>2
<1>5. Good(iter)
  <2> HIDE DEF Good
  <2> QED  BY <1>4
<1> HIDE DEF iter, C
<1>6. iter[K] = C(K)
  <2> DEFINE T == {n \in Nat : \E s \in SUBSET K : Cardinality(s) = n /\ iter[s] # C(s)}
  <2> SUFFICES ASSUME iter[K] # C(K) PROVE FALSE
    OBVIOUS
  <2>1. Cardinality(K) \in T
    BY FS_CardinalityType
  <2>2. T \subseteq Nat
    OBVIOUS
  <2>3. PICK n \in T : \A m \in T : n <= m
    <3> HIDE DEF T
    <3> QED  BY <2>1, <2>2, LeastNat
  <2>4. PICK s \in SUBSET K : Cardinality(s) = n /\ iter[s] # C(s)
    BY <2>3
  <2>5. iter[s] = Body(iter, s)
    <3> HIDE DEF Body
    <3> QED  BY <1>5
  <2>6. s # {}
    BY <1>2, <2>4, <2>5
  <2> DEFINE x == CHOOSE x \in s : TRUE
             u == s \ {x}
  <2>7. x \in s
    BY <2>6
  <2>8. iter[s] = t.buckets[x] + iter[u] /\ C(s) = t.buckets[x] + C(u)
    BY <1>3, <2>5, <2>6
  <2> HIDE DEF x
  <2>9. u \in SUBSET K /\ IsFiniteSet(s) /\ Cardinality(s) \in Nat
    BY FS_Subset, FS_CardinalityType
  <2>10. IsFiniteSet(u) /\ Cardinality(u) = Cardinality(s) - 1 /\ Cardinality(u) \in Nat
    BY <2>7, <2>9, FS_RemoveElement, FS_CardinalityType
  <2> HIDE DEF u
  <2>11. iter[u] = C(u)
    <3>1. Cardinality(u) \notin T
      BY <2>2, <2>3, <2>4, <2>9, <2>10
    <3> QED  BY <2>9, <2>10, <3>1
  <2> QED  BY <2>4, <2>8, <2>11
<1> QED
  BY <1>1, <1>6 DEF C

-----------------------------------------------------------------------------
(* Arithmetic of hours and days.                                           *)

\* One more hour fits below a later full hour.
LEMMA HourFits ==
  ASSUME NEW H \in Nat, NEW p \in Nat, NEW q \in Nat, p < q
  PROVE  p * H + H <= q * H
<1>1. PICK d \in Nat : q = p + 1 + d
  <2>1. q - p - 1 \in Nat /\ q = p + 1 + (q - p - 1)
    OBVIOUS
  <2> QED  BY <2>1
<1>2. q * H = p * H + H + d * H
  BY <1>1
<1>3. p * H \in Nat /\ d * H \in Nat
  OBVIOUS
<1> QED
  BY <1>2, <1>3

\* Days are made of hours, and at least --days of them have passed.
LEMMA WindowAligned ==
  ASSUME NEW t \in Nat, t >= Days * DayLength
  PROVE  \E p, q \in Nat :
           /\ p <= q
           /\ (t \div HourLength) * HourLength = q * HourLength
           /\ (t \div HourLength) * HourLength - Days * DayLength = p * HourLength
           /\ q * HourLength <= t
<1> DEFINE H == HourLength
           d == DayLength \div H
           q == t \div H
<1>1. H \in Nat \ {0} /\ DayLength \in Nat \ {0} /\ Days \in Nat \ {0}
  BY HourAssumption, SeedAssumption
<1>2. DayLength = d * H /\ d \in Nat
  BY <1>1, SeedAssumption
<1>3. q \in Nat /\ q * H <= t /\ t < q * H + H
  BY <1>1
<1>4. Days * DayLength = (Days * d) * H /\ Days * d \in Nat
  BY <1>1, <1>2
<1> DEFINE m == Days * d
<1>5. m * H < q * H + H
  BY <1>1, <1>3, <1>4
<1> HIDE DEF H, d, q, m
<1>6. m <= q
  <2> SUFFICES ASSUME q < m PROVE FALSE
    BY <1>3, <1>4 DEF m
  <2>1. q * H + H <= m * H
    BY <1>1, <1>3, <1>4, HourFits DEF m
  <2>2. q * H \in Nat /\ m * H \in Nat /\ H \in Nat
    BY <1>1, <1>3, <1>4 DEF m
  <2> QED  BY <1>5, <2>1, <2>2
<1>7. q - m \in Nat /\ q * H - m * H = (q - m) * H /\ q - m <= q
  BY <1>1, <1>3, <1>4, <1>6 DEF m
<1> QED
  BY <1>3, <1>4, <1>7 DEF H, q, m

\* Retention keeps rows for some time, whatever the setting.
Kept == RetentionDays * DayLength

LEMMA RetentionKeepsSome == Kept \in Nat \ {0}
<1>1. RetentionDays \in Nat \ {0}
  BY SeedAssumption DEF RetentionDays
<1>2. DayLength \in Nat \ {0}
  BY SeedAssumption
<1>3. \A a, b \in Nat \ {0} : a * b \in Nat \ {0}
  OBVIOUS
<1> QED
  BY <1>1, <1>2, <1>3 DEF Kept

-----------------------------------------------------------------------------
(* Types.                                                                  *)

\* The tables: what TypeOK says of them, that there are no others, and that
\* they are finite.
CurrentOK(c) ==
    /\ IsTable(c) /\ DOMAIN c \subseteq Items
    /\ \A i \in DOMAIN c : c[i].last \in Int

TablesOK(t, evr) ==
    /\ t = [events |-> t.events, buckets |-> t.buckets, current |-> t.current]
    /\ t.events \subseteq evr
    /\ evr \subseteq Keys
    /\ IsFiniteSet(evr)
    /\ IsTable(t.buckets) /\ \A k \in DOMAIN t.buckets : t.buckets[k] \in Nat
    /\ CurrentOK(t.current)

\* The seed process's walk through the hours: whole hours, up to the full
\* hour before it started, and a batch that is never more than full.
WalkOK ==
    /\ \E p, q \in Nat : p <= q /\ hour = p * HourLength /\ end = q * HourLength
    /\ end <= now
    /\ pc \in {"draw", "flush"} => hour # end
    /\ pending \in Seq(Events(0..MaxClock, Subs))
    /\ Len(pending) <= BatchSize
    /\ pc \in {"hour", "draw"} => Len(pending) < BatchSize

CountersOK ==
    /\ recounted \subseteq ever
    /\ drawn \subseteq Keys
    /\ marker \in [scale : Scales, written : Nat] \cup {NoMarker}
    /\ now \in StartClock..MaxClock
    /\ pc \in {"idle", "hour", "draw", "flush", "final", "detached",
               "retention", "marker"}
    /\ scale \in Scales
    /\ written \in Nat /\ landed \in Nat /\ faults \in Nat

SeedTypes == TablesOK(tables, ever) /\ WalkOK /\ CountersOK

\* The keys of a batch.
KeysOf(batch) == {Key(batch[k]) : k \in DOMAIN batch}

\* They are keys, and finitely many.
LEMMA KeysOfBatch ==
  ASSUME NEW batch \in Seq(Events(0..MaxClock, Subs))
  PROVE  KeysOf(batch) \subseteq Keys /\ IsFiniteSet(KeysOf(batch))
<1>1. \A k \in DOMAIN batch : batch[k] \in Events(0..MaxClock, Subs)
  OBVIOUS
<1>2. \A e \in Events(0..MaxClock, Subs) : Key(e) \in Keys
  BY DEF Events, Key, Keys
<1>3. DOMAIN batch = 1..Len(batch) /\ Len(batch) \in Nat
  OBVIOUS
<1>4. IsFiniteSet(KeysOf(batch))
  <2> DEFINE keys == [k \in 1..Len(batch) |-> Key(batch[k])]
  <2>1. keys \in Seq(KeysOf(batch)) /\ Len(keys) = Len(batch)
    BY <1>3 DEF KeysOf
  <2>2. \A x \in KeysOf(batch) : \E n \in 1..Len(keys) : keys[n] = x
    BY <1>3, <2>1 DEF KeysOf
  <2> QED  BY <2>1, <2>2 DEF IsFiniteSet
<1> QED
  BY <1>1, <1>2, <1>4 DEF KeysOf

\* current_items keeps its type under a batch.
LEMMA BatchCurrentOK ==
  ASSUME NEW t, CurrentOK(t.current), NEW batch \in Seq(Events(0..MaxClock, Subs))
  PROVE  CurrentOK(IngestEventsBatch(t, batch).current)
<1> DEFINE N == Len(batch)
           w == Winners(batch)
           c == t.current
           n == IngestEventsBatch(t, batch).current
<1>1. N \in Nat /\ DOMAIN batch = 1..N
  OBVIOUS
<1>2. \A k \in 1..N : batch[k].id \in Items /\ batch[k].time \in Int
  <2>1. \A k \in 1..N : batch[k] \in Events(0..MaxClock, Subs)
    BY <1>1
  <2>2. \A e \in Events(0..MaxClock, Subs) : e.id \in Items /\ e.time \in Int
    BY SeedAssumption DEF Events
  <2> QED  BY <2>1, <2>2
<1> HIDE DEF N, w, n
<1>3. WinnersOK(batch, w, N) /\ CurrentIs(c, n, w, batch)
  BY <1>1, BatchRows DEF CurrentOK, w, n
<1>4. IsTable(n) /\ DOMAIN n = DOMAIN c \cup DOMAIN w
  BY <1>3 DEF CurrentIs, IsTable
<1>5. \A i \in DOMAIN w : i \in Items /\ w[i].time \in Int
  BY <1>2, <1>3 DEF WinnersOK
<1>6. ASSUME NEW i \in DOMAIN n PROVE n[i].last \in Int
  <2>1. CASE i \in DOMAIN w
    <3>1. n[i] = Upserted(c, i, w[i], FirstSeen(batch, i))
      BY <1>3, <1>4, <2>1 DEF CurrentIs
    <3> QED  BY <1>5, <2>1, <3>1, RowFields DEF Upserted, CurrentOK
  <2>2. CASE i \notin DOMAIN w
    <3>1. n[i] = c[i] /\ i \in DOMAIN c
      BY <1>3, <1>4, <2>2 DEF CurrentIs
    <3> QED  BY <3>1 DEF CurrentOK
  <2> QED  BY <2>1, <2>2
<1> QED
  BY <1>4, <1>5, <1>6 DEF CurrentOK, n

\* And under a single event.
LEMMA EventCurrentOK ==
  ASSUME NEW c, CurrentOK(c), NEW e \in Events(0..MaxClock, {0})
  PROVE  CurrentOK(ApplyEvent(c, e))
<1> DEFINE i == e.id
           r == Upserted(c, i, e, e.time)
           n == ApplyEvent(c, e)
<1>1. e.id \in Items /\ e.time \in Int
  BY SeedAssumption DEF Events
<1>2. n = Put(c, i, r)
  BY UpsertIsPut, RowFields DEF ApplyEvent, CurrentOK
<1>3. r.last \in Int
  BY <1>1, RowFields DEF Upserted, CurrentOK
<1> HIDE DEF n, r
<1>4. n = [x \in DOMAIN c \cup {i} |-> IF x = i THEN r ELSE c[x]]
  BY <1>2 DEF Put
<1>5. IsTable(n) /\ DOMAIN n = DOMAIN c \cup {i}
  BY <1>4 DEF IsTable
<1>6. \A x \in DOMAIN n : n[x].last \in Int
  BY <1>3, <1>4, <1>5 DEF CurrentOK
<1> QED
  BY <1>1, <1>5, <1>6 DEF CurrentOK, n

\* What a committed batch does to the tables.
LEMMA BatchTables ==
  ASSUME NEW t, NEW evr, NEW batch \in Seq(Events(0..MaxClock, Subs)), TablesOK(t, evr)
  PROVE  LET new == Inserted(t, batch)
             n   == IngestEventsBatch(t, batch)
         IN  /\ new = KeysOf(batch) \ t.events
             /\ IsFiniteSet(new) /\ Cardinality(new) \in Nat
             /\ n.events = t.events \cup new
             /\ n.buckets = BumpAll(t.buckets, new)
             /\ TablesOK(n, evr \cup new)
<1> DEFINE new == Inserted(t, batch)
           n   == IngestEventsBatch(t, batch)
<1>1. new = KeysOf(batch) \ t.events
  BY DEF Inserted, KeysOf
<1>2. /\ n.events = t.events \cup new /\ n.buckets = BumpAll(t.buckets, new)
      /\ n = [events |-> n.events, buckets |-> n.buckets, current |-> n.current]
  BY DEF IngestEventsBatch
<1>c. CurrentOK(n.current) /\ IsTable(n.buckets)
  <2>1. CurrentOK(t.current)
    BY DEF TablesOK
  <2>2. IsTable(BumpAll(t.buckets, new))
    BY DEF BumpAll, IsTable
  <2> QED  BY <1>2, <2>1, <2>2, BatchCurrentOK
<1> HIDE DEF new, n
<1>3. new \subseteq Keys /\ IsFiniteSet(new)
  BY <1>1, KeysOfBatch, FS_Difference
<1>4. Cardinality(new) \in Nat
  BY <1>3, FS_CardinalityType
<1>5. IsFiniteSet(evr \cup new)
  BY <1>3, FS_Union DEF TablesOK
<1>6. ASSUME NEW k \in DOMAIN n.buckets PROVE n.buckets[k] \in Nat
  <2>1. n.buckets[k] = CountIn(t.buckets, k) + Cardinality({r \in new : Bucket(r) = k})
    BY <1>2 DEF BumpAll
  <2>2. CountIn(t.buckets, k) \in Nat
    BY DEF CountIn, TablesOK
  <2>3. Cardinality({r \in new : Bucket(r) = k}) \in Nat
    <3>1. {r \in new : Bucket(r) = k} \subseteq new
      OBVIOUS
    <3>2. IsFiniteSet({r \in new : Bucket(r) = k})
      BY <1>3, <3>1, FS_Subset
    <3> QED  BY <3>2, FS_CardinalityType
  <2> QED  BY <2>1, <2>2, <2>3
<1>7. TablesOK(n, evr \cup new)
  BY <1>2, <1>c, <1>3, <1>5, <1>6 DEF TablesOK
<1> QED
  BY <1>1, <1>2, <1>3, <1>4, <1>7 DEF new, n

\* What an event of the stream does to them.
LEMMA LiveTables ==
  ASSUME NEW t, NEW evr, NEW e \in Events(0..MaxClock, {0}), TablesOK(t, evr)
  PROVE  LET n == IngestEvent(t, e)
         IN  /\ n.events = t.events \cup {Key(e)}
             /\ n.buckets = IF Key(e) \in t.events THEN t.buckets
                                                   ELSE BumpAll(t.buckets, {e})
             /\ TablesOK(n, evr \cup {Key(e)})
<1> DEFINE n == IngestEvent(t, e)
<1>1. /\ n.events = t.events \cup {Key(e)}
      /\ n.buckets = IF Key(e) \in t.events THEN t.buckets ELSE BumpAll(t.buckets, {e})
      /\ n = [events |-> n.events, buckets |-> n.buckets, current |-> n.current]
  BY DEF IngestEvent
<1>c. CurrentOK(n.current) /\ IsTable(n.buckets)
  <2>1. CurrentOK(t.current) /\ IsTable(t.buckets)
    BY DEF TablesOK
  <2>2. IsTable(BumpAll(t.buckets, {e}))
    BY DEF BumpAll, IsTable
  <2>3. n.current = ApplyEvent(t.current, e)
    BY DEF IngestEvent
  <2> HIDE DEF n
  <2> QED  BY <1>1, <2>1, <2>2, <2>3, EventCurrentOK
<1> HIDE DEF n
<1>2. Key(e) \in Keys
  BY DEF Events, Key, Keys
<1>3. IsFiniteSet(evr \cup {Key(e)})
  BY FS_AddElement DEF TablesOK
<1>4. ASSUME NEW k \in DOMAIN BumpAll(t.buckets, {e})
      PROVE  BumpAll(t.buckets, {e})[k] \in Nat
  <2>1. BumpAll(t.buckets, {e})[k]
          = CountIn(t.buckets, k) + Cardinality({r \in {e} : Bucket(r) = k})
    BY DEF BumpAll
  <2>2. CountIn(t.buckets, k) \in Nat
    BY DEF CountIn, TablesOK
  <2>3. {r \in {e} : Bucket(r) = k} \subseteq {e} /\ IsFiniteSet({e})
    BY FS_Singleton
  <2>4. IsFiniteSet({r \in {e} : Bucket(r) = k})
    BY <2>3, FS_Subset
  <2>5. Cardinality({r \in {e} : Bucket(r) = k}) \in Nat
    BY <2>4, FS_CardinalityType
  <2> QED  BY <2>1, <2>2, <2>5
<1>5. \A k \in DOMAIN n.buckets : n.buckets[k] \in Nat
  BY <1>1, <1>4 DEF TablesOK
<1>6. TablesOK(n, evr \cup {Key(e)})
  BY <1>1, <1>c, <1>2, <1>3, <1>5 DEF TablesOK
<1> QED
  BY <1>1, <1>6 DEF n

\* And a retention pass: it takes old raw rows, and only those.
LEMMA TrimmedTables ==
  ASSUME TablesOK(tables, ever)
  PROVE  /\ runOnce.events = {r \in tables.events : r.time >= now - Kept}
         /\ runOnce.buckets = tables.buckets
         /\ TablesOK(runOnce, ever)
<1> DEFINE rows == {r \in tables.events : r.time >= now - Kept}
<1>1. tables = [events |-> tables.events, buckets |-> tables.buckets, current |-> tables.current]
  BY DEF TablesOK
<1>2. runOnce = [tables EXCEPT !.events = rows]
  BY DEF runOnce, DeleteEventsOlderThan, Kept
<1> HIDE DEF rows
<1>3. runOnce = [events |-> rows, buckets |-> tables.buckets, current |-> tables.current]
  BY <1>1, <1>2
<1>4. rows \subseteq tables.events
  BY DEF rows
<1>5. TablesOK(runOnce, ever)
  BY <1>3, <1>4 DEF TablesOK
<1> QED
  BY <1>3, <1>5 DEF rows

-----------------------------------------------------------------------------
(* The steps, as the tables see them: nothing, a batch, a retention pass or *)
(* an event of the stream.                                                 *)

\* Every step is one of the four; only Tick moves the clock.
LEMMA TableSteps ==
  ASSUME [Next]_vars
  PROVE  \/ UNCHANGED tableVars /\ now' \in {now, now + 1}
         \/ CommitBatch /\ now' = now
         \/ tables' = runOnce /\ UNCHANGED <<ever, recounted, now>>
         \/ \E e \in Events({now}, {0}) : IngestLive(e)
<1>1. CASE \E s \in Scales : StartSeed(s)
  BY <1>1 DEF StartSeed, tableVars
<1>2. CASE Cancel \/ TopOfHour \/ NextHour \/ Draw \/ Crash \/ UpsertSeedMarker \/ Tick
  BY <1>2 DEF Cancel, TopOfHour, NextHour, Draw, Crash, UpsertSeedMarker, Tick,
              Elsewhere, tableVars, Fault
<1>3. CASE Flush \/ FlushFails \/ FlushDetached
  BY <1>3 DEF Flush, FlushFails, FlushDetached, NoCommit, Elsewhere, tableVars
<1>4. CASE ClosingRetention \/ ServiceRetention
  BY <1>4 DEF ClosingRetention, ServiceRetention, Elsewhere, tableVars
<1>5. CASE UNCHANGED vars
  BY <1>5 DEF vars, tableVars
<1> QED
  BY <1>1, <1>2, <1>3, <1>4, <1>5 DEF Next, SeedStep

\* The tables keep their types, whichever of the four it is.
LEMMA TablesInductive ==
  ASSUME SeedTypes, [Next]_vars
  PROVE  TablesOK(tables', ever')
<1>0. TablesOK(tables, ever) /\ pending \in Seq(Events(0..MaxClock, Subs))
  BY DEF SeedTypes, WalkOK
<1>1. CASE UNCHANGED tableVars
  BY <1>0, <1>1 DEF tableVars
<1>2. CASE CommitBatch
  BY <1>0, <1>2, BatchTables DEF CommitBatch
<1>3. CASE tables' = runOnce /\ UNCHANGED ever
  BY <1>0, <1>3, TrimmedTables
<1>4. ASSUME NEW e \in Events({now}, {0}), IngestLive(e)
      PROVE  TablesOK(tables', ever')
  <2>1. e \in Events(0..MaxClock, {0})
    BY SeedAssumption DEF Events, SeedTypes, CountersOK
  <2> QED  BY <1>0, <1>4, <2>1, LiveTables DEF IngestLive
<1> QED
  BY <1>1, <1>2, <1>3, <1>4, TableSteps

\* The loop over the hours and its batch stay in bounds: Draw and NextHour
\* find room before windowEnd, and a full batch is flushed before the next
\* event.
LEMMA WalkInductive ==
  ASSUME SeedTypes, [Next]_vars
  PROVE  WalkOK'
<1> USE DEF SeedTypes
<1>a. HourLength \in Nat \ {0} /\ BatchSize \in Nat \ {0}
  BY HourAssumption, SeedAssumption
<1>b. StartClock \in Nat /\ MaxClock \in Nat /\ now \in StartClock..MaxClock
  BY SeedAssumption DEF CountersOK
<1>0. /\ HourLength \in Nat \ {0} /\ BatchSize \in Nat \ {0}
      /\ MaxClock \in Nat /\ now \in Nat
  BY <1>a, <1>b
<1>1. ASSUME NEW s \in Scales, StartSeed(s) PROVE WalkOK'
  <2>1. now >= Days * DayLength
    BY SeedAssumption DEF CountersOK
  <2>2. PICK p, q \in Nat :
           /\ p <= q
           /\ (now \div HourLength) * HourLength = q * HourLength
           /\ (now \div HourLength) * HourLength - Days * DayLength = p * HourLength
           /\ q * HourLength <= now
    BY <1>0, <2>1, WindowAligned
  <2>3. hour' = p * HourLength /\ end' = q * HourLength
    BY <1>1, <2>2 DEF StartSeed
  <2>4. end' <= now'
    BY <1>1, <2>2, <2>3 DEF StartSeed
  <2>5. /\ pending' \in Seq(Events(0..MaxClock, Subs)) /\ Len(pending') < BatchSize
        /\ Len(pending') <= BatchSize /\ pc' = "hour"
    BY <1>0, <1>1 DEF StartSeed
  <2> QED  BY <2>2, <2>3, <2>4, <2>5 DEF WalkOK
<1>2. CASE TopOfHour
  BY <1>2 DEF TopOfHour, Elsewhere, WalkOK
<1>3. CASE NextHour
  <2>1. PICK p, q \in Nat : p <= q /\ hour = p * HourLength /\ end = q * HourLength
    BY DEF WalkOK
  <2>2. p # q
    BY <1>3, <2>1 DEF NextHour, WalkOK
  <2>3. p + 1 \in Nat /\ p + 1 <= q
    BY <2>1, <2>2
  <2>4. hour' = (p + 1) * HourLength /\ end' = q * HourLength
    BY <1>0, <1>3, <2>1 DEF NextHour, Elsewhere
  <2> QED  BY <1>3, <2>3, <2>4 DEF NextHour, Elsewhere, WalkOK
<1>4. CASE Draw
  <2>1. PICK p, q \in Nat : p <= q /\ hour = p * HourLength /\ end = q * HourLength
    BY DEF WalkOK
  <2>2. p < q
    BY <1>4, <2>1 DEF Draw, WalkOK
  <2>3. hour + HourLength <= end /\ hour \in Nat /\ end \in Nat
    BY <1>0, <2>1, <2>2, HourFits
  <2>4. hour..(hour + HourLength - 1) \subseteq 0..MaxClock
    BY <1>0, <2>3 DEF WalkOK, CountersOK
  <2>5. PICK e \in Events(hour..(hour + HourLength - 1), Subs) : pending' = Append(pending, e)
    BY <1>4 DEF Draw
  <2>6. e \in Events(0..MaxClock, Subs)
    BY <2>4, <2>5 DEF Events
  <2>7. /\ pending' \in Seq(Events(0..MaxClock, Subs))
        /\ Len(pending') = Len(pending) + 1 /\ Len(pending) \in Nat
    BY <2>5, <2>6 DEF WalkOK
  <2>8. Len(pending) < BatchSize
    BY <1>4 DEF Draw, WalkOK
  <2>9. Len(pending') <= BatchSize /\ (pc' = "draw" => Len(pending') < BatchSize)
        /\ pc' \in {"draw", "flush"}
    BY <1>0, <1>4, <2>7, <2>8 DEF Draw, BatchFull
  <2>10. UNCHANGED <<hour, end, now>> /\ hour # end
    BY <1>4 DEF Draw, Elsewhere, WalkOK
  <2> QED  BY <2>7, <2>9, <2>10 DEF WalkOK
<1>5. CASE Flush \/ FlushFails \/ FlushDetached \/ Crash
  <2>1. UNCHANGED <<hour, end, now>>
    BY <1>5 DEF Flush, FlushFails, FlushDetached, Crash, Elsewhere
  <2>2. pending' \in {pending, <<>>} /\ (pc' = "draw" => pc = "flush" /\ pending' = <<>>)
        /\ pc' \notin {"hour", "flush"}
    BY <1>5 DEF Flush, FlushFails, FlushDetached, Crash
  <2>3. pending' \in Seq(Events(0..MaxClock, Subs)) /\ Len(pending') <= BatchSize
        /\ (pc' = "draw" => Len(pending') < BatchSize)
    <3>1. <<>> \in Seq(Events(0..MaxClock, Subs)) /\ Len(<<>>) = 0
      OBVIOUS
    <3>2. CASE pending' = <<>>
      BY <1>0, <3>1, <3>2
    <3>3. CASE pending' = pending /\ pc' # "draw"
      BY <3>3 DEF WalkOK
    <3> QED  BY <2>2, <3>2, <3>3
  <2> QED  BY <2>1, <2>2, <2>3 DEF WalkOK
<1>6. CASE Cancel \/ ClosingRetention \/ UpsertSeedMarker
  BY <1>6 DEF Cancel, ClosingRetention, UpsertSeedMarker, Elsewhere, runVars, WalkOK
<1>7. CASE ServiceRetention \/ \E e \in Events({now}, {0}) : IngestLive(e)
  BY <1>7 DEF ServiceRetention, IngestLive, runVars, WalkOK
<1>8. CASE Tick
  <2>1. end \in Nat
    BY <1>0 DEF WalkOK
  <2>2. end' <= now'
    BY <1>0, <1>8, <2>1 DEF Tick, runVars, WalkOK
  <2> QED  BY <1>8, <2>2 DEF Tick, runVars, WalkOK
<1>9. CASE UNCHANGED vars
  BY <1>9 DEF vars, WalkOK
<1> QED
  BY <1>1, <1>2, <1>3, <1>4, <1>5, <1>6, <1>7, <1>8, <1>9 DEF Next, SeedStep

\* A flush inserts finitely many rows.
LEMMA InsertedRows ==
  ASSUME SeedTypes
  PROVE  /\ Inserted(tables, pending) = KeysOf(pending) \ tables.events
         /\ Cardinality(Inserted(tables, pending)) \in Nat
BY BatchTables DEF SeedTypes, WalkOK

\* The books of a run, the marker and the clock keep their types.
LEMMA CountersInductive ==
  ASSUME SeedTypes, [Next]_vars
  PROVE  CountersOK'
<1> USE DEF SeedTypes
<1>0. StartClock \in Nat /\ MaxClock \in Nat /\ now \in StartClock..MaxClock
  BY SeedAssumption DEF CountersOK
<1>n. Cardinality(Inserted(tables, pending)) \in Nat
  BY InsertedRows
<1> DEFINE inserted == Cardinality(Inserted(tables, pending))
<1>c. CommitBatch => landed' = landed + inserted /\ recounted' \subseteq ever'
  BY DEF CommitBatch, CountersOK
<1>d. NoCommit => landed' = landed /\ recounted' \subseteq ever'
  BY DEF NoCommit, tableVars, CountersOK
<1>f. Fault => faults' \in Nat
  BY DEF Fault, CountersOK
<1> HIDE DEF inserted
<1>1. ASSUME NEW s \in Scales, StartSeed(s) PROVE CountersOK'
  BY <1>1 DEF StartSeed, tableVars, CountersOK
<1>2. CASE Cancel \/ TopOfHour \/ NextHour
  BY <1>2 DEF Cancel, TopOfHour, NextHour, Elsewhere, tableVars, CountersOK
<1>3. CASE Draw
  <2>1. pending' \in Seq(Events(0..MaxClock, Subs))
    BY <1>3, WalkInductive DEF WalkOK
  <2>2. PICK e \in Events(hour..(hour + HourLength - 1), Subs) :
           pending' = Append(pending, e) /\ drawn' = drawn \cup {Key(e)}
    BY <1>3 DEF Draw
  <2>3. e = pending'[Len(pending) + 1] /\ Len(pending) + 1 \in DOMAIN pending'
    BY <2>2 DEF WalkOK
  <2>4. e \in Events(0..MaxClock, Subs)
    BY <2>1, <2>3
  <2>5. Key(e) \in Keys
    BY <2>4 DEF Events, Key, Keys
  <2> QED  BY <1>3, <2>2, <2>5 DEF Draw, Elsewhere, tableVars, CountersOK
<1>4. CASE Flush
  BY <1>4, <1>n, <1>c DEF Flush, Elsewhere, CountersOK, inserted
<1>5. CASE FlushFails
  BY <1>5, <1>n, <1>c, <1>d, <1>f DEF FlushFails, Elsewhere, CountersOK, inserted
<1>6. CASE FlushDetached
  BY <1>6, <1>n, <1>c, <1>d, <1>f DEF FlushDetached, Elsewhere, CountersOK, inserted
<1>7. CASE ClosingRetention
  BY <1>7, <1>f DEF ClosingRetention, Elsewhere, CountersOK
<1>8. CASE UpsertSeedMarker
  <2>1. [scale |-> scale, written |-> written] \in [scale : Scales, written : Nat]
    BY DEF CountersOK
  <2>2. marker' \in {marker, [scale |-> scale, written |-> written]} /\ faults' \in Nat
    BY <1>8, <1>f DEF UpsertSeedMarker, CountersOK
  <2> QED  BY <1>8, <2>1, <2>2 DEF UpsertSeedMarker, tableVars, runVars, CountersOK
<1>9. CASE Crash
  BY <1>9, <1>f DEF Crash, Elsewhere, tableVars, CountersOK
<1>10. CASE \E e \in Events({now}, {0}) : IngestLive(e)
  BY <1>10 DEF IngestLive, runVars, CountersOK
<1>11. CASE ServiceRetention
  BY <1>11 DEF ServiceRetention, runVars, CountersOK
<1>12. CASE Tick
  <2>1. now' \in StartClock..MaxClock
    BY <1>0, <1>12 DEF Tick
  <2> QED  BY <1>12, <2>1 DEF Tick, tableVars, runVars, CountersOK
<1>13. CASE UNCHANGED vars
  BY <1>13 DEF vars, CountersOK
<1> QED
  BY <1>1, <1>2, <1>3, <1>4, <1>5, <1>6, <1>7, <1>8, <1>9, <1>10, <1>11, <1>12, <1>13
     DEF Next, SeedStep

\* The three together.
LEMMA TypesInductive ==
  ASSUME SeedTypes, [Next]_vars
  PROVE  SeedTypes'
<1>1. TablesOK(tables', ever') /\ WalkOK' /\ CountersOK'
  BY TablesInductive, WalkInductive, CountersInductive
<1> QED
  BY <1>1 DEF SeedTypes, TablesOK

\* They hold before the first run.
LEMMA TypesInitially ==
  ASSUME Init
  PROVE  SeedTypes
<1>1. TablesOK(tables, ever)
  <2>1. DOMAIN << >> = {} /\ IsTable(<< >>)
    BY DEF IsTable
  <2>2. CurrentOK(<< >>)
    BY <2>1 DEF CurrentOK
  <2> QED  BY <2>1, <2>2, FS_EmptySet DEF Init, EmptyTables, TablesOK
<1>2. WalkOK
  <2>1. hour = 0 * HourLength /\ end = 0 * HourLength
    BY HourAssumption DEF Init
  <2>2. 0 <= BatchSize /\ 0 <= StartClock
    BY SeedAssumption
  <2>3. <<>> \in Seq(Events(0..MaxClock, Subs)) /\ Len(<<>>) = 0
    OBVIOUS
  <2> QED  BY <2>1, <2>2, <2>3 DEF Init, WalkOK
<1>3. CountersOK
  BY SeedAssumption DEF Init, CountersOK
<1> QED
  BY <1>1, <1>2, <1>3 DEF SeedTypes

\* The seeder walks over whole hours that are over when it starts, its batch
\* never exceeds BatchSize, retention and re-runs leave only rows that were
\* ingested once, and there are finitely many (seeder.go Run).
THEOREM SeedTypesHold == Spec => []SeedTypes
  BY TypesInitially, TypesInductive, PTL DEF Spec

\* The types that TypeOK states follow.
THEOREM TypeCorrect == Spec => []TypeOK
<1>1. SeedTypes => TypeOK
  <2> SUFFICES ASSUME SeedTypes PROVE TypeOK
    OBVIOUS
  <2>1. hour \in 0..end
    <3>1. PICK p, q \in Nat : p <= q /\ hour = p * HourLength /\ end = q * HourLength
      BY DEF SeedTypes, WalkOK
    <3>2. HourLength \in Nat
      BY HourAssumption
    <3>3. p * HourLength \in Nat /\ q * HourLength \in Nat
      BY <3>1, <3>2
    <3>4. p * HourLength <= q * HourLength
      <4>1. CASE p < q
        <5>1. p * HourLength + HourLength <= q * HourLength
          BY <3>1, <3>2, <4>1, HourFits
        <5> QED  BY <3>2, <3>3, <5>1
      <4>2. CASE p = q
        BY <3>3, <4>2
      <4> QED  BY <3>1, <4>1, <4>2
    <3> QED  BY <3>1, <3>3, <3>4
  <2>2. /\ tables.events \subseteq ever /\ ever \cup drawn \subseteq Keys
        /\ DOMAIN tables.current \subseteq Items
    BY DEF SeedTypes, TablesOK, CurrentOK, CountersOK
  <2> QED  BY <2>1, <2>2 DEF SeedTypes, WalkOK, CountersOK, TypeOK
<1> QED
  BY <1>1, SeedTypesHold, PTL

\* One flush of a batch leaves the tables exactly as its events one by one
\* would, whatever is in them: the proof that the comments of
\* IngestEventsBatch and foldCurrentItems appeal to ("provably identical to
\* applying IngestEvent's gate once per event in order"), for batches of every
\* length (BatchEqualsSerial).
THEOREM BatchIsSerial == Spec => []BatchEqualsSerial
<1>1. SeedTypes => BatchEqualsSerial
  <2> SUFFICES ASSUME SeedTypes PROVE BatchEqualsSerial
    OBVIOUS
  <2> DEFINE N == Len(pending)
  <2>1. TablesOK(tables, ever) /\ pending \in Seq(Events(0..MaxClock, Subs))
    BY DEF SeedTypes, WalkOK
  <2>2. N \in Nat /\ DOMAIN pending = 1..N
        /\ \A k \in 1..N : pending[k] \in Events(0..MaxClock, Subs)
    BY <2>1
  <2> HIDE DEF N
  <2>3. \A e \in Events(0..MaxClock, Subs) : e.time \in Int /\ e.sub \in Int
    BY SeedAssumption DEF Events
  <2>4. \A k \in 1..N : pending[k].time \in Int /\ pending[k].sub \in Int
    BY <2>2, <2>3
  <2>5. /\ IsTable(tables.buckets) /\ \A k \in DOMAIN tables.buckets : tables.buckets[k] \in Nat
        /\ IsTable(tables.current) /\ \A i \in DOMAIN tables.current : tables.current[i].last \in Int
    BY <2>1 DEF TablesOK, CurrentOK
  <2>6. /\ IngestEventsBatch(tables, pending).events = SerialResult.events
        /\ IngestEventsBatch(tables, pending).buckets = SerialResult.buckets
    BY <2>2, <2>5, BatchCounts DEF SerialResult
  <2>7. ASSUME ~HiddenInversion
        PROVE  IngestEventsBatch(tables, pending).current = SerialResult.current
    <3>1. InOrder(pending)
      BY <2>7 DEF InOrder, HiddenInversion
    <3> QED  BY <2>2, <2>4, <2>5, <3>1, BatchCurrent DEF SerialResult
  <2> QED  BY <2>6, <2>7 DEF BatchEqualsSerial
<1> QED
  BY <1>1, SeedTypesHold, PTL

\* What the proofs below use of the types.
LEMMA TypeFacts ==
  ASSUME SeedTypes
  PROVE  /\ TablesOK(tables, ever) /\ IsFiniteSet(ever)
         /\ \A k \in DOMAIN tables.buckets : tables.buckets[k] \in Nat
         /\ pending \in Seq(Events(0..MaxClock, Subs))
         /\ now \in Nat /\ MaxClock \in Nat /\ now <= MaxClock /\ Kept \in Nat
         /\ \A r \in ever : r.time \in Nat
<1>1. TablesOK(tables, ever) /\ pending \in Seq(Events(0..MaxClock, Subs))
  BY DEF SeedTypes, WalkOK
<1>2. IsFiniteSet(ever) /\ \A k \in DOMAIN tables.buckets : tables.buckets[k] \in Nat
  BY <1>1 DEF TablesOK
<1>3. StartClock \in Nat /\ MaxClock \in Nat /\ now \in StartClock..MaxClock
  BY SeedAssumption DEF SeedTypes, CountersOK
<1>4. now \in Nat /\ now <= MaxClock
  BY <1>3
<1>5. \A r \in ever : r.time \in Nat
  BY <1>1, <1>3 DEF TablesOK, Keys
<1> QED
  BY <1>1, <1>2, <1>3, <1>4, <1>5, RetentionKeepsSome

-----------------------------------------------------------------------------
(* Retention: what was ever ingested and is young enough is still there.   *)

KeptRows(t, evr, clock) ==
    \A r \in evr : r.time >= clock - Kept => r \in t.events

\* Nothing younger than the retention is ever missing: a pass looks at the
\* same clock, and a row that comes again is inserted again.
LEMMA KeptInductive ==
  ASSUME SeedTypes, KeptRows(tables, ever, now), [Next]_vars
  PROVE  KeptRows(tables', ever', now')
<1>0. /\ TablesOK(tables, ever) /\ pending \in Seq(Events(0..MaxClock, Subs))
      /\ now \in Nat /\ Kept \in Nat /\ \A r \in ever : r.time \in Nat
  BY TypeFacts
<1>1. CASE UNCHANGED tableVars /\ now' \in {now, now + 1}
  BY <1>0, <1>1 DEF tableVars, KeptRows
<1>2. CASE CommitBatch /\ now' = now
  BY <1>0, <1>2, BatchTables DEF CommitBatch, KeptRows
<1>3. CASE tables' = runOnce /\ UNCHANGED <<ever, recounted, now>>
  BY <1>0, <1>3, TrimmedTables DEF KeptRows
<1>4. ASSUME NEW e \in Events({now}, {0}), IngestLive(e)
      PROVE  KeptRows(tables', ever', now')
  BY <1>4 DEF IngestLive, IngestEvent, KeptRows
<1> QED
  BY <1>1, <1>2, <1>3, <1>4, TableSteps

-----------------------------------------------------------------------------
(* Counting.                                                               *)

\* BucketsOutliveRawRows, of given buckets and sets of keys.
Counted(b, evr, rec) ==
    /\ {Bucket(r) : r \in evr} = DOMAIN b
    /\ \A k \in DOMAIN b :
         /\ b[k] >= Cardinality(Rows(evr, k))
         /\ Rows(evr, k) \cap rec = {} => b[k] = Cardinality(Rows(evr, k))

\* Rows added to the buckets: each bucket has counted what it had and what
\* came, and too much only where a row came again.
LEMMA BumpCounts ==
  ASSUME NEW b, NEW evr, NEW rec, NEW new,
         IsFiniteSet(evr), IsFiniteSet(new),
         \A k \in DOMAIN b : b[k] \in Nat,
         Counted(b, evr, rec)
  PROVE  Counted(BumpAll(b, new), evr \cup new, rec \cup (new \cap evr))
<1> DEFINE n   == BumpAll(b, new)
           all == evr \cup new
<1>1. /\ DOMAIN n = DOMAIN b \cup {Bucket(r) : r \in new}
      /\ \A k \in DOMAIN n : n[k] = CountIn(b, k) + Cardinality(Rows(new, k))
  BY DEF BumpAll, Rows
<1> HIDE DEF n
<1>2. {Bucket(r) : r \in all} = DOMAIN n
  BY <1>1 DEF Counted
<1>3. ASSUME NEW k \in DOMAIN n
      PROVE  /\ n[k] >= Cardinality(Rows(all, k))
             /\ Rows(all, k) \cap (rec \cup (new \cap evr)) = {}
                  => n[k] = Cardinality(Rows(all, k))
  <2> DEFINE old  == Cardinality(Rows(evr, k))
             came == Cardinality(Rows(new, k))
             both == Cardinality(Rows(evr, k) \cap Rows(new, k))
  <2>1. old \in Nat /\ came \in Nat
    BY RowsFinite
  <2>2. Rows(all, k) = Rows(evr, k) \cup Rows(new, k)
    BY DEF Rows
  <2>3. IsFiniteSet(Rows(evr, k) \cap Rows(new, k)) /\ both \in Nat
    BY RowsFinite, FS_Intersection, FS_CardinalityType
  <2>4. Cardinality(Rows(all, k)) = old + came - both
    BY <2>2, RowsFinite, FS_Union
  <2>5. /\ CountIn(b, k) \in Nat /\ CountIn(b, k) >= old
        /\ Rows(evr, k) \cap rec = {} => CountIn(b, k) = old
    <3>1. CASE k \in DOMAIN b
      BY <3>1 DEF CountIn, Counted
    <3>2. CASE k \notin DOMAIN b
      <4>1. Rows(evr, k) = {}
        BY <3>2 DEF Counted, Rows
      <4>2. old = 0
        BY <4>1, FS_EmptySet
      <4> QED  BY <3>2, <4>2 DEF CountIn
    <3> QED  BY <3>1, <3>2
  <2>6. n[k] = CountIn(b, k) + came
    BY <1>1
  <2>7. Rows(all, k) \cap (rec \cup (new \cap evr)) = {}
          => Rows(evr, k) \cap rec = {} /\ Rows(evr, k) \cap Rows(new, k) = {}
    BY DEF Rows
  <2>8. Rows(evr, k) \cap Rows(new, k) = {} => both = 0
    BY FS_EmptySet
  <2> HIDE DEF old, came, both
  <2> QED  BY <2>1, <2>3, <2>4, <2>5, <2>6, <2>7, <2>8
<1> QED
  BY <1>2, <1>3 DEF Counted, n

\* The counts agree after every step.  The stream never counts a row again:
\* an event of this moment that was ever ingested still has its row.
LEMMA CountedInductive ==
  ASSUME SeedTypes, KeptRows(tables, ever, now), Counted(tables.buckets, ever, recounted),
         [Next]_vars
  PROVE  Counted(tables'.buckets, ever', recounted')
<1>0. /\ TablesOK(tables, ever) /\ pending \in Seq(Events(0..MaxClock, Subs))
      /\ now \in Nat /\ now <= MaxClock /\ MaxClock \in Nat
      /\ Kept \in Nat /\ IsFiniteSet(ever)
      /\ \A k \in DOMAIN tables.buckets : tables.buckets[k] \in Nat
  BY TypeFacts
<1>1. CASE UNCHANGED tableVars
  BY <1>1 DEF tableVars
<1>2. CASE CommitBatch
  <2> DEFINE new == Inserted(tables, pending)
  <2>1. IsFiniteSet(new) /\ tables'.buckets = BumpAll(tables.buckets, new)
    BY <1>0, <1>2, BatchTables DEF CommitBatch
  <2>2. ever' = ever \cup new /\ recounted' = recounted \cup (new \cap ever)
    BY <1>2 DEF CommitBatch
  <2> HIDE DEF new
  <2> QED  BY <1>0, <2>1, <2>2, BumpCounts
<1>3. CASE tables' = runOnce /\ UNCHANGED <<ever, recounted, now>>
  BY <1>0, <1>3, TrimmedTables
<1>4. ASSUME NEW e \in Events({now}, {0}), IngestLive(e)
      PROVE  Counted(tables'.buckets, ever', recounted')
  <2>1. e \in Events(0..MaxClock, {0}) /\ Key(e).time = now
    BY <1>0 DEF Events, Key
  <2>2. /\ tables'.buckets = IF Key(e) \in tables.events THEN tables.buckets
                             ELSE BumpAll(tables.buckets, {Key(e)})
        /\ ever' = ever \cup {Key(e)} /\ recounted' = recounted
    <3>1. BumpAll(tables.buckets, {e}) = BumpAll(tables.buckets, {Key(e)})
      BY BumpByKey
    <3>2. tables'.buckets = IF Key(e) \in tables.events THEN tables.buckets
                            ELSE BumpAll(tables.buckets, {e})
      BY <1>4 DEF IngestLive, IngestEvent
    <3> QED  BY <1>4, <3>1, <3>2 DEF IngestLive
  <2>3. CASE Key(e) \in tables.events
    <3>1. ever' = ever
      BY <1>0, <2>2, <2>3 DEF TablesOK
    <3> QED  BY <2>2, <2>3, <3>1
  <2>4. CASE Key(e) \notin tables.events
    <3>1. Key(e) \notin ever
      BY <1>0, <2>1, <2>4 DEF KeptRows
    <3> DEFINE new == {Key(e)}
    <3>2. IsFiniteSet(new) /\ recounted \cup (new \cap ever) = recounted
      BY <3>1, FS_Singleton
    <3>3. tables'.buckets = BumpAll(tables.buckets, new) /\ ever' = ever \cup new
      BY <2>2, <2>4
    <3> HIDE DEF new
    <3>4. Counted(BumpAll(tables.buckets, new), ever \cup new, recounted \cup (new \cap ever))
      BY <1>0, <3>2, BumpCounts
    <3> QED  BY <2>2, <3>2, <3>3, <3>4
  <2> QED  BY <2>3, <2>4
<1> QED
  BY <1>1, <1>2, <1>3, <1>4, TableSteps

\* A row is inserted again only when retention has taken it, so every such
\* row is older than what retention keeps, from then on.
RecountedAreOld(rec, clock) == \A r \in rec : r.time < clock - Kept

\* The clock only widens the distance.
LEMMA RecountedInductive ==
  ASSUME SeedTypes, KeptRows(tables, ever, now), RecountedAreOld(recounted, now), [Next]_vars
  PROVE  RecountedAreOld(recounted', now')
<1>0. /\ TablesOK(tables, ever) /\ pending \in Seq(Events(0..MaxClock, Subs))
      /\ now \in Nat /\ Kept \in Nat /\ \A r \in ever : r.time \in Nat
  BY TypeFacts
<1>1. recounted \subseteq ever
  BY DEF SeedTypes, CountersOK
<1>2. CASE UNCHANGED tableVars /\ now' \in {now, now + 1}
  BY <1>0, <1>1, <1>2 DEF tableVars, RecountedAreOld
<1>3. CASE CommitBatch /\ now' = now
  <2> SUFFICES ASSUME NEW r \in Inserted(tables, pending) \cap ever
               PROVE  r.time < now - Kept
    BY <1>3 DEF CommitBatch, RecountedAreOld
  <2>1. r \notin tables.events
    BY InsertedRows
  <2> QED  BY <1>0, <2>1 DEF KeptRows
<1>4. CASE UNCHANGED <<recounted, now>>
  BY <1>4
<1> QED
  BY <1>2, <1>3, <1>4, TableSteps DEF IngestLive

\* Retention keeps at least a day.
LEMMA DayIsKept == DayLength \in Nat /\ DayLength <= Kept
<1>1. RetentionDays \in Nat \ {0} /\ DayLength \in Nat \ {0}
  BY SeedAssumption DEF RetentionDays
<1>2. PICK n \in Nat : RetentionDays = n + 1
  <2>1. RetentionDays - 1 \in Nat /\ RetentionDays = (RetentionDays - 1) + 1
    BY <1>1
  <2> QED  BY <2>1
<1>3. Kept = n * DayLength + DayLength /\ n * DayLength \in Nat
  BY <1>1, <1>2 DEF Kept
<1> QED
  BY <1>1, <1>3

\* Every bucket that the last-24h statistics add up.
RecentBucketsExact ==
    \A k \in DOMAIN tables.buckets :
       k[1] * HourLength >= now - DayLength => tables.buckets[k] = Cardinality(EverIn(k))

KeptInv == KeptRows(tables, ever, now)

\* A bucket counts every event that was ever ingested once, and more only
\* where an event came again after retention had taken its raw row, for every
\* retention setting and any interleaving of seed runs, their failures and
\* replays, the stream and the retention passes (store/seed.go
\* IngestEventsBatch, current_items.go IngestEvent, retention.go runOnce).
THEOREM BucketsOutliveRows == Spec => []BucketsOutliveRawRows
<1> DEFINE IInv == SeedTypes /\ KeptInv /\ BucketsOutliveRawRows
<1>1. Init => IInv
  <2> SUFFICES ASSUME Init PROVE KeptInv /\ BucketsOutliveRawRows
    BY TypesInitially
  <2>1. ever = {} /\ DOMAIN tables.buckets = {}
    BY DEF Init, EmptyTables
  <2> QED  BY <2>1 DEF KeptInv, KeptRows, BucketsOutliveRawRows
<1>2. IInv /\ [Next]_vars => IInv'
  <2> SUFFICES ASSUME SeedTypes, KeptInv, BucketsOutliveRawRows, [Next]_vars
               PROVE  KeptInv' /\ BucketsOutliveRawRows'
    BY TypesInductive
  <2>1. KeptRows(tables, ever, now) /\ Counted(tables.buckets, ever, recounted)
    BY DEF KeptInv, BucketsOutliveRawRows, EverIn, Counted, Rows
  <2>2. KeptRows(tables', ever', now') /\ Counted(tables'.buckets, ever', recounted')
    BY <2>1, KeptInductive, CountedInductive
  <2> QED  BY <2>2 DEF KeptInv, KeptRows, BucketsOutliveRawRows, EverIn, Counted, Rows
<1> QED
  BY <1>1, <1>2, PTL DEF Spec

RecountedInv == RecountedAreOld(recounted, now)

\* Whatever is seeded again, the buckets of the last day count every event
\* once: retention keeps a day at least (config.go envInt), so what it has
\* taken lies in older buckets (StatsLast24h reads these ones).
THEOREM RecentCountsExact == Spec => []RecentBucketsExact
<1> DEFINE IInv == SeedTypes /\ KeptInv /\ RecountedInv
<1>1. Init => IInv
  BY TypesInitially DEF Init, KeptInv, KeptRows, RecountedInv, RecountedAreOld
<1>2. IInv /\ [Next]_vars => IInv'
  <2> SUFFICES ASSUME SeedTypes, KeptInv, RecountedInv, [Next]_vars
               PROVE  KeptInv' /\ RecountedInv'
    BY TypesInductive
  <2>1. KeptRows(tables', ever', now') /\ RecountedAreOld(recounted', now')
    BY KeptInductive, RecountedInductive DEF KeptInv, RecountedInv
  <2> QED  BY <2>1 DEF KeptInv, KeptRows, RecountedInv, RecountedAreOld
<1>3. IInv /\ BucketsOutliveRawRows => RecentBucketsExact
  <2> SUFFICES ASSUME SeedTypes, RecountedInv, BucketsOutliveRawRows,
                      NEW k \in DOMAIN tables.buckets,
                      k[1] * HourLength >= now - DayLength,
                      NEW r \in EverIn(k), r \in recounted
               PROVE  FALSE
    BY DEF RecentBucketsExact, BucketsOutliveRawRows
  <2>1. r.time \in Nat /\ now \in Nat /\ Kept \in Nat /\ HourLength \in Nat \ {0}
    BY TypeFacts, HourAssumption DEF EverIn
  <2>2. r.time < now - Kept
    BY DEF RecountedInv, RecountedAreOld
  <2>3. k[1] = r.time \div HourLength
    BY DEF EverIn, Bucket
  <2>4. (r.time \div HourLength) * HourLength <= r.time
        /\ (r.time \div HourLength) * HourLength \in Nat
    BY <2>1
  <2> QED  BY <2>1, <2>2, <2>3, <2>4, DayIsKept
<1> QED
  BY <1>1, <1>2, <1>3, BucketsOutliveRows, PTL DEF Spec

\* The buckets are as many as the events have, so finitely many.
LEMMA BucketsFinite ==
  ASSUME NEW evr, IsFiniteSet(evr)
  PROVE  IsFiniteSet({Bucket(r) : r \in evr})
<1> DEFINE B == {Bucket(r) : r \in evr}
<1>1. PICK q \in Seq(evr) : \A r \in evr : \E n \in 1..Len(q) : q[n] = r
  BY DEF IsFiniteSet
<1> DEFINE u == [n \in 1..Len(q) |-> Bucket(q[n])]
<1>2. u \in Seq(B) /\ Len(u) = Len(q)
  <2>1. Len(q) \in Nat /\ \A n \in 1..Len(q) : q[n] \in evr
    OBVIOUS
  <2> QED  BY <2>1
<1>3. \A b \in B : \E n \in 1..Len(u) : u[n] = b
  BY <1>1, <1>2
<1> HIDE DEF B, u
<1>4. IsFiniteSet(B)
  BY <1>2, <1>3 DEF IsFiniteSet
<1> QED
  BY <1>4 DEF B

\* What StatsLast24h answers is the number of the events that were ever
\* ingested in the hours of its window, after any sequence of seed runs,
\* replays and retention passes (StatsLast24hExact).
THEOREM StatsAreExact == Spec => []StatsLast24hExact
<1>1. SeedTypes /\ BucketsOutliveRawRows /\ RecentBucketsExact => StatsLast24hExact
  <2> SUFFICES ASSUME SeedTypes, BucketsOutliveRawRows, RecentBucketsExact, NEW y \in Types
               PROVE  StatsSince(tables, y, now - DayLength) =
                        Cardinality({r \in ever : r.type = y /\
                           (r.time \div HourLength) * HourLength >= now - DayLength})
    BY DEF StatsLast24hExact
  <2> DEFINE from == now - DayLength
             K == {k \in DOMAIN tables.buckets : k[2] = y /\ k[1] * HourLength >= from}
  <2>1. IsFiniteSet(ever) /\ {Bucket(r) : r \in ever} = DOMAIN tables.buckets
    BY TypeFacts DEF BucketsOutliveRawRows
  <2>2. IsFiniteSet(K)
    <3>1. IsFiniteSet(DOMAIN tables.buckets)
      BY <2>1, BucketsFinite
    <3> QED  BY <3>1, FS_Subset
  <2>3. \A k \in K : tables.buckets[k] = Cardinality(Rows(ever, k))
    BY DEF RecentBucketsExact, EverIn, Rows
  <2>4. {r \in ever : Bucket(r) \in K}
          = {r \in ever : r.type = y /\ (r.time \div HourLength) * HourLength >= from}
    <3>1. \A r \in ever : /\ Bucket(r) \in DOMAIN tables.buckets
                          /\ Bucket(r)[1] = r.time \div HourLength /\ Bucket(r)[2] = r.type
      BY <2>1 DEF Bucket
    <3> QED  BY <3>1
  <2>5. StatsSince(tables, y, from) = Cardinality({r \in ever : Bucket(r) \in K})
    BY <2>1, <2>2, <2>3, StatsCountRows
  <2> QED  BY <2>4, <2>5
<1> QED
  BY <1>1, SeedTypesHold, BucketsOutliveRows, RecentCountsExact, PTL

-----------------------------------------------------------------------------
(* The seed run: what has been generated, inserted and counted.            *)

\* Until it gives up a run has counted what it inserted, and what it has
\* generated is in the tables or in its batch; the batch is empty from the
\* closing retention on.
Progress ==
    /\ pc \notin {"idle", "detached"} => written = landed
    /\ pc # "idle" => drawn \subseteq ever \cup KeysOf(pending)
    /\ pc \in {"retention", "marker"} => pending = <<>>

\* A committed batch is in the tables, or was before.
LEMMA BatchLands ==
  ASSUME SeedTypes, CommitBatch
  PROVE  /\ ever \subseteq ever' /\ KeysOf(pending) \subseteq ever'
         /\ landed' = landed + Cardinality(Inserted(tables, pending))
<1>1. tables.events \subseteq ever
  BY DEF SeedTypes, TablesOK
<1> QED
  BY <1>1, InsertedRows DEF CommitBatch

\* Every step of a run keeps its books, those that fail included.
LEMMA ProgressInductive ==
  ASSUME SeedTypes, Progress, [Next]_vars
  PROVE  Progress'
<1>e. KeysOf(<<>>) = {}
  BY DEF KeysOf
<1>1. ASSUME NEW s \in Scales, StartSeed(s) PROVE Progress'
  BY <1>1 DEF StartSeed, Progress
<1>2. CASE Cancel \/ TopOfHour \/ NextHour
  BY <1>2 DEF Cancel, TopOfHour, NextHour, Elsewhere, tableVars, Progress, KeysOf
<1>3. CASE Draw
  <2>1. PICK e \in Events(hour..(hour + HourLength - 1), Subs) :
           pending' = Append(pending, e) /\ drawn' = drawn \cup {Key(e)}
    BY <1>3 DEF Draw
  <2>2. KeysOf(pending) \cup {Key(e)} \subseteq KeysOf(pending')
    <3>1. pending \in Seq(Events(0..MaxClock, Subs)) /\ Len(pending) \in Nat
          /\ DOMAIN pending = 1..Len(pending)
      BY TypeFacts
    <3>2. /\ DOMAIN pending' = 1..(Len(pending) + 1)
          /\ pending'[Len(pending) + 1] = e
          /\ \A k \in 1..Len(pending) : pending'[k] = pending[k]
      BY <2>1, <3>1
    <3> QED  BY <3>1, <3>2 DEF KeysOf
  <2>3. drawn' \subseteq ever' \cup KeysOf(pending')
    BY <1>3, <2>1, <2>2 DEF Draw, tableVars, Progress
  <2>4. pc' \in {"draw", "flush"} /\ written' = landed'
    BY <1>3 DEF Draw, Progress
  <2> QED  BY <2>3, <2>4 DEF Progress, KeysOf
<1>4. CASE Flush
  <2>1. written' = landed'
    BY <1>4, BatchLands DEF Flush, Progress
  <2>2. drawn' \subseteq ever' /\ pending' = <<>>
    BY <1>4, BatchLands DEF Flush, Progress
  <2> QED  BY <2>1, <2>2 DEF Progress
<1>5. CASE FlushFails
  <2>1. CASE cancelled
    <3>1. pc' = "detached" /\ pending' = pending /\ drawn' = drawn
      BY <1>5, <2>1 DEF FlushFails
    <3>2. ever \subseteq ever'
      BY <1>5, BatchLands DEF FlushFails, NoCommit, tableVars
    <3>3. drawn \subseteq ever \cup KeysOf(pending)
      BY <1>5 DEF FlushFails, Progress
    <3> QED  BY <3>1, <3>2, <3>3 DEF Progress, KeysOf
  <2>2. CASE ~cancelled
    BY <1>5, <2>2 DEF FlushFails, Progress
  <2> QED  BY <2>1, <2>2
<1>6. CASE FlushDetached \/ Crash \/ UpsertSeedMarker
  BY <1>6 DEF FlushDetached, Crash, UpsertSeedMarker, Progress
<1>7. CASE ClosingRetention
  BY <1>7 DEF ClosingRetention, Elsewhere, Progress, KeysOf
<1>8. CASE (\E e \in Events({now}, {0}) : IngestLive(e)) \/ ServiceRetention \/ Tick
  BY <1>8 DEF IngestLive, ServiceRetention, Tick, runVars, tableVars, Progress, KeysOf
<1>9. CASE UNCHANGED vars
  BY <1>9 DEF vars, Progress, KeysOf
<1> QED
  BY <1>1, <1>2, <1>3, <1>4, <1>5, <1>6, <1>7, <1>8, <1>9 DEF Next, SeedStep

\* A run's books are right at every step, with failing flushes, a
\* cancellation, replays and concurrent retention (seeder.go Run).
THEOREM SeedProgress == Spec => [](SeedTypes /\ Progress)
<1>1. Init => SeedTypes /\ Progress
  BY TypesInitially DEF Init, Progress
<1>2. SeedTypes /\ Progress /\ [Next]_vars => (SeedTypes /\ Progress)'
  BY TypesInductive, ProgressInductive
<1> QED
  BY <1>1, <1>2, PTL DEF Spec

\* The answer of GET /api/v1/seed-marker changes only to tell of a run whose
\* generated events are all ingested, with the number it inserted (seed.go
\* UpsertSeedMarker), for every number of runs and failures.
THEOREM MarkerTellsOfCompleteRun == Spec => MarkerMeansComplete
<1> DEFINE Change == GetSeedMarker' # GetSeedMarker =>
                       /\ GetSeedMarker'.status = 200
                       /\ GetSeedMarker'.written = landed
                       /\ drawn \subseteq ever
<1>1. SeedTypes /\ Progress /\ [Next]_vars => Change
  <2> SUFFICES ASSUME SeedTypes, Progress, [Next]_vars, marker' # marker
               PROVE  Change
    BY DEF GetSeedMarker
  <2>1. UpsertSeedMarker
    BY DEF Next, SeedStep, StartSeed, Cancel, TopOfHour, NextHour, Draw, Flush, FlushFails,
           FlushDetached, ClosingRetention, Crash, IngestLive, ServiceRetention, Tick,
           Elsewhere, vars
  <2>2. pc = "marker" /\ marker' = [scale |-> scale, written |-> written]
    BY <2>1 DEF UpsertSeedMarker
  <2>3. marker' \in [scale : Scales, written : Nat]
    BY <2>2 DEF SeedTypes, CountersOK
  <2>4. marker' # NoMarker
    BY <2>3, SeedAssumption
  <2>5. written = landed /\ drawn \subseteq ever
    BY <2>2 DEF Progress, KeysOf
  <2>6. GetSeedMarker' = [status |-> 200, scale |-> marker'.scale, written |-> marker'.written]
    BY <2>4 DEF GetSeedMarker
  <2> QED  BY <2>2, <2>5, <2>6
<1>2. SeedTypes /\ Progress /\ [Next]_vars => [Change]_vars
  BY <1>1
<1> QED
  BY <1>2, SeedProgress, PTL DEF Spec, MarkerMeansComplete

\* A canceled run exits with everything it had generated in the tables,
\* unless a call failed for another reason (seeder.go flushDetachedOnCancel).
THEOREM CancelSavesTheBatch == Spec => CancelLosesNothing
<1> DEFINE Saved == pc = "detached" /\ pc' = "idle" /\ faults' = faults => drawn \subseteq ever'
<1>1. SeedTypes /\ Progress /\ [Next]_vars => Saved
  <2> SUFFICES ASSUME SeedTypes, Progress, [Next]_vars,
                      pc = "detached", pc' = "idle", faults' = faults
               PROVE  drawn \subseteq ever'
    OBVIOUS
  <2>1. ~Fault
    BY DEF Fault, SeedTypes, CountersOK
  <2>2. FlushDetached
    BY <2>1 DEF Next, SeedStep, StartSeed, Cancel, TopOfHour, NextHour, Draw, Flush, FlushFails,
           ClosingRetention, UpsertSeedMarker, Crash, IngestLive, ServiceRetention, Tick, vars
  <2>3. CommitBatch
    BY <2>1, <2>2 DEF FlushDetached
  <2> QED  BY <2>3, BatchLands DEF Progress
<1>2. SeedTypes /\ Progress /\ [Next]_vars => [Saved]_vars
  BY <1>1
<1> QED
  BY <1>2, SeedProgress, PTL DEF Spec, CancelLosesNothing
=============================================================================
