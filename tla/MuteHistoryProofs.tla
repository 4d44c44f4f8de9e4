-------------------------- MODULE MuteHistoryProofs -------------------------
(***************************************************************************)
(* Theorems about the history of mute intervals, for stores of any size,   *)
(* any generations and any positions: inserts and lookups are exact and    *)
(* keep the order that both depend on.                                     *)
(***************************************************************************)
EXTENDS MuteHistory, SequenceTheorems, FiniteSetTheorems, TLAPS

-----------------------------------------------------------------------------
(* Induction over a set of naturals, from the well-founded inclusion of    *)
(* the intervals 1..k: the library's own takes an operator.                *)

LEMMA LeastElement ==
  ASSUME NEW T, T \subseteq Nat, T # {}
  PROVE  \E m \in T : \A k \in T : m <= k
<1> DEFINE R == StrictSubsetOrdering(Nat)
           F == {1..k : k \in T}
<1>1. IsWellFoundedOn(R, FiniteSubsetsOf(Nat))
  BY FS_StrictSubsetOrderingWellFounded
<1>2. F \subseteq FiniteSubsetsOf(Nat)
  <2> SUFFICES ASSUME NEW k \in T PROVE 1..k \in FiniteSubsetsOf(Nat)
    OBVIOUS
  <2>1. k \in Nat /\ IsFiniteSet(1..k)
    BY FS_Interval
  <2> QED BY <2>1 DEF FiniteSubsetsOf
<1>3. F # {}
  OBVIOUS
<1> HIDE DEF R
<1>4. \E x \in F : \A y \in F : <<y, x>> \notin R
  BY <1>1, <1>2, <1>3, WFMin
<1>5. PICK m \in T : \A y \in F : <<y, 1..m>> \notin R
  BY <1>4
<1>6. ASSUME NEW k \in T PROVE m <= k
  <2> SUFFICES ASSUME k < m PROVE FALSE
    OBVIOUS
  <2>1. k \in Nat /\ m \in Nat
    OBVIOUS
  <2>2. m \in 1..m /\ m \notin 1..k /\ 1..k \subseteq 1..m /\ 1..m \subseteq Nat
    BY <2>1
  <2>3. <<1..k, 1..m>> \in R
    BY <2>2 DEF R, StrictSubsetOrdering
  <2> QED BY <1>5, <2>3
<1> QED BY <1>5, <1>6

LEMMA Induction ==
  ASSUME NEW S, 0 \in S, \A n \in Nat : n \in S => n + 1 \in S
  PROVE  Nat \subseteq S
<1> DEFINE T == Nat \ S
<1> SUFFICES ASSUME T # {} PROVE FALSE
  OBVIOUS
<1>1. PICK m \in T : \A k \in T : m <= k
  BY LeastElement
<1>2. m # 0 /\ m - 1 \in Nat
  OBVIOUS
<1>3. m - 1 \in S
  BY <1>1, <1>2
<1> QED BY <1>2, <1>3

-----------------------------------------------------------------------------
(* The fold of the community modules, one entry after the other.           *)

LEMMA MaxIs ==
  ASSUME NEW s, s \subseteq Nat, NEW m \in s, \A y \in s : m >= y
  PROVE  Max(s) = m
<1>1. \A x \in s : (\A y \in s : x >= y) => x = m
  OBVIOUS
<1> QED BY <1>1 DEF Max

Iterates(h, base, n, it) ==
  it = [s \in SUBSET (1..n) |->
          IF s = {} THEN base ELSE Absorb(it[s \ {Max(s)}], h[Max(s)])]

\* The fold is a function on the sets of indices, whose existence takes an
\* induction over their largest member.
LEMMA IterExists ==
  ASSUME NEW h, NEW base, NEW n \in Nat
  PROVE  \E it : Iterates(h, base, n, it)
<1> DEFINE G(k, it) == Iterates(h, base, k, it)
           S == {k \in Nat : \E it : G(k, it)}
<1>1. 0 \in S
  <2>1. SUBSET (1..0) = {{}}
    OBVIOUS
  <2>2. G(0, [s \in {{}} |-> base])
    BY <2>1 DEF Iterates
  <2> QED BY <2>2
<1>2. ASSUME NEW k \in Nat, k \in S PROVE k + 1 \in S
  <2>1. PICK g : G(k, g)
    BY <1>2
  <2> DEFINE it == [s \in SUBSET (1..(k + 1)) |->
                      IF k + 1 \in s THEN Absorb(g[s \ {k + 1}], h[k + 1]) ELSE g[s]]
  <2>2. ASSUME NEW s \in SUBSET (1..(k + 1))
        PROVE  it[s] = IF s = {} THEN base ELSE Absorb(it[s \ {Max(s)}], h[Max(s)])
    <3>1. CASE k + 1 \in s
      <4>1. Max(s) = k + 1
        
        <5>1. s \subseteq Nat /\ \A y \in s : k + 1 >= y
          OBVIOUS
        <5> QED BY <3>1, <5>1, MaxIs
      <4>2. s \ {k + 1} \in SUBSET (1..(k + 1)) /\ k + 1 \notin s \ {k + 1}
        OBVIOUS
      <4>3. it[s \ {k + 1}] = g[s \ {k + 1}]
        BY <4>2
      <4> QED BY <3>1, <4>1, <4>3
    <3>2. CASE k + 1 \notin s
      <4>1. s \in SUBSET (1..k)
        BY <3>2
      <4>2. it[s] = g[s]
        BY <3>2
      <4>3. s \ {Max(s)} \in SUBSET (1..(k + 1)) /\ k + 1 \notin s \ {Max(s)}
        BY <3>2
      <4>4. it[s \ {Max(s)}] = g[s \ {Max(s)}]
        BY <4>3
      <4>5. g[s] = IF s = {} THEN base ELSE Absorb(g[s \ {Max(s)}], h[Max(s)])
        BY <2>1, <4>1 DEF Iterates
      <4> QED BY <4>2, <4>4, <4>5
    <3> QED BY <3>1, <3>2
  <2>3. G(k + 1, it)
    <3> HIDE DEF it
    <3>1. it = [s \in SUBSET (1..(k + 1)) |-> it[s]]
      BY DEF it
    <3> QED BY <2>2, <3>1 DEF Iterates
  <2>4. \E i : G(k + 1, i)
    <3> HIDE DEF it, G
    <3> QED BY <2>3
  <2> HIDE DEF G
  <2> QED BY <2>4
<1>3. Nat \subseteq S
  <2> HIDE DEF S
  <2> QED BY <1>1, <1>2, Induction
<1> QED BY <1>3

LEMMA FoldSteps ==
  ASSUME NEW S, NEW h \in Seq(S), NEW base
  PROVE  \E it :
           /\ it[{}] = base
           /\ \A n \in 1..Len(h) : it[1..n] = Absorb(it[1..(n - 1)], h[n])
           /\ FoldLeft(Absorb, base, h) = it[1..Len(h)]
<1> DEFINE it == CHOOSE it : Iterates(h, base, Len(h), it)
<1>0. DOMAIN h = 1..Len(h) /\ Len(h) \in Nat
  OBVIOUS
<1>1. Iterates(h, base, Len(h), it)
  BY <1>0, IterExists
<1>2. FoldLeft(Absorb, base, h) = it[DOMAIN h]
  BY <1>0 DEF FoldLeft, MapThenFoldSet, Iterates
<1> HIDE DEF it
<1>3. it[{}] = base
  BY <1>1 DEF Iterates
<1>4. ASSUME NEW n \in 1..Len(h)
      PROVE  it[1..n] = Absorb(it[1..(n - 1)], h[n])
  <2>0. n \in Nat /\ n >= 1 /\ n <= Len(h)
    BY <1>0
  <2>1. Max(1..n) = n
    BY <2>0, MaxIs
  <2>2. (1..n) \ {n} = 1..(n - 1) /\ 1..n # {} /\ 1..n \in SUBSET (DOMAIN h)
    <3>1. 1..n \subseteq 1..Len(h) /\ n \in 1..n
      BY <1>0, <2>0
    <3>2. (1..n) \ {n} = 1..(n - 1)
      BY <2>0
    <3> QED BY <1>0, <3>1, <3>2
  <2>3. it[1..n] = Absorb(it[(1..n) \ {Max(1..n)}], h[Max(1..n)])
    <3>1. 1..n \in SUBSET (1..Len(h)) /\ 1..n # {}
      BY <1>0, <2>2
    <3> QED BY <1>1, <3>1 DEF Iterates
  <2> QED BY <2>1, <2>2, <2>3
<1> QED BY <1>0, <1>2, <1>3, <1>4

-----------------------------------------------------------------------------
(* The pass of insert.  Entries apart from each other stay so: an interval *)
(* that grows by an entry never reaches one that was kept before it.       *)

Entries(G, h) == [generation : G, start : 0..(h - 1), end : 1..h]
Covers(e, g, p) == e.generation = g /\ e.start <= p /\ p < e.end
Apart(a, b) ==
  \/ a.generation < b.generation
  \/ a.generation = b.generation /\ a.end < b.start
Tidy(E, s) ==
  /\ s \in Seq(E)
  /\ \A i \in 1..Len(s) : s[i].start < s[i].end
  /\ \A i, j \in 1..Len(s) : i < j => Apart(s[i], s[j])

LEMMA EntryFields ==
  ASSUME NEW G, G \subseteq Nat, NEW z \in Nat, NEW e \in Entries(G, z)
  PROVE  /\ e.generation \in G /\ e.generation \in Nat
         /\ e.start \in 0..(z - 1) /\ e.end \in 1..z
         /\ e.start \in Nat /\ e.end \in Nat /\ e.end <= z
<1>1. e.generation \in G /\ e.start \in 0..(z - 1) /\ e.end \in 1..z
  BY DEF Entries
<1>2. \A x \in 0..(z - 1) : x \in Nat
  OBVIOUS
<1>3. \A x \in 1..z : x \in Nat /\ x <= z
  OBVIOUS
<1> QED BY <1>1, <1>2, <1>3

LEMMA Merged ==
  ASSUME NEW G, G \subseteq Nat, NEW z \in Nat, NEW a \in Entries(G, z), NEW b \in Entries(G, z),
         a.start < a.end, b.start < b.end, Touches(b, a)
  PROVE  LET c == Merge(a, b) IN
         /\ c \in Entries(G, z) /\ c.start < c.end /\ c.generation = a.generation
         /\ c.start = (IF b.start < a.start THEN b.start ELSE a.start)
         /\ c.end = (IF b.end > a.end THEN b.end ELSE a.end)
         /\ \A g, p \in Nat : Covers(c, g, p) <=> Covers(a, g, p) \/ Covers(b, g, p)
<1> DEFINE c == Merge(a, b)
<1>0. /\ a = [generation |-> a.generation, start |-> a.start, end |-> a.end]
      /\ a.generation \in G /\ a.start \in 0..(z - 1) /\ a.end \in 1..z
      /\ b.generation = a.generation /\ b.start \in 0..(z - 1) /\ b.end \in 1..z
  BY DEF Entries, Touches
<1>1. c = [generation |-> a.generation,
           start |-> IF b.start < a.start THEN b.start ELSE a.start,
           end   |-> IF b.end > a.end THEN b.end ELSE a.end]
  <2>1. c = [[a EXCEPT !.start = IF b.start < @ THEN b.start ELSE @]
               EXCEPT !.end = IF b.end > @ THEN b.end ELSE @]
    BY DEF Merge
  <2> QED BY <1>0, <2>1
<1> HIDE DEF c
<1>2. c \in Entries(G, z) /\ c.start < c.end /\ c.generation = a.generation
  BY <1>0, <1>1 DEF Entries
<1>3. ASSUME NEW g \in Nat, NEW p \in Nat
      PROVE  Covers(c, g, p) <=> Covers(a, g, p) \/ Covers(b, g, p)
  BY <1>0, <1>1 DEF Covers, Touches
<1> QED BY <1>1, <1>2, <1>3 DEF c

\* What the pass has seen of the history s up to entry n.
PassInv(G, z, s, new, n, w) ==
  /\ w = [interval |-> w.interval, kept |-> w.kept]
  /\ w.interval \in Entries(G, z) /\ w.interval.start < w.interval.end
  /\ w.interval.generation = new.generation
  /\ Tidy(Entries(G, z), w.kept) /\ Len(w.kept) <= n
  /\ \A i \in 1..Len(w.kept) :
       /\ ~Touches(w.kept[i], w.interval)
       /\ \A j \in (n + 1)..Len(s) : Apart(w.kept[i], s[j])
  /\ \A g, p \in Nat :
       Covers(w.interval, g, p) \/ (\E i \in 1..Len(w.kept) : Covers(w.kept[i], g, p))
         <=> Covers(new, g, p) \/ (\E i \in 1..n : Covers(s[i], g, p))

LEMMA PassStep ==
  ASSUME NEW G, G \subseteq Nat, NEW z \in Nat, NEW s, Tidy(Entries(G, z), s),
         NEW new \in Entries(G, z), NEW n \in Nat, n < Len(s), NEW w,
         PassInv(G, z, s, new, n, w)
  PROVE  PassInv(G, z, s, new, n + 1, Absorb(w, s[n + 1]))
<1> DEFINE E == Entries(G, z)
           a == w.interval
           k == w.kept
           e == s[n + 1]
<1>0. /\ Len(s) \in Nat /\ n + 1 \in 1..Len(s) /\ e \in E /\ e.start < e.end
      /\ a \in E /\ a.start < a.end /\ k \in Seq(E) /\ Len(k) \in Nat
      /\ \A i \in 1..Len(k) : k[i] \in E /\ k[i].start < k[i].end /\ Apart(k[i], e) /\ ~Touches(k[i], a)
      /\ \A i \in 1..Len(s) : s[i] \in E
  <2>1. s \in Seq(E) /\ k \in Seq(E) /\ a \in E
    BY DEF Tidy, PassInv
  <2>2. /\ Len(s) \in Nat /\ Len(k) \in Nat /\ \A i \in 1..Len(s) : s[i] \in E
        /\ \A i \in 1..Len(k) : k[i] \in E
    BY <2>1
  <2>3. n + 1 \in 1..Len(s) /\ n + 1 \in (n + 1)..Len(s)
    BY <2>2
  <2>4. \A i \in 1..Len(k) : k[i].start < k[i].end /\ Apart(k[i], e) /\ ~Touches(k[i], a)
    BY <2>3 DEF PassInv, Tidy
  <2>5. e.start < e.end /\ a.start < a.end
    BY <2>3 DEF PassInv, Tidy
  <2> QED BY <2>1, <2>2, <2>3, <2>4, <2>5
<1>1. CASE Touches(e, a)
  <2> DEFINE c == Merge(a, e)
             v == [interval |-> c, kept |-> k]
  <2>1. Absorb(w, e) = v
    BY <1>1 DEF Absorb, PassInv
  <2>2. /\ c \in E /\ c.start < c.end /\ c.generation = a.generation
        /\ c.start = (IF e.start < a.start THEN e.start ELSE a.start)
        /\ c.end = (IF e.end > a.end THEN e.end ELSE a.end)
        /\ \A g, p \in Nat : Covers(c, g, p) <=> Covers(a, g, p) \/ Covers(e, g, p)
    <3> HIDE DEF a, e
    <3> QED BY <1>0, <1>1, Merged
  <2> HIDE DEF c
  <2>3. ASSUME NEW i \in 1..Len(k)
        PROVE  ~Touches(k[i], c)
    <3> DEFINE b == k[i]
    <3>1. /\ b.generation \in Nat /\ b.start \in Nat /\ b.end \in Nat /\ b.start < b.end
          /\ a.generation \in Nat /\ a.start \in Nat /\ a.end \in Nat
          /\ e.generation \in Nat /\ e.start \in Nat /\ e.end \in Nat
      BY <1>0, EntryFields
    <3>2. Apart(b, e) /\ ~Touches(b, a)
      BY <1>0
    <3>3. e.generation = a.generation /\ e.end >= a.start /\ e.start <= a.end
      BY <1>1 DEF Touches
    <3>4. CASE b.generation # a.generation
      BY <2>2, <3>4 DEF Touches
    <3>5. CASE b.generation = a.generation
      <4> HIDE DEF a, b, e
      <4>1. b.end < e.start /\ (b.end < a.start \/ a.end < b.start)
        BY <3>1, <3>2, <3>3, <3>5 DEF Apart, Touches
      <4>2. b.end < a.start
        BY <3>1, <3>3, <4>1
      <4>3. b.end < c.start
        BY <2>2, <4>1, <4>2
      <4>4. c.start \in Nat
        BY <2>2, <3>1
      <4>5. ~Touches(b, c)
        BY <3>1, <4>3, <4>4 DEF Touches
      <4> QED BY <4>5 DEF b
    <3> HIDE DEF b
    <3> QED BY <3>4, <3>5 DEF b
  <2>4. ASSUME NEW g \in Nat, NEW p \in Nat
        PROVE  Covers(c, g, p) \/ (\E i \in 1..Len(k) : Covers(k[i], g, p))
                 <=> Covers(new, g, p) \/ (\E i \in 1..(n + 1) : Covers(s[i], g, p))
    <3>1. (\E i \in 1..(n + 1) : Covers(s[i], g, p))
            <=> Covers(e, g, p) \/ (\E i \in 1..n : Covers(s[i], g, p))
      OBVIOUS
    <3> QED BY <2>2, <3>1 DEF PassInv
  <2>5. PassInv(G, z, s, new, n + 1, v)
    <3>1. v.interval = c /\ v.kept = k /\ v = [interval |-> v.interval, kept |-> v.kept]
      OBVIOUS
    <3> HIDE DEF v
    <3>2. Tidy(E, k) /\ Len(k) <= n + 1 /\ c.generation = new.generation
      BY <1>0, <2>2 DEF PassInv
    <3>3. \A i \in 1..Len(k) : \A j \in (n + 1 + 1)..Len(s) : Apart(k[i], s[j])
      BY DEF PassInv
    <3> QED BY <2>2, <2>3, <2>4, <3>1, <3>2, <3>3 DEF PassInv
  <2> QED BY <2>1, <2>5
<1>2. CASE ~Touches(e, a)
  <2> DEFINE m == Append(k, e)
             v == [interval |-> a, kept |-> m]
  <2>1. Absorb(w, e) = v
    BY <1>2 DEF Absorb, PassInv
  <2>2. /\ m \in Seq(E) /\ Len(m) = Len(k) + 1 /\ m[Len(k) + 1] = e
        /\ \A i \in 1..Len(k) : m[i] = k[i]
    BY <1>0
  <2> HIDE DEF m
  <2>3. Tidy(E, m)
    <3>1. ASSUME NEW i \in 1..Len(m) PROVE m[i].start < m[i].end
      <4>1. i = Len(k) + 1 \/ i \in 1..Len(k)
        BY <1>0, <2>2
      <4> QED BY <1>0, <2>2, <4>1
    <3>2. ASSUME NEW i \in 1..Len(m), NEW j \in 1..Len(m), i < j PROVE Apart(m[i], m[j])
      <4>1. i \in 1..Len(k)
        BY <1>0, <2>2, <3>2
      <4>2. CASE j = Len(k) + 1
        BY <1>0, <2>2, <4>1, <4>2
      <4>3. CASE j # Len(k) + 1
        BY <1>0, <2>2, <3>2, <4>1, <4>3 DEF PassInv, Tidy
      <4> QED BY <4>2, <4>3
    <3> QED BY <2>2, <3>1, <3>2 DEF Tidy
  <2>4. ASSUME NEW i \in 1..Len(m)
        PROVE  ~Touches(m[i], a) /\ \A j \in (n + 1 + 1)..Len(s) : Apart(m[i], s[j])
    <3>1. CASE i = Len(k) + 1
      <4>1. m[i] = e /\ n + 1 \in 1..Len(s)
        BY <1>0, <2>2, <3>1
      <4>2. \A j \in (n + 1 + 1)..Len(s) : j \in 1..Len(s) /\ n + 1 < j
        BY <1>0
      <4> QED BY <1>2, <4>1, <4>2 DEF Tidy
    <3>2. CASE i # Len(k) + 1
      BY <1>0, <2>2, <3>2 DEF PassInv
    <3> QED BY <3>1, <3>2
  <2>5. ASSUME NEW g \in Nat, NEW p \in Nat
        PROVE  Covers(a, g, p) \/ (\E i \in 1..Len(m) : Covers(m[i], g, p))
                 <=> Covers(new, g, p) \/ (\E i \in 1..(n + 1) : Covers(s[i], g, p))
    <3>1. (\E i \in 1..(n + 1) : Covers(s[i], g, p))
            <=> Covers(e, g, p) \/ (\E i \in 1..n : Covers(s[i], g, p))
      OBVIOUS
    <3>2. (\E i \in 1..Len(m) : Covers(m[i], g, p))
            <=> Covers(e, g, p) \/ (\E i \in 1..Len(k) : Covers(k[i], g, p))
      <4>1. 1..Len(m) = 1..Len(k) \cup {Len(k) + 1}
        BY <1>0, <2>2
      <4> HIDE DEF k, e
      <4> QED BY <2>2, <4>1
    <3> QED BY <3>1, <3>2 DEF PassInv
  <2>6. PassInv(G, z, s, new, n + 1, v)
    <3>1. v.interval = a /\ v.kept = m /\ v = [interval |-> v.interval, kept |-> v.kept]
      OBVIOUS
    <3> HIDE DEF v
    <3>2. Len(m) <= n + 1 /\ a.generation = new.generation
      BY <1>0, <2>2 DEF PassInv
    <3> QED BY <1>0, <2>3, <2>4, <2>5, <3>1, <3>2 DEF PassInv
  <2> QED BY <2>1, <2>6
<1> QED BY <1>1, <1>2

-----------------------------------------------------------------------------
(* Searches and insertion, as far as the history uses them.                *)

LEMMA LastOf ==
  ASSUME NEW n \in Nat, NEW I, I \subseteq 1..n, I # {}
  PROVE  Max(I) \in I /\ \A i \in I : i <= Max(I)
<1> DEFINE T == {n - i : i \in I}
<1>1. T \subseteq Nat /\ T # {}
  <2>1. \A i \in I : i \in Nat /\ n - i \in Nat
    OBVIOUS
  <2> QED BY <2>1
<1>2. PICK m \in T : \A k \in T : m <= k
  BY <1>1, LeastElement
<1>3. PICK l \in I : m = n - l
  BY <1>2
<1>4. ASSUME NEW i \in I PROVE l >= i
  <2>1. n - i \in T /\ i \in Nat /\ l \in Nat
    OBVIOUS
  <2> QED BY <1>2, <1>3, <2>1
<1>5. I \subseteq Nat
  OBVIOUS
<1>6. Max(I) = l
  BY <1>4, <1>5, MaxIs
<1> QED BY <1>4, <1>5, <1>6

LEMMA FirstOf ==
  ASSUME NEW n \in Nat, NEW I, I \subseteq 1..n, I # {}
  PROVE  Min(I) \in I /\ \A i \in I : Min(I) <= i
<1>1. I \subseteq Nat
  OBVIOUS
<1>2. PICK m \in I : \A i \in I : m <= i
  BY <1>1, LeastElement
<1>3. \A x \in I : (\A i \in I : x <= i) => x = m
  BY <1>1, <1>2
<1>4. Min(I) = m
  BY <1>2, <1>3 DEF Min
<1> QED BY <1>2, <1>4

\* r is k with e put in behind entry p.
Inserted(E, k, p, e, r) ==
  /\ r \in Seq(E) /\ Len(r) = Len(k) + 1
  /\ \A i \in 1..p : r[i] = k[i]
  /\ r[p + 1] = e
  /\ \A i \in (p + 2)..(Len(k) + 1) : r[i] = k[i - 1]

LEMMA InsertAtFacts ==
  ASSUME NEW E, NEW k \in Seq(E), NEW e \in E, NEW p \in 0..Len(k)
  PROVE  Inserted(E, k, p, e, InsertAt(k, p + 1, e))
<1> DEFINE front == SubSeq(k, 1, p)
           back == SubSeq(k, p + 1, Len(k))
           r == InsertAt(k, p + 1, e)
<1>0. Len(k) \in Nat /\ p \in Nat /\ p <= Len(k)
  OBVIOUS
<1>1. front \in Seq(E) /\ Len(front) = p /\ \A i \in 1..p : front[i] = k[i]
  BY <1>0
<1>2. /\ back \in Seq(E) /\ Len(back) = Len(k) - p
      /\ \A i \in 1..(Len(k) - p) : back[i] = k[p + i]
  BY <1>0
<1>3. r = (front \o <<e>>) \o back
  <2>1. (p + 1) - 1 = p
    BY <1>0
  <2> QED BY <2>1 DEF InsertAt
<1> HIDE DEF r, front, back
<1>4. /\ front \o <<e>> \in Seq(E) /\ Len(front \o <<e>>) = p + 1
      /\ (front \o <<e>>)[p + 1] = e
      /\ \A i \in 1..p : (front \o <<e>>)[i] = front[i]
  BY <1>0, <1>1
<1>5. /\ r \in Seq(E) /\ Len(r) = Len(k) + 1
      /\ \A i \in 1..(p + 1) : r[i] = (front \o <<e>>)[i]
      /\ \A i \in (p + 2)..(Len(k) + 1) : r[i] = back[i - (p + 1)]
  BY <1>0, <1>2, <1>3, <1>4
<1>6. \A i \in (p + 2)..(Len(k) + 1) : i - (p + 1) \in 1..(Len(k) - p) /\ p + (i - (p + 1)) = i - 1
  BY <1>0
<1>7. \A i \in (p + 2)..(Len(k) + 1) : r[i] = k[i - 1]
  BY <1>2, <1>5, <1>6
<1>8. \A i \in 1..p : r[i] = k[i]
  BY <1>0, <1>1, <1>4, <1>5
<1>9. r[p + 1] = e
  BY <1>0, <1>4, <1>5
<1> QED BY <1>5, <1>7, <1>8, <1>9 DEF r, Inserted

-----------------------------------------------------------------------------
(* What insert returns.                                                    *)

Covered(s, g, p) == \E i \in 1..Len(s) : Covers(s[i], g, p)

LEMMA PassEnds ==
  ASSUME NEW G, G \subseteq Nat, NEW z \in Nat, NEW s, Tidy(Entries(G, z), s),
         NEW new \in Entries(G, z), new.start < new.end
  PROVE  PassInv(G, z, s, new, Len(s),
                 FoldLeft(Absorb, [interval |-> new, kept |-> <<>>], s))
<1> DEFINE E == Entries(G, z)
           base == [interval |-> new, kept |-> <<>>]
<1>0. s \in Seq(E) /\ Len(s) \in Nat
  BY DEF Tidy
<1>1. PICK it : /\ it[{}] = base
                /\ \A n \in 1..Len(s) : it[1..n] = Absorb(it[1..(n - 1)], s[n])
                /\ FoldLeft(Absorb, base, s) = it[1..Len(s)]
  BY <1>0, FoldSteps
<1> DEFINE S == {n \in Nat : n <= Len(s) => PassInv(G, z, s, new, n, it[1..n])}
<1>2. 0 \in S
  <2>1. 1..0 = {} /\ it[1..0] = base
    BY <1>1
  <2>2. base.interval = new /\ base.kept = <<>> /\ base = [interval |-> base.interval, kept |-> base.kept]
    OBVIOUS
  <2>3. Len(base.kept) = 0 /\ Tidy(E, base.kept)
    BY <2>2 DEF Tidy
  <2> HIDE DEF base
  <2>4. PassInv(G, z, s, new, 0, base)
    BY <2>2, <2>3 DEF PassInv
  <2> QED BY <2>1, <2>4
<1>3. ASSUME NEW n \in Nat, n \in S PROVE n + 1 \in S
  <2> SUFFICES ASSUME n + 1 <= Len(s) PROVE PassInv(G, z, s, new, n + 1, it[1..(n + 1)])
    OBVIOUS
  <2>1. PassInv(G, z, s, new, n, it[1..n])
    BY <1>0, <1>3
  <2>2. it[1..(n + 1)] = Absorb(it[1..n], s[n + 1])
    <3>1. n + 1 \in 1..Len(s) /\ (n + 1) - 1 = n
      BY <1>0
    <3> QED BY <1>1, <3>1
  <2>3. n < Len(s)
    BY <1>0
  <2> QED BY <2>1, <2>2, <2>3, PassStep
<1>4. Nat \subseteq S
  <2> HIDE DEF S
  <2> QED BY <1>2, <1>3, Induction
<1>5. PassInv(G, z, s, new, Len(s), it[1..Len(s)])
  BY <1>0, <1>4
<1> QED BY <1>1, <1>5

LEMMA InsertPlace ==
  ASSUME NEW G, G \subseteq Nat, NEW z \in Nat, NEW k, Tidy(Entries(G, z), k),
         NEW a \in Entries(G, z), a.start < a.end,
         \A i \in 1..Len(k) : ~Touches(k[i], a)
  PROVE  LET p == SelectLastInSeq(k, LAMBDA entry : Before(entry, a)) IN
         /\ p \in 0..Len(k)
         /\ \A i \in 1..p : Apart(k[i], a)
         /\ \A i \in (p + 1)..Len(k) : Apart(a, k[i])
<1> DEFINE I == {i \in 1..Len(k) : Before(k[i], a)}
           p == IF I # {} THEN Max(I) ELSE 0
<1>0. /\ Len(k) \in Nat
      /\ a.generation \in Nat /\ a.start \in Nat /\ a.end \in Nat
      /\ \A i \in 1..Len(k) : /\ k[i].generation \in Nat /\ k[i].start \in Nat /\ k[i].end \in Nat
                              /\ k[i].start < k[i].end
  <2>1. k \in Seq(Entries(G, z)) /\ \A i \in 1..Len(k) : k[i].start < k[i].end
    BY DEF Tidy
  <2>2. \A i \in 1..Len(k) : k[i] \in Entries(G, z)
    BY <2>1
  <2>3. Len(k) \in Nat
    BY <2>1
  <2> HIDE DEF Entries
  <2>4. \A i \in 1..Len(k) : /\ k[i].generation \in Nat /\ k[i].start \in Nat /\ k[i].end \in Nat
    BY <2>2, EntryFields
  <2>5. a.generation \in Nat /\ a.start \in Nat /\ a.end \in Nat
    BY EntryFields
  <2> QED BY <2>1, <2>3, <2>4, <2>5
<1>1. SelectLastInSeq(k, LAMBDA entry : Before(entry, a)) = p
  BY DEF SelectLastInSeq
<1>2. p \in 0..Len(k) /\ (p # 0 => Before(k[p], a)) /\ \A i \in (p + 1)..Len(k) : ~Before(k[i], a)
  <2>1. CASE I = {}
    BY <1>0, <2>1
  <2>2. CASE I # {}
    <3>1. Max(I) \in I /\ \A i \in I : i <= Max(I)
      <4>1. I \subseteq 1..Len(k)
        OBVIOUS
      <4> HIDE DEF I
      <4> QED BY <1>0, <2>2, <4>1, LastOf
    <3>2. p = Max(I)
      BY <2>2
    <3>3. p \in 1..Len(k) /\ Before(k[p], a)
      BY <3>1, <3>2
    <3>4. ASSUME NEW i \in (p + 1)..Len(k) PROVE ~Before(k[i], a)
      <4>1. i \in 1..Len(k) /\ ~(i <= p)
        BY <1>0, <3>3
      <4>2. i \notin I
        BY <3>1, <3>2, <4>1
      <4> QED BY <4>1, <4>2
    <3> HIDE DEF p
    <3> QED BY <3>3, <3>4
  <2> QED BY <2>1, <2>2
<1> HIDE DEF p
<1>3. ASSUME NEW i \in 1..p PROVE Apart(k[i], a)
  <2>1. i \in 1..Len(k) /\ p \in 1..Len(k) /\ i <= p
    BY <1>0, <1>2
  <2>2. i = p \/ Apart(k[i], k[p])
    BY <2>1 DEF Tidy
  <2>3. Before(k[p], a)
    BY <1>2, <2>1
  <2>4. ~Touches(k[i], a)
    BY <2>1
  <2>5. /\ k[i].generation \in Nat /\ k[i].start \in Nat /\ k[i].end \in Nat
        /\ k[p].generation \in Nat /\ k[p].start \in Nat /\ k[p].end \in Nat
        /\ k[i].start < k[i].end /\ k[p].start < k[p].end
    BY <1>0, <2>1
  <2>6. a.generation \in Nat /\ a.start \in Nat /\ a.end \in Nat
    BY <1>0
  <2>7. Before(k[i], a)
    BY <2>2, <2>3, <2>5, <2>6 DEF Apart, Before
  <2> QED BY <2>4, <2>5, <2>6, <2>7 DEF Apart, Before, Touches
<1>4. ASSUME NEW i \in (p + 1)..Len(k) PROVE Apart(a, k[i])
  <2>1. i \in 1..Len(k)
    BY <1>0, <1>2
  <2>2. /\ k[i].generation \in Nat /\ k[i].start \in Nat /\ k[i].end \in Nat
        /\ a.generation \in Nat /\ a.start \in Nat /\ a.end \in Nat
    BY <1>0, <2>1
  <2>3. ~Before(k[i], a) /\ ~Touches(k[i], a)
    BY <1>2, <2>1
  <2>4. CASE a.generation < k[i].generation
    BY <2>4 DEF Apart
  <2>5. CASE ~(a.generation < k[i].generation)
    <3>1. a.generation = k[i].generation /\ a.start <= k[i].start
      BY <2>2, <2>3, <2>5 DEF Before
    <3>2. k[i].start > a.end \/ k[i].end < a.start
      BY <2>2, <2>3, <3>1 DEF Touches
    <3>3. k[i].start < k[i].end
      BY <1>0, <2>1
    <3> QED BY <2>2, <3>1, <3>2, <3>3 DEF Apart
  <2> QED BY <2>4, <2>5
<1> QED BY <1>1, <1>2, <1>3, <1>4

\* What the history would be with room enough: it takes the interval in exactly
\* and keeps the entries apart, and insert returns it if it fits.
Joined(t, new, s) ==
  \A g, p \in Nat : Covered(t, g, p) <=> Covers(new, g, p) \/ Covered(s, g, p)
Whole(E, s, new, r) ==
  /\ r.ok \in BOOLEAN /\ Tidy(E, r.entries) /\ Len(r.entries) <= HistoryCapacity
  /\ \E t : /\ Tidy(E, t) /\ Joined(t, new, s)
            /\ r.ok <=> Len(t) <= HistoryCapacity
            /\ r.ok => r.entries = t

LEMMA InsertWhole ==
  ASSUME NEW G, G \subseteq Nat, NEW z \in Nat, NEW s, Tidy(Entries(G, z), s),
         Len(s) <= HistoryCapacity, NEW new \in Entries(G, z), new.start < new.end
  PROVE  Whole(Entries(G, z), s, new, Insert(s, new))
<1> DEFINE E == Entries(G, z)
           w == FoldLeft(Absorb, [interval |-> new, kept |-> <<>>], s)
           a == w.interval
           k == w.kept
           p == SelectLastInSeq(k, LAMBDA entry : Before(entry, a))
           t == InsertAt(k, p + 1, a)
           r == Insert(s, new)
<1>1. PassInv(G, z, s, new, Len(s), w)
  BY PassEnds
<1>2. r = IF Len(k) = HistoryCapacity THEN [ok |-> FALSE, entries |-> k]
          ELSE [ok |-> TRUE, entries |-> t]
  BY DEF Insert
<1> HIDE DEF w
<1>3. /\ Tidy(E, k) /\ k \in Seq(E) /\ Len(k) \in Nat /\ Len(k) <= Len(s) /\ Len(s) \in Nat
      /\ a \in E /\ a.start < a.end /\ \A i \in 1..Len(k) : ~Touches(k[i], a)
  BY <1>1 DEF PassInv, Tidy
<1>4. HistoryCapacity \in Nat
  BY HistoryCapacityAssumption
<1>5. /\ p \in 0..Len(k)
      /\ \A i \in 1..p : Apart(k[i], a)
      /\ \A i \in (p + 1)..Len(k) : Apart(a, k[i])
  <2> HIDE DEF a, k
  <2> QED BY <1>3, InsertPlace
<1> HIDE DEF r, p, a, k
<1>6. /\ t \in Seq(E) /\ Len(t) = Len(k) + 1
      /\ \A i \in 1..p : t[i] = k[i]
      /\ t[p + 1] = a
      /\ \A i \in (p + 2)..(Len(k) + 1) : t[i] = k[i - 1]
  <2>1. k \in Seq(E) /\ a \in E /\ p \in 0..Len(k)
    BY <1>3, <1>5
  <2>2. Inserted(E, k, p, a, t)
    <3> HIDE DEF E
    <3> QED BY <2>1, InsertAtFacts
  <2> HIDE DEF E, t
  <2> QED BY <2>2 DEF Inserted
<1> HIDE DEF t
<1>7. ASSUME NEW i \in 1..Len(t)
      PROVE  \/ i \in 1..p /\ i \in 1..Len(k) /\ t[i] = k[i]
             \/ i = p + 1 /\ t[i] = a
             \/ i \in (p + 2)..Len(t) /\ i - 1 \in (p + 1)..Len(k) /\ i - 1 \in 1..Len(k) /\ t[i] = k[i - 1]
  BY <1>3, <1>5, <1>6
<1>8. Tidy(E, t)
  <2>1. ASSUME NEW i \in 1..Len(t) PROVE t[i].start < t[i].end
    BY <1>3, <1>7 DEF Tidy
  <2>2. ASSUME NEW i \in 1..Len(t), NEW j \in 1..Len(t), i < j PROVE Apart(t[i], t[j])
    <3>1. CASE i \in 1..p /\ t[i] = k[i]
      <4>1. CASE j \in 1..p /\ j \in 1..Len(k) /\ t[j] = k[j]
        <5>1. i \in 1..Len(k) /\ j \in 1..Len(k) /\ i < j
          BY <1>3, <1>5, <2>2, <3>1, <4>1
        <5> QED BY <1>3, <3>1, <4>1, <5>1 DEF Tidy
      <4>2. CASE j = p + 1 /\ t[j] = a
        BY <1>5, <3>1, <4>2
      <4>3. CASE j - 1 \in (p + 1)..Len(k) /\ t[j] = k[j - 1]
        <5>1. i \in 1..Len(k) /\ j - 1 \in 1..Len(k) /\ i < j - 1
          BY <1>3, <1>5, <3>1, <4>3
        <5> QED BY <1>3, <3>1, <4>3, <5>1 DEF Tidy
      <4> QED BY <1>7, <4>1, <4>2, <4>3
    <3>2. CASE i = p + 1 /\ t[i] = a
      <4>1. j - 1 \in (p + 1)..Len(k) /\ t[j] = k[j - 1]
        BY <1>3, <1>5, <1>7, <2>2, <3>2
      <4> QED BY <1>5, <3>2, <4>1
    <3>3. CASE i - 1 \in (p + 1)..Len(k) /\ t[i] = k[i - 1]
      <4>1. j - 1 \in (p + 1)..Len(k) /\ t[j] = k[j - 1]
        BY <1>3, <1>5, <1>7, <2>2, <3>3
      <4>2. i - 1 \in 1..Len(k) /\ j - 1 \in 1..Len(k) /\ i - 1 < j - 1
        BY <1>3, <1>5, <2>2, <3>3, <4>1
      <4> QED BY <1>3, <3>3, <4>1, <4>2 DEF Tidy
    <3> QED BY <1>7, <3>1, <3>2, <3>3
  <2> QED BY <1>6, <2>1, <2>2 DEF Tidy
<1>9. ASSUME NEW g \in Nat, NEW q \in Nat
      PROVE  Covered(t, g, q) <=> Covers(new, g, q) \/ Covered(s, g, q)
  <2>1. Covered(t, g, q) => Covers(a, g, q) \/ Covered(k, g, q)
    BY <1>7 DEF Covered
  <2>2. Covers(a, g, q) => Covered(t, g, q)
    <3>1. p + 1 \in 1..Len(t)
      BY <1>3, <1>5, <1>6
    <3> QED BY <1>6, <3>1 DEF Covered
  <2>3. ASSUME NEW i \in 1..Len(k), Covers(k[i], g, q) PROVE Covered(t, g, q)
    <3>1. CASE i <= p
      <4>1. i \in 1..Len(t) /\ t[i] = k[i]
        BY <1>3, <1>5, <1>6, <3>1
      <4> QED BY <2>3, <4>1 DEF Covered
    <3>2. CASE ~(i <= p)
      <4>1. i + 1 \in 1..Len(t) /\ i + 1 \in (p + 2)..(Len(k) + 1) /\ (i + 1) - 1 = i
        BY <1>3, <1>5, <1>6, <3>2
      <4>2. t[i + 1] = k[i]
        BY <1>6, <4>1
      <4> QED BY <2>3, <4>1, <4>2 DEF Covered
    <3> QED BY <3>1, <3>2
  <2>4. Covers(a, g, q) \/ Covered(k, g, q) <=> Covers(new, g, q) \/ Covered(s, g, q)
    BY <1>1 DEF PassInv, Covered, a, k
  <2> QED BY <2>1, <2>2, <2>3, <2>4 DEF Covered
<1>10. CASE Len(k) = HistoryCapacity
  <2>1. r.ok = FALSE /\ r.entries = k
    BY <1>2, <1>10
  <2>2. Len(k) <= HistoryCapacity /\ ~(Len(t) <= HistoryCapacity)
    BY <1>3, <1>4, <1>6, <1>10
  <2>3. Joined(t, new, s)
    BY <1>9 DEF Joined
  <2> HIDE DEF E
  <2>4. Whole(E, s, new, r)
    BY <1>3, <1>8, <2>1, <2>2, <2>3 DEF Whole
  <2> QED BY <2>4 DEF r, E
<1>11. CASE Len(k) # HistoryCapacity
  <2>1. r.ok = TRUE /\ r.entries = t
    BY <1>2, <1>11
  <2>2. Len(t) <= HistoryCapacity
    BY <1>3, <1>4, <1>6, <1>11
  <2>3. Joined(t, new, s)
    BY <1>9 DEF Joined
  <2> HIDE DEF E
  <2>4. Whole(E, s, new, r)
    BY <1>8, <2>1, <2>2, <2>3 DEF Whole
  <2> QED BY <2>4 DEF r, E
<1> QED BY <1>10, <1>11

\* Insert takes the interval in exactly, keeps the entries apart and never
\* outgrows its store; without room it drops no more than the interval.
LEMMA InsertExact ==
  ASSUME NEW G, G \subseteq Nat, NEW z \in Nat, NEW s, Tidy(Entries(G, z), s),
         Len(s) <= HistoryCapacity, NEW new \in Entries(G, z), new.start < new.end
  PROVE  LET r == Insert(s, new) IN
         /\ r.ok \in BOOLEAN /\ Tidy(Entries(G, z), r.entries)
         /\ Len(r.entries) <= HistoryCapacity
         /\ r.ok => \A g, p \in Nat : Covered(r.entries, g, p) <=> Covers(new, g, p) \/ Covered(s, g, p)
<1> DEFINE r == Insert(s, new)
<1>1. Whole(Entries(G, z), s, new, r)
  BY InsertWhole
<1> HIDE DEF r
<1>2. /\ r.ok \in BOOLEAN /\ Tidy(Entries(G, z), r.entries) /\ Len(r.entries) <= HistoryCapacity
      /\ r.ok => Joined(r.entries, new, s)
  BY <1>1 DEF Whole
<1> QED BY <1>2 DEF r, Joined

-----------------------------------------------------------------------------
(* Looking up and leaving behind.                                          *)

\* The last entry in front of a position decides for the whole history.
LEMMA MutedIffCovered ==
  ASSUME NEW G, G \subseteq Nat, NEW z \in Nat, NEW s, Tidy(Entries(G, z), s),
         NEW g \in Nat, NEW low \in Nat, NEW high \in Nat, low <= high
  PROVE  Muted(s, [generation |-> g, low |-> low, high |-> high])
           <=> \E p \in low..high : Covered(s, g, p)
<1> DEFINE here == [generation |-> g, start |-> high]
           I == {i \in 1..Len(s) : ~Before(here, s[i])}
           l == IF I # {} THEN Max(I) ELSE 0
<1>0. /\ Len(s) \in Nat
      /\ \A i \in 1..Len(s) : /\ s[i].generation \in Nat /\ s[i].start \in Nat /\ s[i].end \in Nat
                              /\ s[i].start < s[i].end
  <2>1. s \in Seq(Entries(G, z)) /\ \A i \in 1..Len(s) : s[i].start < s[i].end
    BY DEF Tidy
  <2>2. Len(s) \in Nat /\ \A i \in 1..Len(s) : s[i] \in Entries(G, z)
    BY <2>1
  <2>3. \A i \in 1..Len(s) : /\ s[i].generation \in Nat /\ s[i].start \in Nat /\ s[i].end \in Nat
    BY <2>2, EntryFields
  <2> QED BY <2>1, <2>2, <2>3
<1>1. Muted(s, [generation |-> g, low |-> low, high |-> high])
        <=> l # 0 /\ s[l].generation = g /\ s[l].end > low
  BY DEF Muted, SelectLastInSeq
<1>2. \A i \in 1..Len(s) :
        i \in I <=> s[i].generation < g \/ (s[i].generation = g /\ s[i].start <= high)
  <2> SUFFICES ASSUME NEW i \in 1..Len(s)
               PROVE  ~Before(here, s[i]) <=> s[i].generation < g \/ (s[i].generation = g /\ s[i].start <= high)
    OBVIOUS
  <2>1. here.generation = g /\ here.start = high
    OBVIOUS
  <2> HIDE DEF here
  <2> QED BY <1>0, <2>1 DEF Before
<1>3. (l # 0 => l \in I) /\ \A i \in I : l # 0 /\ i <= l
  <2>1. I # {} => Max(I) \in I /\ \A i \in I : i <= Max(I)
    <3>1. I \subseteq 1..Len(s)
      OBVIOUS
    <3> HIDE DEF I
    <3> QED BY <1>0, <3>1, LastOf
  <2>2. \A i \in I : i # 0
    OBVIOUS
  <2> HIDE DEF I
  <2> QED BY <2>1, <2>2
<1>4. I \subseteq 1..Len(s)
  OBVIOUS
<1> HIDE DEF I, l
<1>5. ASSUME l # 0, s[l].generation = g, s[l].end > low
      PROVE  \E p \in low..high : Covered(s, g, p)
  <2>1. l \in 1..Len(s) /\ s[l].start <= high
    <3>1. l \in I /\ l \in 1..Len(s)
      BY <1>3, <1>4, <1>5
    <3>2. s[l].generation < g \/ s[l].start <= high
      BY <1>2, <3>1
    <3> QED BY <1>0, <1>5, <3>1, <3>2
  <2> DEFINE p == IF s[l].start < low THEN low ELSE s[l].start
  <2>2. p \in low..high /\ Covers(s[l], g, p)
    BY <1>0, <1>5, <2>1 DEF Covers
  <2> QED BY <2>1, <2>2 DEF Covered
<1>6. ASSUME NEW p \in low..high, Covered(s, g, p)
      PROVE  l # 0 /\ s[l].generation = g /\ s[l].end > low
  <2>1. PICK i \in 1..Len(s) : Covers(s[i], g, p)
    BY <1>6 DEF Covered
  <2>2. i \in I
    BY <1>0, <1>2, <2>1 DEF Covers
  <2>3. l # 0 /\ l \in I /\ i <= l /\ l \in 1..Len(s)
    BY <1>3, <1>4, <2>2
  <2>4. CASE i = l
    BY <1>0, <2>1, <2>3, <2>4 DEF Covers
  <2>5. CASE i # l
    <3>1. Apart(s[i], s[l])
      BY <2>3, <2>5 DEF Tidy
    <3>2. /\ s[i].generation = g /\ s[i].start <= p /\ p < s[i].end /\ p \in Nat /\ low <= p
      BY <2>1 DEF Covers
    <3>3. s[l].generation < g \/ s[l].generation = g
      BY <1>2, <2>3
    <3>4. /\ s[i].end \in Nat /\ s[l].generation \in Nat
          /\ s[l].start \in Nat /\ s[l].end \in Nat /\ s[l].start < s[l].end
      BY <1>0, <2>1, <2>3
    <3>5. s[l].generation = g /\ s[i].end < s[l].start
      BY <3>1, <3>2, <3>3, <3>4 DEF Apart
    <3> QED BY <2>3, <3>2, <3>4, <3>5
  <2> QED BY <2>3, <2>4, <2>5
<1> QED BY <1>1, <1>5, <1>6

\* Retiring drops nothing that a position still to play can draw on, and keeps
\* nothing of its generation that lies behind.
LEMMA RetireExact ==
  ASSUME NEW E, NEW s, Tidy(E, s), NEW g \in Nat, NEW low \in Nat, NEW high \in Nat,
         \A i \in 1..Len(s) : /\ s[i].generation \in Nat /\ s[i].start \in Nat /\ s[i].end \in Nat
                              /\ s[i].start < s[i].end
  PROVE  LET r == Retire(s, [generation |-> g, low |-> low, high |-> high]) IN
         /\ Tidy(E, r) /\ Len(r) <= Len(s)
         /\ \A i \in 1..Len(r) : r[i].generation = g => r[i].end > low
         /\ \A p \in Nat : p >= low => (Covered(r, g, p) <=> Covered(s, g, p))
<1> DEFINE I == {i \in 1..Len(s) : s[i].generation = g /\ s[i].end > low}
           f == IF I # {} THEN Min(I) ELSE 0
           r == Retire(s, [generation |-> g, low |-> low, high |-> high])
<1>0. s \in Seq(E) /\ Len(s) \in Nat
  BY DEF Tidy
<1>1. r = IF f = 0 THEN <<>> ELSE SubSeq(s, f, Len(s))
  BY DEF Retire, SelectInSeq
<1>2. ASSUME NEW p \in Nat, p >= low, NEW i \in 1..Len(s), Covers(s[i], g, p)
      PROVE  i \in I
  BY <1>2 DEF Covers
<1>3. I \subseteq 1..Len(s) /\ \A i \in I : s[i].generation = g /\ s[i].end > low
  OBVIOUS
<1> HIDE DEF I, r
<1>4. CASE I = {}
  <2>1. r = <<>>
    BY <1>1, <1>4
  <2>2. Tidy(E, r) /\ Len(r) = 0
    BY <2>1 DEF Tidy
  <2>3. ASSUME NEW p \in Nat, p >= low PROVE ~Covered(s, g, p) /\ ~Covered(r, g, p)
    <3>1. ~Covered(s, g, p)
      BY <1>2, <1>4, <2>3 DEF Covered
    <3>2. ~Covered(r, g, p)
      BY <2>2 DEF Covered
    <3> QED BY <3>1, <3>2
  <2>4. 1..Len(r) = {} /\ Len(r) <= Len(s)
    BY <1>0, <2>2
  <2> QED BY <2>2, <2>3, <2>4 DEF r
<1>5. CASE I # {}
  <2>1. f \in I /\ \A i \in I : f <= i
    BY <1>0, <1>3, <1>5, FirstOf
  <2>2. f \in 1..Len(s) /\ f # 0 /\ s[f].generation = g /\ s[f].end > low
    BY <1>3, <2>1
  <2> HIDE DEF f
  <2>3. /\ r \in Seq(E) /\ Len(r) = Len(s) - f + 1
        /\ \A i \in 1..(Len(s) - f + 1) : r[i] = s[f + i - 1]
    BY <1>0, <1>1, <2>2
  <2>4. ASSUME NEW i \in 1..Len(r)
        PROVE  f + i - 1 \in 1..Len(s) /\ f <= f + i - 1 /\ r[i] = s[f + i - 1]
    BY <1>0, <2>2, <2>3
  <2>5. Tidy(E, r)
    <3>1. ASSUME NEW i \in 1..Len(r) PROVE r[i].start < r[i].end
      BY <2>4
    <3>2. ASSUME NEW i \in 1..Len(r), NEW j \in 1..Len(r), i < j PROVE Apart(r[i], r[j])
      <4>1. f + i - 1 < f + j - 1
        BY <2>2, <3>2
      <4> QED BY <2>4, <4>1 DEF Tidy
    <3> QED BY <2>3, <3>1, <3>2 DEF Tidy
  <2>6. ASSUME NEW i \in 1..Len(r), r[i].generation = g PROVE r[i].end > low
    <3>1. CASE f + i - 1 = f
      BY <2>2, <2>4, <3>1
    <3>2. CASE f + i - 1 # f
      <4>1. Apart(s[f], s[f + i - 1])
        <5>1. f < f + i - 1
          BY <2>2, <2>4, <3>2
        <5> QED BY <2>2, <2>4, <5>1 DEF Tidy
      <4>2. s[f].end < s[f + i - 1].start /\ s[f + i - 1].start < s[f + i - 1].end
        BY <2>2, <2>4, <2>6, <4>1 DEF Apart
      <4> DEFINE e == s[f + i - 1]
      <4>3. e.start \in Nat /\ e.end \in Nat /\ s[f].end \in Nat
        BY <2>2, <2>4
      <4>4. e.start > low
        BY <2>2, <4>2, <4>3
      <4>5. e.end > low
        BY <4>2, <4>3, <4>4
      <4> QED BY <2>4, <4>5
    <3> QED BY <3>1, <3>2
  <2>7. ASSUME NEW p \in Nat, p >= low PROVE Covered(r, g, p) <=> Covered(s, g, p)
    <3>1. Covered(r, g, p) => Covered(s, g, p)
      BY <2>4 DEF Covered
    <3>2. ASSUME NEW i \in 1..Len(s), Covers(s[i], g, p) PROVE Covered(r, g, p)
      <4>1. f <= i
        BY <1>2, <2>1, <2>7, <3>2
      <4>2. i - f + 1 \in 1..Len(r) /\ f + (i - f + 1) - 1 = i
        BY <1>0, <2>2, <2>3, <4>1
      <4>3. r[i - f + 1] = s[i]
        BY <2>4, <4>2
      <4> QED BY <3>2, <4>2, <4>3 DEF Covered
    <3> QED BY <3>1, <3>2 DEF Covered
  <2>8. Len(r) <= Len(s)
    BY <1>0, <2>2, <2>3
  <2> QED BY <2>5, <2>6, <2>7, <2>8 DEF r
<1> QED BY <1>4, <1>5

-----------------------------------------------------------------------------
(* The history as the renderer drives it.                                  *)

HistoryInv ==
  /\ Tidy(Interval, history) /\ Len(history) <= HistoryCapacity
  /\ fault \in BOOLEAN /\ generation \in Generations /\ floor \in Nat
  /\ ~fault => \A p \in Nat :
       p >= floor => (Covered(history, generation, p) <=> <<generation, p>> \in wanted)

LEMMA IntervalFields ==
  ASSUME NEW e \in Interval
  PROVE  e.generation \in Nat /\ e.start \in Nat /\ e.end \in Nat
BY HistoryAssumption, EntryFields DEF Interval, Entries

LEMMA TidyFields ==
  ASSUME NEW s, Tidy(Interval, s)
  PROVE  \A i \in 1..Len(s) : /\ s[i].generation \in Nat /\ s[i].start \in Nat /\ s[i].end \in Nat
                              /\ s[i].start < s[i].end
<1>1. s \in Seq(Interval) /\ \A i \in 1..Len(s) : s[i].start < s[i].end
  BY DEF Tidy
<1>2. \A i \in 1..Len(s) : s[i] \in Interval
  BY <1>1
<1> QED BY <1>1, <1>2, IntervalFields

LEMMA EmptyTidy == Tidy(Interval, <<>>) /\ \A g, p \in Nat : ~Covered(<<>>, g, p)
<1>1. <<>> \in Seq(Interval) /\ Len(<<>>) = 0
  OBVIOUS
<1>2. 1..Len(<<>>) = {}
  BY <1>1
<1> QED BY <1>1, <1>2 DEF Tidy, Covered

LEMMA DeliverInv ==
  ASSUME HistoryInv, NEW interval \in Interval, Deliver(interval)
  PROVE  HistoryInv'
<1> DEFINE r == Insert(history, interval)
<1>1. /\ interval.start < interval.end /\ history' = r.entries /\ fault' = (fault \/ ~r.ok)
      /\ wanted' = wanted \cup Points(interval) /\ generation' = generation /\ floor' = floor
  BY DEF Deliver
<1>2. /\ r.ok \in BOOLEAN /\ Tidy(Interval, r.entries) /\ Len(r.entries) <= HistoryCapacity
      /\ r.ok => \A g, p \in Nat :
           Covered(r.entries, g, p) <=> Covers(interval, g, p) \/ Covered(history, g, p)
  <2>1. Interval = Entries(Generations, Horizon)
    BY DEF Interval, Entries
  <2>2. /\ Tidy(Entries(Generations, Horizon), history) /\ Len(history) <= HistoryCapacity
        /\ interval \in Entries(Generations, Horizon)
    BY <2>1 DEF HistoryInv
  <2> QED BY <1>1, <2>1, <2>2, HistoryAssumption, InsertExact
<1> HIDE DEF r
<1>3. generation \in Nat
  BY HistoryAssumption DEF HistoryInv
<1>4. \A p \in Nat : <<generation, p>> \in Points(interval) <=> Covers(interval, generation, p)
  <2>1. interval.start \in Nat /\ interval.end \in Nat
    BY IntervalFields
  <2> QED BY <2>1 DEF Points, Covers
<1>5. ASSUME ~fault', NEW p \in Nat, p >= floor
      PROVE  Covered(history', generation, p) <=> <<generation, p>> \in wanted'
  <2>1. r.ok /\ ~fault
    BY <1>1, <1>5
  <2>2. Covered(history, generation, p) <=> <<generation, p>> \in wanted
    BY <1>5, <2>1 DEF HistoryInv
  <2> QED BY <1>1, <1>2, <1>3, <1>4, <2>1, <2>2
<1> QED BY <1>1, <1>2, <1>5 DEF HistoryInv

LEMMA PlayInv ==
  ASSUME HistoryInv, NEW low \in 0..(Horizon - 1), NEW high \in {low, low + 1}, Play(low, high)
  PROVE  /\ HistoryInv'
         /\ \A i \in 1..Len(history') :
              history'[i].generation = generation' => history'[i].end > floor'
<1> DEFINE r == Retire(history, [generation |-> generation, low |-> low, high |-> high])
<1>0. low \in Nat /\ high \in Nat /\ generation \in Nat
  BY HistoryAssumption DEF HistoryInv
<1>1. /\ ~fault /\ low >= floor /\ history' = r /\ floor' = low
      /\ fault' = fault /\ generation' = generation /\ wanted' = wanted
  BY DEF Play
<1>2. /\ Tidy(Interval, r) /\ Len(r) <= Len(history)
      /\ \A i \in 1..Len(r) : r[i].generation = generation => r[i].end > low
      /\ \A p \in Nat : p >= low => (Covered(r, generation, p) <=> Covered(history, generation, p))
  BY <1>0, TidyFields, RetireExact DEF HistoryInv
<1>3. Len(r) \in Nat /\ Len(history) \in Nat /\ HistoryCapacity \in Nat /\ floor \in Nat
  BY <1>2, HistoryCapacityAssumption DEF Tidy, HistoryInv
<1> HIDE DEF r
<1>4. \A p \in Nat : p >= low => p >= floor
  BY <1>0, <1>1, <1>3
<1>5. HistoryInv'
  BY <1>0, <1>1, <1>2, <1>3, <1>4 DEF HistoryInv
<1> QED BY <1>1, <1>2, <1>5

LEMMA NextHistoryInv ==
  ASSUME HistoryInv, [Next]_vars
  PROVE  HistoryInv'
<1>1. CASE \E interval \in Interval : Deliver(interval)
  BY <1>1, DeliverInv
<1>2. CASE \E low \in 0..(Horizon - 1) : Play(low, low) \/ Play(low, low + 1)
  BY <1>2, PlayInv
<1>3. CASE Reset
  <2>1. /\ history' = <<>> /\ fault' = FALSE /\ floor' = 0 /\ wanted' = {}
        /\ generation' \in Generations
    BY <1>3 DEF Reset
  <2>2. Len(<<>>) <= HistoryCapacity
    BY HistoryCapacityAssumption
  <2> QED BY <2>1, <2>2, EmptyTidy, HistoryAssumption DEF HistoryInv
<1>4. CASE UNCHANGED vars
  BY <1>4 DEF vars, HistoryInv
<1> QED BY <1>1, <1>2, <1>3, <1>4 DEF Next

\* The entries stay apart and in their store, and what they cover of the playing
\* generation from the floor on is what was asked, in every reachable state.
THEOREM HistoryInvariance == Spec => []HistoryInv
<1>1. Init => HistoryInv
  <2>1. Len(<<>>) <= HistoryCapacity
    BY HistoryCapacityAssumption
  <2> SUFFICES ASSUME Init PROVE HistoryInv
    OBVIOUS
  <2>2. /\ history = <<>> /\ fault = FALSE /\ floor = 0 /\ wanted = {}
        /\ generation \in Generations /\ generation \in Nat
    BY HistoryAssumption DEF Init
  <2> QED BY <2>1, <2>2, EmptyTidy DEF HistoryInv
<1>2. HistoryInv /\ [Next]_vars => HistoryInv'
  BY NextHistoryInv
<1> QED BY <1>1, <1>2, PTL DEF Spec

\* The entries stay sorted and apart, whatever arrives in whatever order and
\* however much of it the store must refuse.
THEOREM CanonicalHolds == Spec => []Canonical
<1>1. HistoryInv => Canonical
  <2> SUFFICES ASSUME HistoryInv PROVE Canonical
    OBVIOUS
  <2>1. /\ history \in Seq(Interval)
        /\ \A i \in 1..Len(history) : history[i].start < history[i].end
        /\ \A i, j \in 1..Len(history) : i < j => Apart(history[i], history[j])
    BY DEF HistoryInv, Tidy
  <2>2. DOMAIN history = 1..Len(history) /\ Len(history) \in Nat
        /\ \A i \in 1..Len(history) : history[i] \in Interval
    BY <2>1
  <2>3. ASSUME NEW i \in 1..(Len(history) - 1) PROVE Apart(history[i], history[i + 1])
    BY <2>1, <2>2
  <2> QED BY <2>1, <2>2, <2>3 DEF Canonical, Apart
<1> QED BY <1>1, HistoryInvariance, PTL

\* A position still to play is muted exactly if a source sample it draws on was
\* asked to be muted.
THEOREM MutedExactHolds == Spec => []MutedExact
<1>1. HistoryInv => MutedExact
  <2> SUFFICES ASSUME HistoryInv, ~fault, NEW low \in floor..(Horizon - 1), NEW high \in {low, low + 1}
               PROVE  Muted(history, [generation |-> generation, low |-> low, high |-> high])
                        <=> \E p \in low..high : <<generation, p>> \in wanted
    BY DEF MutedExact
  <2>1. /\ floor \in Nat /\ low \in Nat /\ low >= floor /\ high \in Nat /\ low <= high
        /\ generation \in Nat
    BY HistoryAssumption DEF HistoryInv
  <2>2. Muted(history, [generation |-> generation, low |-> low, high |-> high])
          <=> \E p \in low..high : Covered(history, generation, p)
    <3>1. Tidy(Entries(Generations, Horizon), history)
      BY DEF HistoryInv, Interval, Entries
    <3> QED BY <2>1, <3>1, HistoryAssumption, MutedIffCovered
  <2>3. \A p \in low..high : Covered(history, generation, p) <=> <<generation, p>> \in wanted
    <3>1. \A p \in low..high : p \in Nat /\ p >= floor
      BY <2>1
    <3> QED BY <3>1 DEF HistoryInv
  <2> QED BY <2>2, <2>3
<1> QED BY <1>1, HistoryInvariance, PTL

\* When playback moves on, what it has left behind leaves the store.
THEOREM PrunedBehindHolds == Spec => PrunedBehind
<1> DEFINE Pruned == floor' # floor =>
             \A i \in DOMAIN history' :
               history'[i].generation = generation' => history'[i].end > floor'
<1>1. HistoryInv /\ HistoryInv' /\ [Next]_vars => [Pruned]_vars
  <2> SUFFICES ASSUME HistoryInv, HistoryInv', Next, floor' # floor,
                      NEW i \in DOMAIN history', history'[i].generation = generation'
               PROVE  history'[i].end > floor'
    OBVIOUS
  <2>1. i \in 1..Len(history')
    BY DEF HistoryInv, Tidy
  <2>2. CASE \E interval \in Interval : Deliver(interval)
    BY <2>2 DEF Deliver
  <2>3. CASE \E low \in 0..(Horizon - 1) : Play(low, low) \/ Play(low, low + 1)
    BY <2>1, <2>3, PlayInv
  <2>4. CASE Reset
    <3>1. history' = <<>>
      BY <2>4 DEF Reset
    <3> QED BY <2>1, <3>1
  <2> QED BY <2>2, <2>3, <2>4 DEF Next
<1> QED BY <1>1, HistoryInvariance, PTL DEF Spec, PrunedBehind
=============================================================================
