-------------------------- MODULE ExpertCacheProofs --------------------------
(***************************************************************************)
(* For any experts, call sets, pools and hot lists, and any interleaving   *)
(* of the main thread with the builds and callbacks of the prefetch pool:  *)
(* a forward returns its own experts' bundles, and no prefetch is left     *)
(* registered.                                                             *)
(***************************************************************************)
EXTENDS ExpertCache, Induction, SequenceTheorems, TLAPS

(* load_hot_layer is not between its assignments. *)
Settled == pc \notin {"hotKey", "hotSet"}

(* The three attributes of the hot stack agree, and so does the window on  *)
(* the GPU; in between they are replaced one by one.                       *)
HotInv ==
  /\ Settled => \/ /\ backing = <<>> /\ key = <<>> /\ hotset = {}
                   /\ window = <<>>
                \/ /\ backing = key \o <<ZeroRow>>
                   /\ hotset = ToSet(key) /\ window \in {<<>>, backing}
  /\ ~Settled => backing = newkey \o <<ZeroRow>>
  /\ pc = "hotSet" => key = newkey

(* The life of a future. *)
FutureInv ==
  \A f \in FutureIds :
    /\ futs[f].st = "free" => futs[f].exp = None
    /\ futs[f].st # "free" => futs[f].exp \in Experts
    /\ futs[f].st = "done" => futs[f].val # None
    /\ futs[f].cb = "ran" => Finished(f)

(* What the pool has not started is queued, and queued once. *)
QueueInv ==
  /\ \A i \in DOMAIN queue : futs[queue[i]].st = "queued"
  /\ \A i, j \in DOMAIN queue : queue[i] = queue[j] => i = j

(* A build that no replacement of the hot stack overlapped has read what   *)
(* is there now.                                                            *)
BuildInv ==
  \A f \in FutureIds : ~futs[f].torn =>
    /\ futs[f].st \in {"index", "stack", "slice"} =>
         Settled /\ backing # <<>> /\ futs[f].exp \in hotset
    /\ futs[f].st \in {"stack", "slice"} =>
         futs[f].idx \in DOMAIN key /\ key[futs[f].idx] = futs[f].exp
    /\ futs[f].st = "slice" => futs[f].rows = backing

Searching == {"buffer", "putBuffer", "inflight", "result", "pop",
              "putInflight", "build"}
Outside == {"idle", "attach", "hotKey", "hotSet"}

(* Every expert asked for has a bundle or is still looked for, and what a  *)
(* phase has in hand is its expert's.                                      *)
CallInv ==
  /\ pc \in Outside => want = {}
  /\ pc \in Searching =>
       \A e \in want : got[e] # None \/ e \in todo \cup missing
  /\ pc = "serve" => \A e \in want : got[e] # None
  /\ pc = "build" => missing = {}
  /\ pc \in {"putBuffer", "result", "pop", "putInflight"} => cur \in todo
  /\ pc \in {"putBuffer", "pop", "putInflight"} =>
       val # None /\ (cur \notin tainted => val = cur)
  /\ pc = "result" => fut \in FutureIds /\ futs[fut].exp = cur
  /\ pc # "attach" => attach = {}

(* A cache whose entries are their experts' own, except those of T. *)
Own(c, T) == \A i \in DOMAIN c : c[i].key \notin T => c[i].val = c[i].key

(* Whatever holds a bundle holds the expert's own. *)
StoreInv ==
  /\ Own(lru, tainted) /\ Own(buf, tainted)
  /\ \A e \in Experts \ tainted :
       /\ got[e] \in {e, None} /\ pinned[e] \in {e, None}
       /\ \A f \in FutureIds : futs[f].exp = e => futs[f].val \in {e, None}

IInv == /\ TypeOK /\ HotInv /\ FutureInv /\ QueueInv /\ BuildInv /\ CallInv
        /\ StoreInv /\ NoOrphanPrefetch

-----------------------------------------------------------------------------
(* The caches.                                                              *)

(* A cache of the layer: typed, within its budget, its entries its own     *)
(* except those of T.                                                      *)
Good(slots, T) ==
  {c \in Seq(Entries) : WithinBudget(c, slots) /\ Own(c, T)}

(* A cached key is an expert, has a position, and the entry there carries  *)
(* that key.                                                               *)
LEMMA PositionFound ==
  ASSUME NEW c \in Seq(Entries), NEW k \in CachedKeys(c)
  PROVE  /\ k \in Experts
         /\ PositionOf(c, k) \in 1..Len(c) /\ c[PositionOf(c, k)].key = k
<1>1. \E i \in DOMAIN c : c[i].key = k
  BY DEF CachedKeys
<1>2. PositionOf(c, k) \in DOMAIN c /\ c[PositionOf(c, k)].key = k
  BY <1>1 DEF PositionOf
<1>3. c[PositionOf(c, k)] \in Entries
  BY <1>2
<1> QED BY <1>2, <1>3 DEF Entries

(* peek returns the key's own bundle. *)
LEMMA PeekGood ==
  ASSUME NEW slots \in Nat, NEW T, NEW c \in Good(slots, T),
         NEW k \in CachedKeys(c)
  PROVE  /\ CachePeek(c, k) \in Rows
         /\ k \notin T => CachePeek(c, k) = k
<1>1. c \in Seq(Entries) /\ Own(c, T)
  BY DEF Good
<1>2. PositionOf(c, k) \in DOMAIN c /\ c[PositionOf(c, k)].key = k
  BY <1>1, PositionFound
<1>3. c[PositionOf(c, k)] \in Entries
  BY <1>1, <1>2
<1> QED BY <1>1, <1>2, <1>3 DEF CachePeek, Own, Entries

(* Taking an entry out keeps a cache good. *)
LEMMA WithoutGood ==
  ASSUME NEW slots \in Nat, NEW T, NEW c \in Good(slots, T),
         NEW p \in 1..Len(c)
  PROVE  /\ WithoutPosition(c, p) \in Good(slots, T)
         /\ Len(WithoutPosition(c, p)) = Len(c) - 1
<1> DEFINE w == WithoutPosition(c, p)
<1>1. c \in Seq(Entries) /\ Own(c, T) /\ WithinBudget(c, slots)
  BY DEF Good
<1>2. Len(c) \in Nat /\ Len(c) - 1 \in Nat
  BY <1>1
<1>3. \A j \in 1..(Len(c) - 1) :
        (IF j < p THEN c[j] ELSE c[j + 1]) \in Entries
  BY <1>1
<1>4. w \in Seq(Entries) /\ Len(w) = Len(c) - 1
  BY <1>2, <1>3 DEF WithoutPosition
<1>5. \A j \in 1..(Len(c) - 1) : w[j] = IF j < p THEN c[j] ELSE c[j + 1]
  BY DEF WithoutPosition
<1> HIDE DEF w
<1>6. Own(w, T)
  BY <1>1, <1>2, <1>4, <1>5 DEF Own
<1>7. WithinBudget(w, slots)
  BY <1>1, <1>2, <1>4 DEF WithinBudget
<1> QED BY <1>4, <1>6, <1>7 DEF Good, w

(* get keeps a cache good. *)
LEMMA GetGood ==
  ASSUME NEW slots \in Nat, NEW T, NEW c \in Good(slots, T), NEW k
  PROVE  CacheGet(c, k) \in Good(slots, T)
<1>1. CASE k \notin CachedKeys(c)
  BY <1>1 DEF CacheGet
<1>2. CASE k \in CachedKeys(c)
  <2> DEFINE p == PositionOf(c, k)
             w == WithoutPosition(c, p)
             g == Append(w, c[p])
  <2>1. c \in Seq(Entries) /\ Own(c, T) /\ WithinBudget(c, slots)
    BY DEF Good
  <2>2. p \in 1..Len(c) /\ c[p] \in Entries
    BY <1>2, <2>1, PositionFound
  <2>3. CacheGet(c, k) = g
    BY <1>2 DEF CacheGet
  <2> HIDE DEF p
  <2>4. w \in Good(slots, T) /\ Len(w) = Len(c) - 1
    BY <2>2, WithoutGood
  <2> HIDE DEF w
  <2>5. w \in Seq(Entries) /\ Own(w, T)
    BY <2>4 DEF Good
  <2>6. /\ g \in Seq(Entries) /\ Len(g) = Len(w) + 1
        /\ g[Len(w) + 1] = c[p]
        /\ \A j \in 1..Len(w) : g[j] = w[j]
    BY <2>2, <2>5
  <2> HIDE DEF g
  <2>7. Own(g, T)
    BY <2>1, <2>2, <2>5, <2>6 DEF Own
  <2>8. WithinBudget(g, slots)
    BY <2>1, <2>4, <2>6 DEF WithinBudget
  <2> QED BY <2>3, <2>6, <2>7, <2>8 DEF Good
<1> QED BY <1>1, <1>2

(* pop keeps a cache good. *)
LEMMA PopGood ==
  ASSUME NEW slots \in Nat, NEW T, NEW c \in Good(slots, T), NEW k
  PROVE  CachePop(c, k) \in Good(slots, T)
<1>1. CASE k \notin CachedKeys(c)
  BY <1>1 DEF CachePop
<1>2. CASE k \in CachedKeys(c)
  <2>1. PositionOf(c, k) \in 1..Len(c)
    BY <1>2, PositionFound DEF Good
  <2> QED BY <1>2, <2>1, WithoutGood DEF CachePop
<1> QED BY <1>1, <1>2

(* put keeps a cache good if what it files is the expert's own. *)
LEMMA PutGood ==
  ASSUME NEW slots \in Nat, NEW T, NEW c \in Good(slots, T),
         NEW k \in Experts, NEW v \in Rows, k \notin T => v = k
  PROVE  CachePut(c, k, v, slots) \in Good(slots, T)
<1> DEFINE entry == [key |-> k, val |-> v]
<1>0. entry \in Entries /\ entry.key = k /\ entry.val = v
  BY DEF Entries
<1>1. c \in Seq(Entries) /\ Own(c, T) /\ WithinBudget(c, slots)
  BY DEF Good
<1> HIDE DEF entry
<1>2. CASE k \in CachedKeys(c)
  <2> DEFINE p == PositionOf(c, k)
             d == [c EXCEPT ![p] = entry]
  <2>1. p \in 1..Len(c)
    BY <1>1, <1>2, PositionFound
  <2>2. CachePut(c, k, v, slots) = d
    BY <1>2 DEF CachePut, entry
  <2> HIDE DEF p
  <2>3. /\ d \in Seq(Entries) /\ Len(d) = Len(c)
        /\ \A i \in 1..Len(c) : d[i] = IF i = p THEN entry ELSE c[i]
    BY <1>0, <1>1, <2>1
  <2> HIDE DEF d
  <2>4. Own(d, T)
    BY <1>0, <1>1, <2>3 DEF Own
  <2> QED BY <1>1, <2>2, <2>3, <2>4 DEF Good, WithinBudget
<1>3. CASE k \notin CachedKeys(c)
  <2> DEFINE g == Append(c, entry)
  <2>1. CachePut(c, k, v, slots)
          = IF slots > 0 /\ Len(g) > slots THEN Tail(g) ELSE g
    BY <1>3 DEF CachePut, entry
  <2>2. /\ g \in Seq(Entries) /\ Len(g) = Len(c) + 1
        /\ g[Len(c) + 1] = entry
        /\ \A i \in 1..Len(c) : g[i] = c[i]
    BY <1>0, <1>1
  <2> HIDE DEF g
  <2>3. Own(g, T)
    BY <1>0, <1>1, <2>2 DEF Own
  <2>4. /\ Tail(g) \in Seq(Entries) /\ Len(Tail(g)) = Len(c)
        /\ \A i \in 1..Len(c) : Tail(g)[i] = g[i + 1]
    BY <1>1, <2>2
  <2>5. Own(Tail(g), T)
    BY <1>1, <2>2, <2>3, <2>4 DEF Own
  <2> QED BY <1>1, <2>1, <2>2, <2>3, <2>4, <2>5 DEF Good, WithinBudget
<1> QED BY <1>2, <1>3

-----------------------------------------------------------------------------
(* Ascending orders.                                                        *)

(* A finite set of numbers can be listed in ascending order. *)
LEMMA AscendingExists ==
  ASSUME NEW S \in SUBSET Nat, IsFiniteSet(S)
  PROVE  /\ Ascending(S) \in [1..Cardinality(S) -> S]
         /\ \A i, j \in 1..Cardinality(S) :
              i < j => Ascending(S)[i] < Ascending(S)[j]
<1> DEFINE Up(s, n) == \A i, j \in 1..n : i < j => s[i] < s[j]
           T == {n \in Nat : \A E \in SUBSET S :
                   Cardinality(E) = n => \E s \in [1..n -> E] : Up(s, n)}
<1>1. ASSUME NEW n \in Nat, \A k \in Nat : k < n => k \in T
      PROVE  n \in T
  <2> SUFFICES ASSUME NEW E \in SUBSET S, Cardinality(E) = n
               PROVE  \E s \in [1..n -> E] : Up(s, n)
    OBVIOUS
  <2>0. IsFiniteSet(E)
    BY FS_Subset
  <2>1. CASE n = 0
    <3> DEFINE s == [i \in 1..n |-> 0]
    <3>1. s \in [1..n -> E] /\ Up(s, n)
      BY <2>1
    <3> QED BY <3>1
  <2>2. CASE n # 0
    <3> HIDE DEF T
    <3>1. E # {}
      BY <2>2, FS_EmptySet
    <3>2. PICK m \in E : \A x \in E : m >= x
      <4> DEFINE f == [x \in E |-> x]
      <4>1. \A x \in E : f[x] \in Int
        OBVIOUS
      <4> HIDE DEF f
      <4>2. PICK m \in E : \A x \in E : f[m] >= f[x]
        BY <2>0, <3>1, <4>1, GreatestExists
      <4> QED BY <4>2 DEF f
    <3> DEFINE F == E \ {m}
    <3>3. F \in SUBSET S /\ Cardinality(F) = n - 1
      BY <2>0, FS_RemoveElement
    <3>4. n - 1 \in Nat /\ n - 1 < n
      BY <2>2
    <3>5. n - 1 \in T
      BY <1>1, <3>4
    <3>6. PICK t \in [1..(n - 1) -> F] : Up(t, n - 1)
      BY <3>3, <3>5 DEF T
    <3> DEFINE s == [i \in 1..n |-> IF i = n THEN m ELSE t[i]]
    <3>7. \A i \in 1..n : i # n => i \in 1..(n - 1)
      BY <3>4
    <3>8. s \in [1..n -> E]
      BY <3>6, <3>7
    <3>9. ASSUME NEW i \in 1..n, NEW j \in 1..n, i < j PROVE s[i] < s[j]
      <4>1. i \in 1..(n - 1)
        BY <3>4, <3>9
      <4>2. t[i] \in F
        BY <3>6, <4>1
      <4>3. t[i] \in Nat /\ m \in Nat /\ t[i] < m
        <5>1. t[i] \in Nat /\ m \in Nat
          BY <4>2
        <5>2. t[i] # m /\ m >= t[i]
          BY <3>2, <4>2
        <5> HIDE DEF F
        <5> QED BY <5>1, <5>2
      <4>4. CASE j = n
        BY <4>1, <4>3, <4>4
      <4>5. CASE j # n
        BY <3>6, <3>7, <3>9, <4>1, <4>5
      <4> QED BY <4>4, <4>5
    <3> HIDE DEF s
    <3> QED BY <3>8, <3>9
  <2> QED BY <2>1, <2>2
<1> HIDE DEF T
<1>2. T = Nat
  <2>1. T \in SUBSET Nat
    BY DEF T
  <2> QED BY <1>1, <2>1, SetInduction
<1>3. Cardinality(S) \in T /\ S \in SUBSET S
  BY <1>2, FS_CardinalityType
<1>4. \E s \in [1..Cardinality(S) -> S] : Up(s, Cardinality(S))
  BY <1>3 DEF T
<1> QED BY <1>4 DEF Ascending

(* The order lists every member once. *)
LEMMA AscendingLists ==
  ASSUME NEW S \in SUBSET Nat, IsFiniteSet(S)
  PROVE  /\ Ascending(S) \in Seq(S) /\ Len(Ascending(S)) = Cardinality(S)
         /\ Cardinality(S) \in Nat
         /\ DOMAIN Ascending(S) = 1..Cardinality(S)
         /\ \A i \in DOMAIN Ascending(S) : Ascending(S)[i] \in S
         /\ \A i, j \in DOMAIN Ascending(S) :
              Ascending(S)[i] = Ascending(S)[j] => i = j
         /\ \A x \in S : \E i \in DOMAIN Ascending(S) : Ascending(S)[i] = x
<1> DEFINE n == Cardinality(S)
           s == Ascending(S)
<1>1. n \in Nat
  BY FS_CardinalityType
<1>2. s \in [1..n -> S] /\ \A i, j \in 1..n : i < j => s[i] < s[j]
  BY AscendingExists
<1> HIDE DEF s
<1>3. s \in Seq(S) /\ Len(s) = n /\ DOMAIN s = 1..n
  <2>1. s \in Seq(S) /\ DOMAIN s = 1..n
    BY <1>1, <1>2
  <2> HIDE DEF n
  <2> QED BY <1>1, <2>1
<1>4. ASSUME NEW i \in 1..n, NEW j \in 1..n, s[i] = s[j] PROVE i = j
  <2>1. s[i] \in Nat /\ s[j] \in Nat
    BY <1>2
  <2>2. ~(i < j) /\ ~(j < i)
    BY <1>2, <1>4, <2>1
  <2> QED BY <1>1, <2>2
<1>5. s \in Injection(1..n, S)
  BY <1>2, <1>4 DEF Injection, IsInjective
<1>6. IsFiniteSet(1..n) /\ Cardinality(1..n) = n
  BY <1>1, FS_Interval
<1>7. s \in Surjection(1..n, S)
  BY <1>5, <1>6, FS_Injection
<1>8. \A x \in S : \E i \in 1..n : s[i] = x
  BY <1>7 DEF Surjection
<1> QED BY <1>1, <1>2, <1>3, <1>4, <1>8 DEF s

-----------------------------------------------------------------------------
(* Folds over an ascending order.                                           *)

(* Max picks a member of a set of positions. *)
LEMMA MaxMember ==
  ASSUME NEW n \in Nat, NEW s \in SUBSET (1..n), s # {}
  PROVE  Max(s) \in s
<1>1. IsFiniteSet(s)
  <2>1. IsFiniteSet(1..n)
    BY FS_Interval
  <2> QED BY <2>1, FS_Subset
<1> DEFINE f == [x \in s |-> x]
<1>2. \A x \in s : f[x] \in Int
  OBVIOUS
<1> HIDE DEF f
<1>3. PICK m \in s : \A x \in s : f[m] >= f[x]
  BY <1>1, <1>2, GreatestExists
<1>4. \A x \in s : m >= x
  BY <1>3 DEF f
<1> QED BY <1>4 DEF Max

(* A hit on each expert of a set keeps the LRU good. *)
LEMMA TouchGood ==
  ASSUME NEW slots \in Nat, NEW T, NEW c \in Good(slots, T),
         NEW S \in SUBSET Experts
  PROVE  FoldLeft(CacheGet, c, Ascending(S))
           \in Good(slots, T)
<1> DEFINE q == Ascending(S)
           D == DOMAIN q
           C == Good(slots, T)
           n == Cardinality(S)
           Step(b, i) == CacheGet(b, q[i])
           Is(g) == g = [x \in SUBSET D |->
                           IF x = {} THEN c
                           ELSE Step(g[x \ {Max(x)}], Max(x))]
           G == CHOOSE g : Is(g)
           pick == [x \in SUBSET D |-> Max(x)]
           F == [p \in C \X D |-> Step(p[1], p[2])]
<1>0. S \in SUBSET Nat /\ IsFiniteSet(S)
  BY CacheAssumption, FS_Subset
<1>1. FoldLeft(CacheGet, c, Ascending(S)) = G[D]
  BY DEF FoldLeft, MapThenFoldSet
<1>2. n \in Nat /\ D = 1..n /\ \A i \in D : q[i] \in S
  BY <1>0, AscendingLists
<1> HIDE DEF q, n, D, C
<1>3. IsFiniteSet(D)
  BY <1>2, FS_Interval
<1>4. \A b \in C : \A i \in D : Step(b, i) \in C
  BY <1>2, GetGood DEF C
<1>5. \A x \in SUBSET D : x # {} => Max(x) \in x
  BY <1>2, MaxMember
<1> HIDE DEF Step
<1>6. Selects(pick, D)
  BY <1>5 DEF Selects
<1>7. \A x \in SUBSET D : pick[x] = Max(x)
  OBVIOUS
<1>8. F \in [C \X D -> C]
  BY <1>4
<1>9. \A b \in C, i \in D : F[<<b, i>>] = Step(b, i)
  OBVIOUS
<1>10. c \in C
  BY DEF C
<1> HIDE DEF F, pick
<1>11. PICK h \in [SUBSET D -> C] : IsFold(h, D, c, pick, F)
  BY <1>3, <1>6, <1>8, <1>10, FoldExists
<1>12. Is(h)
  <2>1. ASSUME NEW x \in SUBSET D
        PROVE  h[x] = IF x = {} THEN c
                      ELSE Step(h[x \ {Max(x)}], Max(x))
    <3>1. CASE x = {}
      BY <1>11, <3>1 DEF IsFold
    <3>2. CASE x # {}
      <4>1. Max(x) \in D /\ h[x \ {Max(x)}] \in C
        BY <1>5, <1>11, <3>2
      <4>2. h[x] = F[<<h[x \ {Max(x)}], Max(x)>>]
        BY <1>7, <1>11, <3>2 DEF IsFold
      <4> QED BY <1>9, <3>2, <4>1, <4>2
    <3> QED BY <3>1, <3>2
  <2> QED BY <1>11, <2>1
<1>13. Is(G)
  BY <1>12
<1> HIDE DEF G
<1> DEFINE P == {x \in SUBSET D : G[x] \in C}
<1>14. {} \in P
  BY <1>10, <1>13
<1>15. ASSUME NEW x \in SUBSET D, x # {}, x \ {pick[x]} \in P
       PROVE  x \in P
  <2>1. Max(x) \in x /\ Max(x) \in D /\ G[x \ {Max(x)}] \in C
    BY <1>5, <1>7, <1>15
  <2>2. G[x] = Step(G[x \ {Max(x)}], Max(x))
    BY <1>13, <1>15
  <2> QED BY <1>4, <2>1, <2>2
<1>16. P \in SUBSET (SUBSET D)
  OBVIOUS
<1> HIDE DEF P
<1>17. D \in P
  <2>1. \A x \in SUBSET D : x # {} /\ x \ {pick[x]} \in P => x \in P
    BY <1>15
  <2> QED BY <1>3, <1>6, <1>14, <1>16, <2>1, FoldInduction
<1> QED BY <1>1, <1>17 DEF C, P

(* Popping each expert of a set keeps the LRU good. *)
LEMMA PopAllGood ==
  ASSUME NEW slots \in Nat, NEW T, NEW c \in Good(slots, T),
         NEW S \in SUBSET Experts
  PROVE  FoldLeft(CachePop, c, Ascending(S))
           \in Good(slots, T)
<1> DEFINE q == Ascending(S)
           D == DOMAIN q
           C == Good(slots, T)
           n == Cardinality(S)
           Step(b, i) == CachePop(b, q[i])
           Is(g) == g = [x \in SUBSET D |->
                           IF x = {} THEN c
                           ELSE Step(g[x \ {Max(x)}], Max(x))]
           G == CHOOSE g : Is(g)
           pick == [x \in SUBSET D |-> Max(x)]
           F == [p \in C \X D |-> Step(p[1], p[2])]
<1>0. S \in SUBSET Nat /\ IsFiniteSet(S)
  BY CacheAssumption, FS_Subset
<1>1. FoldLeft(CachePop, c, Ascending(S)) = G[D]
  BY DEF FoldLeft, MapThenFoldSet
<1>2. n \in Nat /\ D = 1..n /\ \A i \in D : q[i] \in S
  BY <1>0, AscendingLists
<1> HIDE DEF q, n, D, C
<1>3. IsFiniteSet(D)
  BY <1>2, FS_Interval
<1>4. \A b \in C : \A i \in D : Step(b, i) \in C
  BY <1>2, PopGood DEF C
<1>5. \A x \in SUBSET D : x # {} => Max(x) \in x
  BY <1>2, MaxMember
<1> HIDE DEF Step
<1>6. Selects(pick, D)
  BY <1>5 DEF Selects
<1>7. \A x \in SUBSET D : pick[x] = Max(x)
  OBVIOUS
<1>8. F \in [C \X D -> C]
  BY <1>4
<1>9. \A b \in C, i \in D : F[<<b, i>>] = Step(b, i)
  OBVIOUS
<1>10. c \in C
  BY DEF C
<1> HIDE DEF F, pick
<1>11. PICK h \in [SUBSET D -> C] : IsFold(h, D, c, pick, F)
  BY <1>3, <1>6, <1>8, <1>10, FoldExists
<1>12. Is(h)
  <2>1. ASSUME NEW x \in SUBSET D
        PROVE  h[x] = IF x = {} THEN c
                      ELSE Step(h[x \ {Max(x)}], Max(x))
    <3>1. CASE x = {}
      BY <1>11, <3>1 DEF IsFold
    <3>2. CASE x # {}
      <4>1. Max(x) \in D /\ h[x \ {Max(x)}] \in C
        BY <1>5, <1>11, <3>2
      <4>2. h[x] = F[<<h[x \ {Max(x)}], Max(x)>>]
        BY <1>7, <1>11, <3>2 DEF IsFold
      <4> QED BY <1>9, <3>2, <4>1, <4>2
    <3> QED BY <3>1, <3>2
  <2> QED BY <1>11, <2>1
<1>13. Is(G)
  BY <1>12
<1> HIDE DEF G
<1> DEFINE P == {x \in SUBSET D : G[x] \in C}
<1>14. {} \in P
  BY <1>10, <1>13
<1>15. ASSUME NEW x \in SUBSET D, x # {}, x \ {pick[x]} \in P
       PROVE  x \in P
  <2>1. Max(x) \in x /\ Max(x) \in D /\ G[x \ {Max(x)}] \in C
    BY <1>5, <1>7, <1>15
  <2>2. G[x] = Step(G[x \ {Max(x)}], Max(x))
    BY <1>13, <1>15
  <2> QED BY <1>4, <2>1, <2>2
<1>16. P \in SUBSET (SUBSET D)
  OBVIOUS
<1> HIDE DEF P
<1>17. D \in P
  <2>1. \A x \in SUBSET D : x # {} /\ x \ {pick[x]} \in P => x \in P
    BY <1>15
  <2> QED BY <1>3, <1>6, <1>14, <1>16, <2>1, FoldInduction
<1> QED BY <1>1, <1>17 DEF C, P

(* Filing a bundle built for each expert of a set keeps the LRU good. *)
LEMMA PutAllGood ==
  ASSUME NEW slots \in Nat, NEW T, NEW c \in Good(slots, T),
         NEW S \in SUBSET Experts,
         \A e \in S : Build(e) \in Rows /\ (e \notin T => Build(e) = e)
  PROVE  FoldLeft(LAMBDA d, e : CachePut(d, e, Build(e), slots), c,
                  Ascending(S))
           \in Good(slots, T)
<1> DEFINE q == Ascending(S)
           D == DOMAIN q
           C == Good(slots, T)
           n == Cardinality(S)
           Step(b, i) == CachePut(b, q[i], Build(q[i]), slots)
           Is(g) == g = [x \in SUBSET D |->
                           IF x = {} THEN c
                           ELSE Step(g[x \ {Max(x)}], Max(x))]
           G == CHOOSE g : Is(g)
           pick == [x \in SUBSET D |-> Max(x)]
           F == [p \in C \X D |-> Step(p[1], p[2])]
<1>0. S \in SUBSET Nat /\ IsFiniteSet(S)
  BY CacheAssumption, FS_Subset
<1>1. FoldLeft(LAMBDA d, e : CachePut(d, e, Build(e), slots), c,
                  Ascending(S)) = G[D]
  BY DEF FoldLeft, MapThenFoldSet
<1>2. n \in Nat /\ D = 1..n /\ \A i \in D : q[i] \in S
  BY <1>0, AscendingLists
<1> HIDE DEF q, n, D, C
<1>3. IsFiniteSet(D)
  BY <1>2, FS_Interval
<1>4. \A b \in C : \A i \in D : Step(b, i) \in C
  BY <1>2, PutGood DEF C
<1>5. \A x \in SUBSET D : x # {} => Max(x) \in x
  BY <1>2, MaxMember
<1> HIDE DEF Step
<1>6. Selects(pick, D)
  BY <1>5 DEF Selects
<1>7. \A x \in SUBSET D : pick[x] = Max(x)
  OBVIOUS
<1>8. F \in [C \X D -> C]
  BY <1>4
<1>9. \A b \in C, i \in D : F[<<b, i>>] = Step(b, i)
  OBVIOUS
<1>10. c \in C
  BY DEF C
<1> HIDE DEF F, pick
<1>11. PICK h \in [SUBSET D -> C] : IsFold(h, D, c, pick, F)
  BY <1>3, <1>6, <1>8, <1>10, FoldExists
<1>12. Is(h)
  <2>1. ASSUME NEW x \in SUBSET D
        PROVE  h[x] = IF x = {} THEN c
                      ELSE Step(h[x \ {Max(x)}], Max(x))
    <3>1. CASE x = {}
      BY <1>11, <3>1 DEF IsFold
    <3>2. CASE x # {}
      <4>1. Max(x) \in D /\ h[x \ {Max(x)}] \in C
        BY <1>5, <1>11, <3>2
      <4>2. h[x] = F[<<h[x \ {Max(x)}], Max(x)>>]
        BY <1>7, <1>11, <3>2 DEF IsFold
      <4> QED BY <1>9, <3>2, <4>1, <4>2
    <3> QED BY <3>1, <3>2
  <2> QED BY <1>11, <2>1
<1>13. Is(G)
  BY <1>12
<1> HIDE DEF G
<1> DEFINE P == {x \in SUBSET D : G[x] \in C}
<1>14. {} \in P
  BY <1>10, <1>13
<1>15. ASSUME NEW x \in SUBSET D, x # {}, x \ {pick[x]} \in P
       PROVE  x \in P
  <2>1. Max(x) \in x /\ Max(x) \in D /\ G[x \ {Max(x)}] \in C
    BY <1>5, <1>7, <1>15
  <2>2. G[x] = Step(G[x \ {Max(x)}], Max(x))
    BY <1>13, <1>15
  <2> QED BY <1>4, <2>1, <2>2
<1>16. P \in SUBSET (SUBSET D)
  OBVIOUS
<1> HIDE DEF P
<1>17. D \in P
  <2>1. \A x \in SUBSET D : x # {} /\ x \ {pick[x]} \in P => x \in P
    BY <1>15
  <2> QED BY <1>3, <1>6, <1>14, <1>16, <2>1, FoldInduction
<1> QED BY <1>1, <1>17 DEF C, P

-----------------------------------------------------------------------------
(* What the parts of the invariant say together.                            *)

(* The caches are good as long as the invariant holds. *)
LEMMA CachesGood ==
  ASSUME TypeOK, StoreInv
  PROVE  lru \in Good(LruSlots, tainted) /\ buf \in Good(BufferCap, tainted)
BY DEF TypeOK, StoreInv, Good

(* On the main thread, with the hot stack in place, a build gives the      *)
(* expert's own rows, from the stack or from disk.                          *)
LEMMA BuildOwn ==
  ASSUME TypeOK, HotInv, Settled, NEW e \in Experts
  PROVE  Build(e) = e
<1>1. CASE ~(backing # <<>> /\ e \in hotset)
  BY <1>1 DEF Build
<1>2. CASE backing # <<>> /\ e \in hotset
  <2> DEFINE i == CHOOSE i \in DOMAIN key : key[i] = e
  <2>1. backing = key \o <<ZeroRow>> /\ hotset = ToSet(key)
    BY <1>2 DEF HotInv
  <2>2. i \in DOMAIN key /\ key[i] = e
    BY <1>2, <2>1 DEF ToSet
  <2> HIDE DEF i
  <2>3. key \in Seq(Experts)
    BY DEF TypeOK
  <2>4. backing[i] = key[i]
    BY <2>1, <2>2, <2>3
  <2> QED BY <1>2, <2>2, <2>4 DEF Build, i
<1> QED BY <1>1, <1>2

(* What a forward finds among the pins and in the LRU is the expert's own. *)
LEMMA LookupOwn ==
  ASSUME TypeOK, StoreInv, NEW e \in Experts
  PROVE  Lookup(e) \in Bundle /\ (e \notin tainted => Lookup(e) \in {e, None})
<1>1. CASE pinned[e] # None
  BY <1>1 DEF Lookup, TypeOK, StoreInv
<1>2. CASE pinned[e] = None /\ e \in CachedKeys(lru)
  <2>1. CachePeek(lru, e) \in Rows
        /\ (e \notin tainted => CachePeek(lru, e) = e)
    BY <1>2, CachesGood, CacheAssumption, PeekGood
  <2> QED BY <1>2, <2>1 DEF Lookup, Bundle
<1>3. CASE pinned[e] = None /\ e \notin CachedKeys(lru)
  BY <1>3 DEF Lookup, Bundle
<1> QED BY <1>1, <1>2, <1>3

(* The smallest of some experts is one of them. *)
LEMMA LeastMember ==
  ASSUME NEW S \in SUBSET Experts, S # {}
  PROVE  Least(S) \in S
<1>1. S \in SUBSET Nat /\ IsFiniteSet(S)
  BY CacheAssumption, FS_Subset
<1> DEFINE f == [x \in S |-> 0 - x]
<1>2. \A x \in S : f[x] \in Int
  BY <1>1
<1> HIDE DEF f
<1>3. PICK m \in S : \A x \in S : f[m] >= f[x]
  BY <1>1, <1>2, GreatestExists
<1>4. \A x \in S : m <= x
  BY <1>1, <1>3 DEF f
<1> QED BY <1>4 DEF Least

(* A step that leaves the hot stack alone keeps its attributes agreeing. *)
LEMMA HotFrame ==
  ASSUME HotInv, UNCHANGED <<hot, newkey>>, Settled, Settled'
  PROVE  HotInv'
BY DEF HotInv, Settled, hot

(* A step that leaves the futures and the hot stack alone keeps what is    *)
(* known of them.                                                          *)
LEMMA PoolFrame ==
  ASSUME FutureInv, QueueInv, BuildInv, UNCHANGED <<hot, futs, queue>>,
         Settled, Settled'
  PROVE  FutureInv' /\ QueueInv' /\ BuildInv'
<1>1. FutureInv'
  BY DEF FutureInv, Finished
<1>2. QueueInv'
  BY DEF QueueInv
<1>3. BuildInv'
  BY DEF BuildInv, hot
<1> QED BY <1>1, <1>2, <1>3

(* Entries of the table of futures can go. *)
LEMMA OrphanFrame ==
  ASSUME NoOrphanPrefetch, UNCHANGED <<futs, attach>>,
         \A e \in Experts : inflight'[e] \in {inflight[e], None}
  PROVE  NoOrphanPrefetch'
BY DEF NoOrphanPrefetch

-----------------------------------------------------------------------------
(* The forward.                                                             *)

(* A forward looks at the pins and the LRU. *)
LEMMA GetBundlesInv ==
  ASSUME IInv, NEW S \in CallSets, GetBundles(S)
  PROVE  IInv'
<1> USE DEF GetBundles
<1>1. pc = "idle" /\ pc' = "buffer" /\ Settled /\ Settled'
  BY DEF Settled
<1>2. S \in SUBSET Experts
  BY CacheAssumption
<1>3. TypeOK /\ HotInv /\ FutureInv /\ QueueInv /\ BuildInv /\ CallInv
      /\ StoreInv /\ NoOrphanPrefetch
  BY DEF IInv
<1>4. lru' \in Good(LruSlots, tainted)
  <2> DEFINE E == {e \in S : pinned[e] = None}
  <2>1. lru \in Good(LruSlots, tainted) /\ LruSlots \in Nat
        /\ E \in SUBSET Experts
    BY <1>2, <1>3, CachesGood, CacheAssumption
  <2> HIDE DEF E
  <2>2. FoldLeft(CacheGet, lru, Ascending(E)) \in Good(LruSlots, tainted)
    BY <2>1, TouchGood
  <2>3. lru' = FoldLeft(CacheGet, lru, Ascending(E))
    BY DEF Touched, E
  <2> QED BY <2>2, <2>3
<1>5. /\ got' \in [Experts -> Bundle]
      /\ \A e \in Experts \ tainted : got'[e] \in {e, None}
      /\ \A e \in S : got'[e] # None \/ e \in todo'
  <2> DEFINE B(e) == IF e \in S THEN Lookup(e) ELSE None
  <2>1. \A e \in Experts : B(e) \in Bundle
    BY <1>3, LookupOwn DEF Bundle
  <2>2. \A e \in Experts \ tainted : B(e) \in {e, None}
    BY <1>3, LookupOwn
  <2>3. \A e \in S : B(e) # None \/ e \in todo'
    OBVIOUS
  <2>4. got' = [e \in Experts |-> B(e)]
    OBVIOUS
  <2> HIDE DEF B
  <2> QED BY <1>2, <2>1, <2>2, <2>3, <2>4
<1>6. todo' \in SUBSET want' /\ want' = S /\ missing' = {}
  BY <1>1, <1>3 DEF CallInv, Outside, TypeOK
<1>7. TypeOK'
  BY <1>1, <1>2, <1>3, <1>4, <1>5, <1>6
     DEF TypeOK, Good, pool, hot, Places
<1>8. HotInv'
  BY <1>1, <1>3, HotFrame
<1>9. FutureInv' /\ QueueInv' /\ BuildInv'
  BY <1>1, <1>3, PoolFrame DEF pool
<1>10. CallInv'
  BY <1>1, <1>3, <1>5, <1>6
     DEF CallInv, Outside, Searching, pool
<1>11. StoreInv'
  BY <1>3, <1>4, <1>5 DEF StoreInv, Good, pool
<1>12. NoOrphanPrefetch'
  BY <1>3, OrphanFrame DEF pool
<1> QED BY <1>7, <1>8, <1>9, <1>10, <1>11, <1>12 DEF IInv

(* A phase of the search ends. *)
LEMMA NextPhaseInv ==
  ASSUME IInv, NEW from, NEW to, NextPhase(from, to),
         <<from, to>> \in {<<"buffer", "inflight">>, <<"inflight", "build">>}
  PROVE  IInv'
<1> USE DEF NextPhase
<1>1. /\ pc = from /\ pc' = to
      /\ from \in {"buffer", "inflight"} /\ to \in {"inflight", "build"}
  OBVIOUS
<1>2. Settled /\ Settled'
  BY <1>1 DEF Settled
<1>3. TypeOK /\ HotInv /\ FutureInv /\ QueueInv /\ BuildInv /\ CallInv
      /\ StoreInv /\ NoOrphanPrefetch
  BY DEF IInv
<1>4. TypeOK'
  BY <1>1, <1>3 DEF TypeOK, stores, pool, hot, Places
<1>5. HotInv'
  BY <1>2, <1>3, HotFrame
<1>6. FutureInv' /\ QueueInv' /\ BuildInv'
  BY <1>2, <1>3, PoolFrame DEF pool
<1>7. CallInv'
  BY <1>1, <1>3 DEF CallInv, Outside, Searching, pool
<1>8. StoreInv'
  BY <1>3 DEF StoreInv, pool, stores
<1>9. NoOrphanPrefetch'
  BY <1>3, OrphanFrame DEF pool
<1> QED BY <1>4, <1>5, <1>6, <1>7, <1>8, <1>9 DEF IInv

(* A bundle is popped from the prefetch buffer, or the expert goes on to   *)
(* the next phase.                                                         *)
LEMMA BufferPopInv ==
  ASSUME IInv, BufferPop
  PROVE  IInv'
<1> DEFINE e == Least(todo)
<1>1. pc = "buffer" /\ pc' \in {"buffer", "putBuffer"} /\ todo # {}
  BY DEF BufferPop
<1>2. Settled /\ Settled'
  BY <1>1 DEF Settled
<1>3. TypeOK /\ HotInv /\ FutureInv /\ QueueInv /\ BuildInv /\ CallInv
      /\ StoreInv /\ NoOrphanPrefetch
  BY DEF IInv
<1>4. e \in todo /\ e \in want /\ e \in Experts /\ todo \in SUBSET Experts
  <2>1. todo \in SUBSET Experts /\ todo \in SUBSET want
    BY <1>3 DEF TypeOK
  <2> QED BY <1>1, <2>1, LeastMember
<1>5. HotInv'
  BY <1>2, <1>3, HotFrame DEF BufferPop
<1>6. FutureInv' /\ QueueInv' /\ BuildInv'
  BY <1>2, <1>3, PoolFrame DEF pool, BufferPop
<1>7. NoOrphanPrefetch'
  BY <1>3, OrphanFrame DEF pool, BufferPop
<1>8. CASE e \in CachedKeys(buf)
  <2>1. /\ val' = CachePeek(buf, e) /\ buf' = CachePop(buf, e)
        /\ cur' = e /\ pc' = "putBuffer" /\ UNCHANGED <<todo, missing>>
        /\ UNCHANGED <<opts, pinned, lru, pool, hot, want, got, fut, newkey,
                       closed, tainted>>
    BY <1>8 DEF BufferPop
  <2> HIDE DEF e
  <2>2. buf \in Good(BufferCap, tainted) /\ BufferCap \in Nat
    BY <1>3, CachesGood, CacheAssumption
  <2>3. buf' \in Good(BufferCap, tainted)
    BY <2>1, <2>2, PopGood
  <2>4. val' \in Rows /\ (e \notin tainted => val' = e)
    BY <1>8, <2>1, <2>2, PeekGood
  <2>5. val' # None
    BY <2>4, CacheAssumption DEF Rows, None, ZeroRow
  <2>6. TypeOK'
    BY <1>1, <1>3, <1>4, <2>1, <2>3, <2>4
       DEF TypeOK, Good, pool, hot, Places, Bundle
  <2>7. CallInv'
    BY <1>1, <1>3, <1>4, <2>1, <2>4, <2>5
       DEF CallInv, Outside, Searching, pool
  <2>8. StoreInv'
    BY <1>3, <2>1, <2>3 DEF StoreInv, Good, pool
  <2> QED BY <1>5, <1>6, <1>7, <2>6, <2>7, <2>8 DEF IInv
<1>9. CASE e \notin CachedKeys(buf)
  <2>1. /\ todo' = todo \ {e} /\ missing' = missing \cup {e}
        /\ UNCHANGED <<val, buf, cur, pc>>
        /\ UNCHANGED <<opts, pinned, lru, pool, hot, want, got, fut, newkey,
                       closed, tainted>>
    BY <1>9 DEF BufferPop
  <2> HIDE DEF e
  <2>2. TypeOK'
    BY <1>1, <1>3, <1>4, <2>1 DEF TypeOK, pool, hot, Places
  <2>3. CallInv'
    BY <1>1, <1>3, <1>4, <2>1 DEF CallInv, Outside, Searching, pool
  <2>4. StoreInv'
    BY <1>3, <2>1 DEF StoreInv, pool
  <2> QED BY <1>5, <1>6, <1>7, <2>2, <2>3, <2>4 DEF IInv
<1> QED BY <1>8, <1>9

(* What was found goes into the LRU. *)
LEMMA PromoteInv ==
  ASSUME IInv, NEW from, NEW to, Promote(from, to),
         <<from, to>> \in {<<"putBuffer", "buffer">>,
                           <<"putInflight", "inflight">>}
  PROVE  IInv'
<1> USE DEF Promote
<1>1. /\ pc = from /\ pc' = to
      /\ from \in {"putBuffer", "putInflight"}
      /\ to \in {"buffer", "inflight"}
  OBVIOUS
<1>2. Settled /\ Settled'
  BY <1>1 DEF Settled
<1>3. TypeOK /\ HotInv /\ FutureInv /\ QueueInv /\ BuildInv /\ CallInv
      /\ StoreInv /\ NoOrphanPrefetch
  BY DEF IInv
<1>4. cur \in todo /\ cur \in Experts /\ val \in Rows
      /\ (cur \notin tainted => val = cur) /\ val # None
  <2>1. cur \in todo /\ val # None /\ (cur \notin tainted => val = cur)
    BY <1>1, <1>3 DEF CallInv
  <2>2. cur \in Experts /\ val \in Bundle
    BY <1>3, <2>1 DEF TypeOK
  <2> QED BY <2>1, <2>2 DEF Bundle
<1>5. lru' \in Good(LruSlots, tainted)
  <2>1. lru \in Good(LruSlots, tainted) /\ LruSlots \in Nat
    BY <1>3, CachesGood, CacheAssumption
  <2> QED BY <1>4, <2>1, PutGood
<1>6. /\ got' \in [Experts -> Bundle]
      /\ \A e \in Experts : got'[e] = IF e = cur THEN val ELSE got[e]
  BY <1>3, <1>4 DEF TypeOK, Bundle
<1>7. TypeOK'
  BY <1>1, <1>3, <1>5, <1>6 DEF TypeOK, Good, pool, hot, Places, Bundle
<1>8. HotInv'
  BY <1>2, <1>3, HotFrame
<1>9. FutureInv' /\ QueueInv' /\ BuildInv'
  BY <1>2, <1>3, PoolFrame DEF pool
<1>10. CallInv'
  <2>1. want \in SUBSET Experts
    BY <1>3 DEF TypeOK
  <2>2. \A e \in want : got'[e] # None \/ e \in todo' \cup missing'
    BY <1>1, <1>3, <1>4, <1>6, <2>1 DEF CallInv, Searching
  <2> QED BY <1>1, <1>3, <2>2 DEF CallInv, Outside, Searching, pool
<1>11. StoreInv'
  BY <1>3, <1>4, <1>5, <1>6 DEF StoreInv, Good, pool
<1>12. NoOrphanPrefetch'
  BY <1>3, OrphanFrame DEF pool
<1> QED BY <1>7, <1>8, <1>9, <1>10, <1>11, <1>12 DEF IInv

(* The call is over. *)
LEMMA LeaveInv ==
  ASSUME IInv, Leave, pc \in Searching \cup {"serve"},
         UNCHANGED <<stores, pool, hot, newkey, closed, tainted>>
  PROVE  IInv'
<1>1. pc' = "idle" /\ Settled /\ Settled'
  BY DEF Leave, Settled, Searching
<1>2. TypeOK /\ HotInv /\ FutureInv /\ QueueInv /\ BuildInv /\ CallInv
      /\ StoreInv /\ NoOrphanPrefetch
  BY DEF IInv
<1>3. got' \in [Experts -> Bundle] /\ \A e \in Experts : got'[e] = None
  BY DEF Leave, NoBundles, Bundle
<1>4. TypeOK'
  BY <1>1, <1>2, <1>3
     DEF TypeOK, Leave, stores, pool, hot, Places, Bundle
<1>5. HotInv'
  BY <1>1, <1>2, HotFrame
<1>6. FutureInv' /\ QueueInv' /\ BuildInv'
  BY <1>1, <1>2, PoolFrame DEF pool
<1>7. CallInv'
  BY <1>1, <1>2 DEF CallInv, Leave, Outside, Searching, pool
<1>8. StoreInv'
  BY <1>2, <1>3 DEF StoreInv, stores, pool
<1>9. NoOrphanPrefetch'
  BY <1>2, OrphanFrame DEF pool
<1> QED BY <1>4, <1>5, <1>6, <1>7, <1>8, <1>9 DEF IInv

(* An expert is looked up among the futures. *)
LEMMA InflightGetInv ==
  ASSUME IInv, InflightGet
  PROVE  IInv'
<1> DEFINE e == Least(todo)
<1>1. pc = "inflight" /\ pc' \in {"inflight", "result"} /\ todo # {}
  BY DEF InflightGet
<1>2. Settled /\ Settled'
  BY <1>1 DEF Settled
<1>3. TypeOK /\ HotInv /\ FutureInv /\ QueueInv /\ BuildInv /\ CallInv
      /\ StoreInv /\ NoOrphanPrefetch
  BY DEF IInv
<1>4. e \in todo /\ e \in want /\ e \in Experts /\ todo \in SUBSET Experts
  <2>1. todo \in SUBSET Experts /\ todo \in SUBSET want
    BY <1>3 DEF TypeOK
  <2> QED BY <1>1, <2>1, LeastMember
<1>5. HotInv'
  BY <1>2, <1>3, HotFrame DEF InflightGet
<1>6. FutureInv' /\ QueueInv' /\ BuildInv'
  BY <1>2, <1>3, PoolFrame DEF pool, InflightGet
<1>7. NoOrphanPrefetch'
  BY <1>3, OrphanFrame DEF pool, InflightGet
<1>8. StoreInv'
  BY <1>3 DEF StoreInv, pool, stores, InflightGet
<1>9. CASE inflight[e] # None
  <2>1. /\ fut' = inflight[e] /\ cur' = e /\ pc' = "result"
        /\ UNCHANGED <<todo, missing>>
        /\ UNCHANGED <<stores, pool, hot, want, got, val, newkey, closed,
                       tainted>>
    BY <1>9 DEF InflightGet
  <2> HIDE DEF e
  <2>2. fut' \in FutureIds /\ futs[fut'].exp = e
    BY <1>3, <1>4, <1>9, <2>1 DEF NoOrphanPrefetch, TypeOK
  <2>3. TypeOK'
    BY <1>1, <1>3, <1>4, <2>1, <2>2 DEF TypeOK, stores, pool, hot, Places
  <2>4. CallInv'
    BY <1>1, <1>3, <1>4, <2>1, <2>2
       DEF CallInv, Outside, Searching, pool
  <2> QED BY <1>5, <1>6, <1>7, <1>8, <2>3, <2>4 DEF IInv
<1>10. CASE inflight[e] = None
  <2>1. /\ todo' = todo \ {e} /\ missing' = missing \cup {e}
        /\ UNCHANGED <<fut, cur, pc>>
        /\ UNCHANGED <<stores, pool, hot, want, got, val, newkey, closed,
                       tainted>>
    BY <1>10 DEF InflightGet
  <2> HIDE DEF e
  <2>2. TypeOK'
    BY <1>1, <1>3, <1>4, <2>1 DEF TypeOK, stores, pool, hot, Places
  <2>3. CallInv'
    BY <1>1, <1>3, <1>4, <2>1 DEF CallInv, Outside, Searching, pool
  <2> QED BY <1>5, <1>6, <1>7, <1>8, <2>2, <2>3 DEF IInv
<1> QED BY <1>9, <1>10

(* The future is waited for. *)
LEMMA InflightResultInv ==
  ASSUME IInv, InflightResult
  PROVE  IInv'
<1>1. CASE Leave /\ UNCHANGED <<stores, pool, hot, newkey, closed, tainted>>
  <2>1. pc \in Searching
    BY DEF InflightResult, Searching
  <2> QED BY <1>1, <2>1, LeaveInv
<1>2. CASE /\ futs[fut].st = "done"
           /\ val' = futs[fut].val /\ pc' = "pop"
           /\ UNCHANGED <<want, got, todo, missing, cur, fut>>
           /\ UNCHANGED <<stores, pool, hot, newkey, closed, tainted>>
  <2>1. pc = "result" /\ Settled /\ Settled'
    BY <1>2 DEF Settled, InflightResult
  <2>2. TypeOK /\ HotInv /\ FutureInv /\ QueueInv /\ BuildInv /\ CallInv
        /\ StoreInv /\ NoOrphanPrefetch
    BY DEF IInv
  <2>3. fut \in FutureIds /\ futs[fut].exp = cur /\ cur \in todo
        /\ cur \in Experts
    BY <2>1, <2>2 DEF CallInv, TypeOK
  <2>4. futs[fut] \in FutureType
    BY <2>2, <2>3 DEF TypeOK
  <2>5. val' \in Bundle /\ val' # None /\ (cur \notin tainted => val' = cur)
    BY <1>2, <2>2, <2>3, <2>4 DEF FutureInv, StoreInv, FutureType
  <2>6. TypeOK'
    BY <1>2, <2>2, <2>5 DEF TypeOK, stores, pool, hot, Places
  <2>7. HotInv'
    BY <1>2, <2>1, <2>2, HotFrame
  <2>8. FutureInv' /\ QueueInv' /\ BuildInv'
    BY <1>2, <2>1, <2>2, PoolFrame DEF pool
  <2>9. CallInv'
    BY <1>2, <2>1, <2>2, <2>3, <2>5 DEF CallInv, Outside, Searching, pool
  <2>10. StoreInv'
    BY <1>2, <2>2 DEF StoreInv, pool, stores
  <2>11. NoOrphanPrefetch'
    BY <1>2, <2>2, OrphanFrame DEF pool
  <2> QED BY <2>6, <2>7, <2>8, <2>9, <2>10, <2>11 DEF IInv
<1> QED BY <1>1, <1>2 DEF InflightResult

(* The entry of the future goes. *)
LEMMA InflightPopInv ==
  ASSUME IInv, InflightPop
  PROVE  IInv'
<1> USE DEF InflightPop
<1>1. pc = "pop" /\ pc' = "putInflight" /\ Settled /\ Settled'
  BY DEF Settled
<1>2. TypeOK /\ HotInv /\ FutureInv /\ QueueInv /\ BuildInv /\ CallInv
      /\ StoreInv /\ NoOrphanPrefetch
  BY DEF IInv
<1>3. /\ inflight' \in [Experts -> FutureIds \cup {None}]
      /\ \A e \in Experts : inflight'[e] \in {inflight[e], None}
  BY <1>2 DEF TypeOK
<1>4. TypeOK'
  BY <1>1, <1>2, <1>3 DEF TypeOK, stores, call, hot, Places
<1>5. HotInv'
  BY <1>1, <1>2, HotFrame
<1>6. FutureInv' /\ QueueInv' /\ BuildInv'
  BY <1>1, <1>2, PoolFrame
<1>7. CallInv'
  BY <1>1, <1>2 DEF CallInv, Outside, Searching, call
<1>8. StoreInv'
  BY <1>2 DEF StoreInv, stores, call
<1>9. NoOrphanPrefetch'
  BY <1>2, <1>3, OrphanFrame
<1> QED BY <1>4, <1>5, <1>6, <1>7, <1>8, <1>9 DEF IInv

(* The rest is built. *)
LEMMA BuildMissingInv ==
  ASSUME IInv, BuildMissing
  PROVE  IInv'
<1>1. CASE Leave /\ UNCHANGED lru
  <2>1. pc \in Searching
        /\ UNCHANGED <<stores, pool, hot, newkey, closed, tainted>>
    BY <1>1 DEF BuildMissing, Searching, stores
  <2> QED BY <1>1, <2>1, LeaveInv
<1>2. CASE ~(Leave /\ UNCHANGED lru)
  <2>1. /\ pc = "build"
        /\ lru' = FoldLeft(LAMBDA c, e : CachePut(c, e, Build(e), LruSlots),
                           lru, Ascending(todo))
        /\ got' = [e \in Experts |-> IF e \in todo THEN Build(e) ELSE got[e]]
        /\ todo' = {} /\ pc' = "serve"
        /\ UNCHANGED <<want, missing, cur, fut, val>>
        /\ UNCHANGED <<opts, pinned, buf, pool, hot, newkey, closed, tainted>>
    BY <1>2 DEF BuildMissing
  <2>2. Settled /\ Settled'
    BY <2>1 DEF Settled
  <2>3. TypeOK /\ HotInv /\ FutureInv /\ QueueInv /\ BuildInv /\ CallInv
        /\ StoreInv /\ NoOrphanPrefetch
    BY DEF IInv
  <2>4. todo \in SUBSET Experts /\ want \in SUBSET Experts
        /\ missing = {}
    BY <2>1, <2>3 DEF TypeOK, CallInv
  <2>5. \A e \in Experts : Build(e) = e /\ e \in Rows /\ e # None
    BY <2>2, <2>3, BuildOwn, CacheAssumption DEF Rows, None
  <2>6. lru' \in Good(LruSlots, tainted)
    <3>1. lru \in Good(LruSlots, tainted) /\ LruSlots \in Nat
      BY <2>3, CachesGood, CacheAssumption
    <3>2. \A e \in todo :
            Build(e) \in Rows /\ (e \notin tainted => Build(e) = e)
      BY <2>4, <2>5
    <3>3. FoldLeft(LAMBDA d, e : CachePut(d, e, Build(e), LruSlots), lru,
                   Ascending(todo)) \in Good(LruSlots, tainted)
      BY <2>4, <3>1, <3>2, PutAllGood
    <3> QED BY <2>1, <3>3
  <2>7. /\ got' \in [Experts -> Bundle]
        /\ \A e \in Experts : got'[e] = IF e \in todo THEN e ELSE got[e]
    BY <2>1, <2>3, <2>5 DEF TypeOK, Bundle
  <2>8. TypeOK'
    BY <2>1, <2>3, <2>4, <2>6, <2>7 DEF TypeOK, Good, pool, hot, Places
  <2>9. HotInv'
    BY <2>1, <2>2, <2>3, HotFrame
  <2>10. FutureInv' /\ QueueInv' /\ BuildInv'
    BY <2>1, <2>2, <2>3, PoolFrame DEF pool
  <2>11. CallInv'
    <3>1. \A e \in want : got'[e] # None
      BY <2>1, <2>3, <2>4, <2>5, <2>7 DEF CallInv, Searching
    <3> QED BY <2>1, <2>3, <3>1 DEF CallInv, Outside, Searching, pool
  <2>12. StoreInv'
    BY <2>1, <2>3, <2>6, <2>7 DEF StoreInv, Good, pool
  <2>13. NoOrphanPrefetch'
    BY <2>1, <2>3, OrphanFrame DEF pool
  <2> QED BY <2>8, <2>9, <2>10, <2>11, <2>12, <2>13 DEF IInv
<1> QED BY <1>1, <1>2

(* Nothing is left to build. *)
LEMMA NothingToBuildInv ==
  ASSUME IInv, pc = "build", todo = {}, pc' = "serve",
         UNCHANGED <<stores, pool, hot, call, newkey, closed, tainted>>
  PROVE  IInv'
<1>1. Settled /\ Settled'
  BY DEF Settled
<1>2. TypeOK /\ HotInv /\ FutureInv /\ QueueInv /\ BuildInv /\ CallInv
      /\ StoreInv /\ NoOrphanPrefetch
  BY DEF IInv
<1>3. TypeOK'
  BY <1>2 DEF TypeOK, stores, pool, hot, call, Places
<1>4. HotInv'
  BY <1>1, <1>2, HotFrame
<1>5. FutureInv' /\ QueueInv' /\ BuildInv'
  BY <1>1, <1>2, PoolFrame DEF pool
<1>6. CallInv'
  BY <1>2 DEF CallInv, Outside, Searching, pool, call
<1>7. StoreInv'
  BY <1>2 DEF StoreInv, pool, stores, call
<1>8. NoOrphanPrefetch'
  BY <1>2, OrphanFrame DEF pool
<1> QED BY <1>3, <1>4, <1>5, <1>6, <1>7, <1>8 DEF IInv

(* The forward returns. *)
LEMMA ServeInv ==
  ASSUME IInv, Serve
  PROVE  IInv'
BY LeaveInv DEF Serve

-----------------------------------------------------------------------------
(* The prefetch pool.                                                       *)

(* A pool thread does not move the main thread. *)
LEMMA HotStays ==
  ASSUME HotInv, UNCHANGED <<hot, newkey, pc>>
  PROVE  HotInv'
BY DEF HotInv, Settled, hot

(* A build takes a step: future f becomes r, and nothing else changes but  *)
(* the history.                                                            *)
LEMMA FutureStep ==
  ASSUME IInv, NEW f \in FutureIds, NEW r \in FutureType,
         futs' = [futs EXCEPT ![f] = r],
         futs[f].st \in Building, r.st \notin {"free", "queued"},
         r.exp = futs[f].exp, r.cb = futs[f].cb,
         r.st = "done" => r.val # None,
         ~r.torn =>
           /\ r.st \in {"index", "stack", "slice"} =>
                Settled /\ backing # <<>> /\ r.exp \in hotset
           /\ r.st \in {"stack", "slice"} =>
                r.idx \in DOMAIN key /\ key[r.idx] = r.exp
           /\ r.st = "slice" => r.rows = backing,
         tainted \subseteq tainted', tainted' \in SUBSET Experts,
         r.exp \notin tainted' => r.val \in {r.exp, None},
         UNCHANGED <<stores, inflight, queue, attach, hot, pc, call, newkey,
                     closed>>
  PROVE  IInv'
<1>1. TypeOK /\ HotInv /\ FutureInv /\ QueueInv /\ BuildInv /\ CallInv
      /\ StoreInv /\ NoOrphanPrefetch
  BY DEF IInv
<1>2. /\ futs' \in [FutureIds -> FutureType]
      /\ \A g \in FutureIds : futs'[g] = IF g = f THEN r ELSE futs[g]
  BY <1>1 DEF TypeOK
<1>3. futs[f].cb # "ran" /\ futs[f].st \notin {"free", "queued"}
      /\ futs[f].exp \in Experts
  BY <1>1 DEF FutureInv, Finished, Building
<1>4. TypeOK'
  BY <1>1, <1>2 DEF TypeOK, stores, hot, call
<1>5. HotInv'
  BY <1>1, HotStays
<1>6. FutureInv'
  BY <1>1, <1>2, <1>3 DEF FutureInv, Finished
<1>7. QueueInv'
  BY <1>1, <1>2, <1>3 DEF QueueInv, TypeOK
<1>8. BuildInv'
  BY <1>1, <1>2 DEF BuildInv, hot, Settled
<1>9. CallInv'
  BY <1>1, <1>2 DEF CallInv, call
<1>10. StoreInv'
  <2>1. Own(lru', tainted') /\ Own(buf', tainted')
    BY <1>1 DEF StoreInv, Own, stores
  <2> QED BY <1>1, <1>2, <2>1 DEF StoreInv, stores, call
<1>11. NoOrphanPrefetch'
  BY <1>1, <1>2, <1>3 DEF NoOrphanPrefetch, TypeOK
<1> QED BY <1>4, <1>5, <1>6, <1>7, <1>8, <1>9, <1>10, <1>11 DEF IInv

(* A pool thread takes the oldest future. *)
LEMMA PoolStartInv ==
  ASSUME IInv, PoolStart
  PROVE  IInv'
<1> USE DEF PoolStart
<1>1. TypeOK /\ HotInv /\ FutureInv /\ QueueInv /\ BuildInv /\ CallInv
      /\ StoreInv /\ NoOrphanPrefetch
  BY DEF IInv
<1>2. queue \in Seq(FutureIds) /\ queue # <<>> /\ queue' = Tail(queue)
  BY <1>1 DEF TypeOK
<1> DEFINE f == Head(queue)
<1>3. /\ f = queue[1] /\ f \in FutureIds /\ 1 \in DOMAIN queue
      /\ queue' \in Seq(FutureIds) /\ Len(queue') = Len(queue) - 1
      /\ DOMAIN queue = 1..Len(queue) /\ DOMAIN queue' = 1..(Len(queue) - 1)
      /\ Len(queue) \in Nat
      /\ \A i \in DOMAIN queue' : queue'[i] = queue[i + 1]
  BY <1>2
<1>4. futs[f].st = "queued" /\ futs[f] \in FutureType
  BY <1>1, <1>3 DEF QueueInv, TypeOK
<1> DEFINE r == [futs[f] EXCEPT !.st = "check"]
<1>5. /\ r \in FutureType /\ r.st = "check" /\ r.exp = futs[f].exp
      /\ r.cb = futs[f].cb /\ r.val = futs[f].val
  BY <1>4 DEF FutureType, Building
<1>6. futs' = [futs EXCEPT ![f] = r]
  OBVIOUS
<1> HIDE DEF r, f
<1>7. /\ futs' \in [FutureIds -> FutureType]
      /\ \A g \in FutureIds : futs'[g] = IF g = f THEN r ELSE futs[g]
  <2>1. futs \in [FutureIds -> FutureType]
    BY <1>1 DEF TypeOK
  <2> HIDE DEF PoolStart
  <2> QED BY <1>3, <1>5, <1>6, <2>1
<1>8. TypeOK'
  BY <1>1, <1>3, <1>7 DEF TypeOK, stores, hot, call
<1>9. HotInv'
  BY <1>1, HotStays
<1>10. FutureInv'
  BY <1>1, <1>3, <1>4, <1>5, <1>7 DEF FutureInv, Finished
<1>11. QueueInv'
  <2>1. \A i \in DOMAIN queue' : /\ i + 1 \in DOMAIN queue /\ i + 1 # 1
                                 /\ queue[i + 1] \in FutureIds
    BY <1>2, <1>3
  <2>2. \A i \in DOMAIN queue' : queue'[i] # f
    BY <1>1, <1>3, <2>1 DEF QueueInv
  <2>3. \A i \in DOMAIN queue' : futs'[queue'[i]].st = "queued"
    BY <1>1, <1>3, <1>7, <2>1, <2>2 DEF QueueInv
  <2>4. ASSUME NEW i \in DOMAIN queue', NEW j \in DOMAIN queue',
               queue'[i] = queue'[j]
        PROVE  i = j
    <3>1. i + 1 = j + 1
      BY <1>1, <1>3, <2>1, <2>4 DEF QueueInv
    <3>2. i \in Int /\ j \in Int
      BY <1>3
    <3> QED BY <3>1, <3>2
  <2> QED BY <2>3, <2>4 DEF QueueInv
<1>12. BuildInv'
  BY <1>1, <1>5, <1>7 DEF BuildInv, hot, Settled
<1>13. CallInv'
  BY <1>1, <1>5, <1>7 DEF CallInv, call
<1>14. StoreInv'
  BY <1>1, <1>3, <1>5, <1>7 DEF StoreInv, stores, call
<1>15. NoOrphanPrefetch'
  BY <1>1, <1>3, <1>4, <1>5, <1>7 DEF NoOrphanPrefetch, TypeOK
<1> QED BY <1>8, <1>9, <1>10, <1>11, <1>12, <1>13, <1>14, <1>15 DEF IInv

(* A build ends with a bundle, or with an exception (None). *)
LEMMA FinishInv ==
  ASSUME IInv, NEW f \in FutureIds, NEW b \in Bundle, Finish(f, b),
         futs[f].st \in Building,
         tainted \subseteq tainted', tainted' \in SUBSET Experts,
         futs[f].exp \notin tainted' => b \in {futs[f].exp, None},
         UNCHANGED <<stores, inflight, queue, attach, hot, pc, call, newkey,
                     closed>>
  PROVE  IInv'
<1> DEFINE r == [futs[f] EXCEPT !.st = IF b = None THEN "failed" ELSE "done",
                                !.val = b, !.idx = 0, !.rows = <<>>]
<1>1. futs \in [FutureIds -> FutureType]
  BY DEF IInv, TypeOK
<1>2. futs[f] \in FutureType
  BY <1>1
<1>3. /\ r \in FutureType /\ r.st = IF b = None THEN "failed" ELSE "done"
      /\ r.exp = futs[f].exp /\ r.cb = futs[f].cb /\ r.val = b
  <2> DEFINE s == IF b = None THEN "failed" ELSE "done"
  <2>1. s \in {"done", "failed"}
    OBVIOUS
  <2>2. <<>> \in Seq(Rows)
    OBVIOUS
  <2> HIDE DEF s
  <2>3. [futs[f] EXCEPT !.st = s, !.val = b, !.idx = 0, !.rows = <<>>]
          \in FutureType
    BY <1>2, <2>1, <2>2 DEF FutureType
  <2>4. r.st = s /\ r.exp = futs[f].exp /\ r.cb = futs[f].cb /\ r.val = b
    BY <1>2 DEF FutureType, s
  <2> QED BY <2>3, <2>4 DEF s
<1>4. futs' = [futs EXCEPT ![f] = r]
  BY <1>1 DEF Finish
<1> HIDE DEF r
<1> QED BY <1>3, <1>4, FutureStep

(* The first test of a build. *)
LEMMA BuildCheckInv ==
  ASSUME IInv, NEW f \in FutureIds, BuildCheck(f)
  PROVE  IInv'
<1>1. /\ futs \in [FutureIds -> FutureType] /\ futs[f] \in FutureType
      /\ futs[f].exp \in Experts /\ tainted \in SUBSET Experts
      /\ StoreInv
  BY DEF IInv, TypeOK, FutureInv, BuildCheck
<1>2. /\ futs[f].st = "check" /\ futs[f].st \in Building
      /\ UNCHANGED <<stores, inflight, queue, attach, hot, pc, call, newkey,
                     closed, tainted>>
  BY DEF BuildCheck, Building
<1>3. ASSUME NEW b \in {futs[f].exp, None}, Finish(f, b)
      PROVE  IInv'
  <2>1. b \in Bundle
    BY <1>1 DEF Bundle, Rows
  <2> QED BY <1>1, <1>2, <1>3, <2>1, FinishInv
<1>4. CASE /\ backing # <<>> /\ futs[f].exp \in hotset
           /\ futs' = [futs EXCEPT ![f].st = "index",
                         ![f].torn = @ \/ pc \in {"hotKey", "hotSet"}]
  <2> DEFINE r == [futs[f] EXCEPT !.st = "index",
                     !.torn = @ \/ pc \in {"hotKey", "hotSet"}]
  <2>1. /\ r \in FutureType /\ r.st = "index" /\ r.exp = futs[f].exp
        /\ r.cb = futs[f].cb /\ r.val = futs[f].val
        /\ ~r.torn => Settled
    BY <1>1 DEF FutureType, Building, Settled
  <2>2. futs' = [futs EXCEPT ![f] = r]
    BY <1>1, <1>4
  <2>3. r.exp \notin tainted' => r.val \in {r.exp, None}
    BY <1>1, <1>2, <2>1 DEF StoreInv
  <2> HIDE DEF r
  <2> QED BY <1>1, <1>2, <1>4, <2>1, <2>2, <2>3, FutureStep
<1> QED BY <1>3, <1>4 DEF BuildCheck

(* The position of the expert in the key. *)
LEMMA BuildIndexInv ==
  ASSUME IInv, NEW f \in FutureIds, BuildIndex(f)
  PROVE  IInv'
<1>1. /\ futs \in [FutureIds -> FutureType] /\ futs[f] \in FutureType
      /\ futs[f].exp \in Experts /\ tainted \in SUBSET Experts
      /\ key \in Seq(Experts) /\ StoreInv /\ BuildInv
  BY DEF IInv, TypeOK, FutureInv, BuildIndex
<1>2. /\ futs[f].st = "index" /\ futs[f].st \in Building
      /\ UNCHANGED <<stores, inflight, queue, attach, hot, pc, call, newkey,
                     closed, tainted>>
  BY DEF BuildIndex, Building
<1>3. CASE Finish(f, None)
  <2>1. None \in Bundle
    BY DEF Bundle
  <2> QED BY <1>1, <1>2, <1>3, <2>1, FinishInv
<1>4. CASE ~Finish(f, None)
  <2> DEFINE i == CHOOSE i \in DOMAIN key : key[i] = futs[f].exp
             r == [futs[f] EXCEPT !.st = "stack", !.idx = i]
  <2>1. /\ \E j \in DOMAIN key : key[j] = futs[f].exp
        /\ futs' = [futs EXCEPT ![f].st = "stack", ![f].idx = i]
    BY <1>4 DEF BuildIndex
  <2>2. i \in DOMAIN key /\ key[i] = futs[f].exp
    BY <2>1
  <2> HIDE DEF i
  <2>3. i \in Nat
    BY <1>1, <2>2
  <2>4. /\ r \in FutureType /\ r.st = "stack" /\ r.exp = futs[f].exp
        /\ r.cb = futs[f].cb /\ r.val = futs[f].val
        /\ r.idx = i /\ r.torn = futs[f].torn
    BY <1>1, <2>3 DEF FutureType, Building
  <2>5. futs' = [futs EXCEPT ![f] = r]
    BY <1>1, <2>1
  <2> HIDE DEF r
  <2>6. r.exp \notin tainted' => r.val \in {r.exp, None}
    BY <1>1, <1>2, <2>4 DEF StoreInv
  <2>7. ~r.torn => Settled /\ backing # <<>> /\ r.exp \in hotset
    BY <1>1, <1>2, <2>4 DEF BuildInv
  <2> QED BY <1>1, <1>2, <2>2, <2>4, <2>5, <2>6, <2>7, FutureStep
<1> QED BY <1>3, <1>4

(* The stack is read. *)
LEMMA BuildStackInv ==
  ASSUME IInv, NEW f \in FutureIds, BuildStack(f)
  PROVE  IInv'
<1>1. /\ futs \in [FutureIds -> FutureType] /\ futs[f] \in FutureType
      /\ futs[f].exp \in Experts /\ tainted \in SUBSET Experts
      /\ backing \in Seq(Rows) /\ StoreInv /\ BuildInv
  BY DEF IInv, TypeOK, FutureInv, BuildStack
<1>2. /\ futs[f].st = "stack" /\ futs[f].st \in Building
      /\ UNCHANGED <<stores, inflight, queue, attach, hot, pc, call, newkey,
                     closed, tainted>>
  BY DEF BuildStack, Building
<1> DEFINE r == [futs[f] EXCEPT !.st = "slice", !.rows = backing]
<1>3. /\ r \in FutureType /\ r.st = "slice" /\ r.exp = futs[f].exp
      /\ r.cb = futs[f].cb /\ r.val = futs[f].val /\ r.rows = backing
      /\ r.idx = futs[f].idx /\ r.torn = futs[f].torn
  BY <1>1 DEF FutureType, Building
<1>4. futs' = [futs EXCEPT ![f] = r]
  BY <1>1 DEF BuildStack
<1> HIDE DEF r
<1>5. r.exp \notin tainted' => r.val \in {r.exp, None}
  BY <1>1, <1>2, <1>3 DEF StoreInv
<1>6. ~r.torn => /\ Settled /\ backing # <<>> /\ r.exp \in hotset
                 /\ r.idx \in DOMAIN key /\ key[r.idx] = r.exp
  BY <1>1, <1>2, <1>3 DEF BuildInv
<1> QED BY <1>1, <1>2, <1>3, <1>4, <1>5, <1>6, FutureStep

(* The row is taken: the expert's own unless the stack was replaced        *)
(* meanwhile, which the history records.                                   *)
LEMMA BuildSliceInv ==
  ASSUME IInv, NEW f \in FutureIds, BuildSlice(f)
  PROVE  IInv'
<1> DEFINE b == IF /\ Len(futs[f].rows) = Len(key) + 1
                   /\ futs[f].idx \in DOMAIN futs[f].rows
                THEN futs[f].rows[futs[f].idx] ELSE None
<1>1. /\ futs \in [FutureIds -> FutureType] /\ futs[f] \in FutureType
      /\ futs[f].exp \in Experts /\ tainted \in SUBSET Experts
      /\ key \in Seq(Experts) /\ HotInv /\ BuildInv
  BY DEF IInv, TypeOK, FutureInv, BuildSlice
<1>2. /\ futs[f].st = "slice" /\ futs[f].st \in Building
      /\ UNCHANGED <<stores, inflight, queue, attach, hot, pc, call, newkey,
                     closed>>
      /\ Finish(f, b)
      /\ tainted' = IF futs[f].torn /\ b \notin {futs[f].exp, None}
                    THEN tainted \cup {futs[f].exp} ELSE tainted
  BY DEF BuildSlice, Building
<1>3. b \in Bundle
  BY <1>1 DEF FutureType, Bundle
<1>4. ~futs[f].torn => b \in {futs[f].exp, None}
  <2> SUFFICES ASSUME ~futs[f].torn PROVE b \in {futs[f].exp, None}
    OBVIOUS
  <2>1. /\ Settled /\ backing # <<>> /\ futs[f].rows = backing
        /\ futs[f].idx \in DOMAIN key /\ key[futs[f].idx] = futs[f].exp
    BY <1>1, <1>2 DEF BuildInv
  <2>2. backing = key \o <<ZeroRow>>
    BY <1>1, <2>1 DEF HotInv
  <2>3. backing[futs[f].idx] = key[futs[f].idx]
    BY <1>1, <2>1, <2>2
  <2> QED BY <2>1, <2>3
<1> HIDE DEF b
<1>5. tainted \subseteq tainted' /\ tainted' \in SUBSET Experts
      /\ (futs[f].exp \notin tainted' => b \in {futs[f].exp, None})
  BY <1>1, <1>2, <1>4
<1> QED BY <1>2, <1>3, <1>5, FinishInv

(* The callback of a finished future runs, on a pool thread or where it is *)
(* registered: the bundle is filed, the entry goes, and futures nobody     *)
(* waits for are forgotten.                                                *)
LEMMA CallbackInv ==
  ASSUME IInv, NEW f \in FutureIds, Finished(f), OnPrefetchDone(f),
         fut' = fut, futs' = Released([futs EXCEPT ![f].cb = "ran"]),
         \/ pc' = pc /\ attach' = attach
         \/ /\ pc = "attach" /\ attach' = attach \ {f}
            /\ pc' = IF attach = {f} THEN "idle" ELSE "attach",
         UNCHANGED <<opts, pinned, lru, queue, hot, want, got, todo, missing,
                     cur, val, newkey, closed, tainted>>
  PROVE  IInv'
<1> DEFINE e == futs[f].exp
           r == [futs[f] EXCEPT !.cb = "ran"]
<1>1. TypeOK /\ HotInv /\ FutureInv /\ QueueInv /\ BuildInv /\ CallInv
      /\ StoreInv /\ NoOrphanPrefetch
  BY DEF IInv
<1>2. /\ futs \in [FutureIds -> FutureType] /\ futs[f] \in FutureType
      /\ e \in Experts /\ inflight \in [Experts -> FutureIds \cup {None}]
      /\ futs[f].st \in {"done", "failed"}
  BY <1>1 DEF TypeOK, FutureInv, Finished
<1>3. /\ r \in FutureType /\ r.cb = "ran"
      /\ r.st = futs[f].st /\ r.exp = e /\ r.val = futs[f].val
  BY <1>2 DEF FutureType
<1>4. FreeFuture \in FutureType
  <2>1. <<>> \in Seq(Rows)
    OBVIOUS
  <2> QED BY <2>1 DEF FreeFuture, FutureType, Bundle
<1>5. [futs EXCEPT ![f].cb = "ran"] = [futs EXCEPT ![f] = r]
  BY <1>2
<1> HIDE DEF r
<1>6. ASSUME NEW g \in FutureIds
      PROVE  futs'[g] =
               IF (g = f \/ futs[g].cb = "ran") /\ g # fut THEN FreeFuture
               ELSE IF g = f THEN r ELSE futs[g]
  BY <1>2, <1>3, <1>5 DEF Released
<1>7. futs' \in [FutureIds -> FutureType]
  <2>1. \A g \in FutureIds : futs'[g] \in FutureType
    BY <1>2, <1>3, <1>4, <1>6
  <2>2. DOMAIN futs' = FutureIds
    BY DEF Released
  <2>3. futs' = [g \in FutureIds |-> futs'[g]]
    BY DEF Released
  <2> QED BY <2>1, <2>3
<1>8. FreeFuture.st = "free" /\ FreeFuture.exp = None
      /\ FreeFuture.cb = "none" /\ FreeFuture.val = None
  BY DEF FreeFuture
<1>9. /\ inflight' \in [Experts -> FutureIds \cup {None}]
      /\ \A d \in Experts : inflight'[d] = IF d = e THEN None ELSE inflight[d]
  BY <1>2 DEF OnPrefetchDone
<1>10. buf' \in Good(BufferCap, tainted)
  <2>1. buf \in Good(BufferCap, tainted) /\ BufferCap \in Nat
    BY <1>1, CachesGood, CacheAssumption
  <2>2. CASE futs[f].st = "done" /\ e \notin CachedKeys(lru)
    <3>1. buf' = CachePut(buf, e, futs[f].val, BufferCap)
      BY <2>2 DEF OnPrefetchDone
    <3>2. futs[f].val # None /\ futs[f].val \in Bundle
      BY <1>1, <1>2, <2>2 DEF FutureInv, FutureType
    <3>3. futs[f].val \in Rows
      BY <3>2 DEF Bundle
    <3>4. e \notin tainted => futs[f].val = e
      BY <1>1, <1>2, <3>2 DEF StoreInv
    <3> HIDE DEF e
    <3> QED BY <1>2, <2>1, <3>1, <3>3, <3>4, PutGood
  <2>3. CASE ~(futs[f].st = "done" /\ e \notin CachedKeys(lru))
    BY <2>1, <2>3 DEF OnPrefetchDone
  <2> QED BY <2>2, <2>3
<1>11. attach' \in SUBSET attach /\ (\A g \in attach : g # f => g \in attach')
       /\ pc' \in Places /\ (Settled' <=> Settled)
  BY <1>1 DEF TypeOK, Places, Settled
<1> HIDE DEF e
<1>12. TypeOK'
  BY <1>1, <1>7, <1>9, <1>10, <1>11 DEF TypeOK, Good, hot
<1>13. HotInv'
  BY <1>1 DEF HotInv, Settled, hot
<1>14. FutureInv'
  <2> SUFFICES ASSUME NEW g \in FutureIds
               PROVE  /\ futs'[g].st = "free" => futs'[g].exp = None
                      /\ futs'[g].st # "free" => futs'[g].exp \in Experts
                      /\ futs'[g].st = "done" => futs'[g].val # None
                      /\ futs'[g].cb = "ran" =>
                           futs'[g].st \in {"done", "failed"}
    BY DEF FutureInv, Finished
  <2>1. CASE futs'[g] = FreeFuture
    BY <1>8, <2>1
  <2>2. CASE g = f /\ futs'[g] = r
    BY <1>1, <1>2, <1>3, <2>2 DEF FutureInv
  <2>3. CASE futs'[g] = futs[g]
    BY <1>1, <2>3 DEF FutureInv, Finished
  <2> QED BY <1>6, <2>1, <2>2, <2>3
<1>15. QueueInv'
  <2>1. queue \in Seq(FutureIds)
    BY <1>1 DEF TypeOK
  <2>2. \A i \in DOMAIN queue : queue[i] \in FutureIds
    BY <2>1
  <2>3. \A i \in DOMAIN queue :
          /\ futs[queue[i]].st = "queued" /\ queue[i] # f
          /\ futs[queue[i]].cb # "ran"
    BY <1>1, <1>2, <2>2 DEF QueueInv, FutureInv, Finished
  <2>4. \A i \in DOMAIN queue : futs'[queue[i]] = futs[queue[i]]
    BY <1>6, <2>2, <2>3
  <2> QED BY <1>1, <2>4 DEF QueueInv
<1>16. BuildInv'
  <2> SUFFICES ASSUME NEW g \in FutureIds, ~futs'[g].torn,
                      futs'[g].st \in {"index", "stack", "slice"}
               PROVE  futs'[g] = futs[g]
    BY <1>1, <1>11 DEF BuildInv, hot
  <2> QED BY <1>2, <1>3, <1>6, <1>8
<1>17. CallInv'
  <2>1. pc = "result" => futs'[fut].exp = futs[fut].exp
    BY <1>1, <1>3, <1>6 DEF CallInv, e
  <2>2. CASE pc' = pc /\ attach' = attach
    BY <1>1, <2>1, <2>2 DEF CallInv
  <2>3. CASE /\ pc = "attach" /\ attach' = attach \ {f}
             /\ pc' = IF attach = {f} THEN "idle" ELSE "attach"
    BY <1>1, <2>3 DEF CallInv, Outside, Searching
  <2> QED BY <2>2, <2>3
<1>18. StoreInv'
  <2>1. \A d \in Experts \ tainted : \A g \in FutureIds :
          futs'[g].exp = d => futs'[g].val \in {d, None}
    <3> SUFFICES ASSUME NEW d \in Experts \ tainted, NEW g \in FutureIds,
                        futs'[g].exp = d
                 PROVE  futs'[g].val \in {d, None}
      OBVIOUS
    <3>1. CASE futs'[g] = FreeFuture
      BY <1>8, <3>1
    <3>2. CASE g = f /\ futs'[g] = r
      BY <1>1, <1>3, <3>2 DEF StoreInv, e
    <3>3. CASE futs'[g] = futs[g]
      BY <1>1, <3>3 DEF StoreInv
    <3> QED BY <1>6, <3>1, <3>2, <3>3
  <2> QED BY <1>1, <1>10, <2>1 DEF StoreInv, Good
<1>19. NoOrphanPrefetch'
  <2>1. ASSUME NEW d \in Experts, inflight'[d] # None
        PROVE  /\ futs'[inflight'[d]].exp = d
               /\ futs'[inflight'[d]].cb # "ran"
    <3> DEFINE g == inflight[d]
    <3>1. d # e /\ inflight'[d] = g /\ g \in FutureIds
      BY <1>2, <1>9, <2>1
    <3>2. futs[g].exp = d /\ futs[g].cb # "ran"
      BY <1>1, <3>1, <2>1 DEF NoOrphanPrefetch
    <3>3. g # f
      BY <3>1, <3>2 DEF e
    <3>4. futs'[g] = futs[g]
      BY <1>6, <3>1, <3>2, <3>3
    <3> QED BY <3>1, <3>2, <3>4
  <2>2. ASSUME NEW g \in FutureIds, futs'[g].st # "free",
               futs'[g].cb = "none"
        PROVE  g \in attach'
    <3>1. g # f /\ futs'[g] = futs[g]
      BY <1>3, <1>6, <1>8, <2>2
    <3> QED BY <1>1, <1>11, <2>2, <3>1 DEF NoOrphanPrefetch
  <2> QED BY <2>1, <2>2 DEF NoOrphanPrefetch
<1> QED BY <1>12, <1>13, <1>14, <1>15, <1>16, <1>17, <1>18, <1>19 DEF IInv

(* The callback of a finished future, on a pool thread. *)
LEMMA PoolCallbackInv ==
  ASSUME IInv, NEW f \in FutureIds, PoolCallback(f)
  PROVE  IInv'
BY CallbackInv DEF PoolCallback

(* A callback is registered; that of a finished future runs at once. *)
LEMMA AttachCallbackInv ==
  ASSUME IInv, NEW f \in FutureIds, AttachCallback(f)
  PROVE  IInv'
<1>1. CASE Finished(f)
  <2>1. /\ OnPrefetchDone(f) /\ fut' = fut
        /\ futs' = Released([futs EXCEPT ![f].cb = "ran"])
        /\ pc = "attach" /\ attach' = attach \ {f}
        /\ pc' = IF attach = {f} THEN "idle" ELSE "attach"
        /\ UNCHANGED <<opts, pinned, lru, queue, hot, want, got, todo,
                       missing, cur, val, newkey, closed, tainted>>
    BY <1>1 DEF AttachCallback
  <2> QED BY <1>1, <2>1, CallbackInv
<1>2. CASE ~Finished(f)
  <2> DEFINE r == [futs[f] EXCEPT !.cb = "attached"]
  <2>1. TypeOK /\ HotInv /\ FutureInv /\ QueueInv /\ BuildInv /\ CallInv
        /\ StoreInv /\ NoOrphanPrefetch
    BY DEF IInv
  <2>2. /\ fut' = fut /\ futs' = [futs EXCEPT ![f].cb = "attached"]
        /\ UNCHANGED <<inflight, buf>>
        /\ pc = "attach" /\ attach' = attach \ {f}
        /\ pc' = IF attach = {f} THEN "idle" ELSE "attach"
        /\ UNCHANGED <<opts, pinned, lru, queue, hot, want, got, todo,
                       missing, cur, val, newkey, closed, tainted>>
    BY <1>2 DEF AttachCallback
  <2>3. futs \in [FutureIds -> FutureType] /\ futs[f] \in FutureType
    BY <2>1 DEF TypeOK
  <2>4. /\ r \in FutureType /\ r.cb = "attached" /\ r.st = futs[f].st
        /\ r.exp = futs[f].exp /\ r.val = futs[f].val
        /\ r.torn = futs[f].torn /\ r.idx = futs[f].idx
        /\ r.rows = futs[f].rows
    BY <2>3 DEF FutureType
  <2>5. futs' = [futs EXCEPT ![f] = r]
    BY <2>2, <2>3
  <2> HIDE DEF r
  <2>6. /\ futs' \in [FutureIds -> FutureType]
        /\ \A g \in FutureIds : futs'[g] = IF g = f THEN r ELSE futs[g]
    BY <2>3, <2>4, <2>5
  <2>7. Settled /\ Settled'
    BY <2>2 DEF Settled
  <2>8. TypeOK'
    BY <2>1, <2>2, <2>6 DEF TypeOK, hot, Places
  <2>9. HotInv'
    BY <2>1, <2>2, <2>7, HotFrame
  <2>10. FutureInv'
    BY <2>1, <2>4, <2>6 DEF FutureInv, Finished
  <2>11. QueueInv'
    <3>1. \A i \in DOMAIN queue : queue[i] \in FutureIds
      BY <2>1 DEF TypeOK
    <3> QED BY <2>1, <2>2, <2>4, <2>6, <3>1 DEF QueueInv
  <2>12. BuildInv'
    BY <2>1, <2>2, <2>4, <2>6, <2>7 DEF BuildInv, hot
  <2>13. CallInv'
    BY <2>1, <2>2 DEF CallInv, Outside, Searching
  <2>14. StoreInv'
    BY <2>1, <2>2, <2>4, <2>6 DEF StoreInv
  <2>15. NoOrphanPrefetch'
    BY <2>1, <2>2, <2>4, <2>6 DEF NoOrphanPrefetch, TypeOK
  <2> QED BY <2>8, <2>9, <2>10, <2>11, <2>12, <2>13, <2>14, <2>15 DEF IInv
<1> QED BY <1>1, <1>2

(* Futures are submitted: free ones, one for each expert. *)
LEMMA PrefetchInv ==
  ASSUME IInv, NEW S \in CallSets, Prefetch(S)
  PROVE  IInv'
<1>1. TypeOK /\ HotInv /\ FutureInv /\ QueueInv /\ BuildInv /\ CallInv
      /\ StoreInv /\ NoOrphanPrefetch
  BY DEF IInv
<1>2. /\ pc = "idle" /\ pc' = "attach" /\ Settled /\ Settled'
      /\ UNCHANGED <<stores, hot, call, newkey, closed, tainted>>
  BY DEF Prefetch, Settled
<1> DEFINE W == Wanted(S)
           es == Ascending(W)
<1>3. PICK ids \in SUBSET {f \in FutureIds : Idle(f)} :
        LET fs == Ascending(ids)
        IN  /\ Len(fs) = Len(es) /\ es # <<>>
            /\ futs' = [f \in FutureIds |->
                         IF f \in ids
                         THEN [FreeFuture EXCEPT !.st = "queued",
                                 !.exp = es[CHOOSE i \in DOMAIN fs :
                                              fs[i] = f]]
                         ELSE futs[f]]
            /\ inflight' = [e \in Experts |->
                 IF \E i \in DOMAIN es : es[i] = e
                 THEN fs[CHOOSE i \in DOMAIN es : es[i] = e]
                 ELSE inflight[e]]
            /\ queue' = queue \o fs /\ attach' = ids
  BY DEF Prefetch
<1> DEFINE fs == Ascending(ids)
           at(f) == CHOOSE i \in DOMAIN fs : fs[i] = f
           pos(e) == CHOOSE i \in DOMAIN es : es[i] = e
           New(x) == [FreeFuture EXCEPT !.st = "queued", !.exp = x]
<1>4. /\ Len(fs) = Len(es)
      /\ futs' = [f \in FutureIds |-> IF f \in ids THEN New(es[at(f)])
                                      ELSE futs[f]]
      /\ inflight' = [e \in Experts |->
                        IF \E i \in DOMAIN es : es[i] = e THEN fs[pos(e)]
                        ELSE inflight[e]]
      /\ queue' = queue \o fs /\ attach' = ids
  BY <1>3
<1>5. W \in SUBSET Experts /\ ids \in SUBSET FutureIds
      /\ \A f \in ids : Idle(f)
  BY CacheAssumption DEF Wanted
<1>6. /\ W \in SUBSET Nat /\ IsFiniteSet(W)
      /\ ids \in SUBSET Nat /\ IsFiniteSet(ids)
  BY <1>5, CacheAssumption, FutureAssumption, FS_Subset
<1> HIDE DEF W
<1>7. /\ \A i \in DOMAIN es : es[i] \in W
      /\ DOMAIN es = 1..Len(es)
  BY <1>6, AscendingLists
<1>8. /\ fs \in Seq(ids) /\ DOMAIN fs = 1..Len(fs)
      /\ \A i \in DOMAIN fs : fs[i] \in ids
      /\ \A i, j \in DOMAIN fs : fs[i] = fs[j] => i = j
      /\ \A f \in ids : \E i \in DOMAIN fs : fs[i] = f
  BY <1>6, AscendingLists
<1> HIDE DEF es, fs
<1>9. DOMAIN fs = DOMAIN es
  BY <1>4, <1>7, <1>8
<1>10. \A f \in ids : at(f) \in DOMAIN fs /\ fs[at(f)] = f
  BY <1>8
<1>11. \A e \in Experts : (\E i \in DOMAIN es : es[i] = e) =>
         pos(e) \in DOMAIN es /\ es[pos(e)] = e
  OBVIOUS
<1> HIDE DEF at, pos
<1>12. \A x \in Experts :
         /\ New(x) \in FutureType /\ New(x).st = "queued" /\ New(x).exp = x
         /\ New(x).cb = "none" /\ New(x).val = None
  <2>1. <<>> \in Seq(Rows)
    OBVIOUS
  <2> QED BY <2>1 DEF FreeFuture, FutureType, Bundle
<1> HIDE DEF New
<1>13. \A f \in ids : es[at(f)] \in Experts
  BY <1>5, <1>7, <1>9, <1>10
<1>14. /\ futs' \in [FutureIds -> FutureType]
       /\ \A f \in FutureIds :
            futs'[f] = IF f \in ids THEN New(es[at(f)]) ELSE futs[f]
  <2>1. \A f \in FutureIds : futs[f] \in FutureType
    BY <1>1 DEF TypeOK
  <2> QED BY <1>4, <1>12, <1>13, <2>1
<1>15. /\ inflight' \in [Experts -> FutureIds \cup {None}]
       /\ \A e \in Experts :
            inflight'[e] = IF \E i \in DOMAIN es : es[i] = e THEN fs[pos(e)]
                           ELSE inflight[e]
  <2>1. \A e \in Experts : inflight[e] \in FutureIds \cup {None}
    BY <1>1 DEF TypeOK
  <2>2. \A e \in Experts : (\E i \in DOMAIN es : es[i] = e) =>
          fs[pos(e)] \in FutureIds
    BY <1>5, <1>8, <1>9, <1>11
  <2> QED BY <1>4, <2>1, <2>2
<1>16. queue \in Seq(FutureIds) /\ fs \in Seq(FutureIds)
       /\ queue' \in Seq(FutureIds)
  <2>1. queue \in Seq(FutureIds)
    BY <1>1 DEF TypeOK
  <2>2. fs \in Seq(FutureIds)
    BY <1>5, <1>8
  <2> QED BY <1>4, <2>1, <2>2
<1>17. \A f \in FutureIds : f \in ids =>
         ~(futs[f].st = "queued") /\ (futs[f].exp # None => futs[f].cb = "ran")
  BY <1>1, <1>5 DEF Idle, FutureInv, Finished
<1>18. TypeOK'
  BY <1>1, <1>2, <1>4, <1>5, <1>14, <1>15, <1>16
     DEF TypeOK, stores, hot, call, Places
<1>19. HotInv'
  BY <1>1, <1>2, HotFrame
<1>20. FutureInv'
  BY <1>1, <1>12, <1>13, <1>14 DEF FutureInv, Finished
<1>21. QueueInv'
  <2> DEFINE n == Len(queue)
  <2>1. /\ n \in Nat /\ Len(fs) \in Nat
        /\ DOMAIN queue = 1..n /\ DOMAIN queue' = 1..(n + Len(fs))
        /\ \A i \in DOMAIN queue' :
             /\ i <= n => i \in DOMAIN queue /\ queue'[i] = queue[i]
             /\ i > n => i - n \in DOMAIN fs /\ queue'[i] = fs[i - n]
    <3>1. n \in Nat /\ Len(fs) \in Nat /\ DOMAIN queue = 1..n
          /\ DOMAIN fs = 1..Len(fs)
      BY <1>16
    <3>2. /\ Len(queue \o fs) = n + Len(fs)
          /\ \A i \in 1..(n + Len(fs)) :
               (queue \o fs)[i] = IF i <= n THEN queue[i] ELSE fs[i - n]
      BY <1>16, ConcatProperties
    <3>3. DOMAIN queue' = 1..Len(queue')
      BY <1>16
    <3> HIDE DEF n
    <3> QED BY <1>4, <3>1, <3>2, <3>3
  <2>2. \A i \in DOMAIN queue : /\ queue[i] \in FutureIds
                                /\ queue[i] \notin ids
                                /\ futs'[queue[i]].st = "queued"
    BY <1>1, <1>14, <1>16, <1>17 DEF QueueInv
  <2>3. \A i \in DOMAIN fs : fs[i] \in ids /\ futs'[fs[i]].st = "queued"
    BY <1>5, <1>8, <1>12, <1>13, <1>14
  <2> HIDE DEF n
  <2>4. ASSUME NEW i \in DOMAIN queue'
        PROVE  futs'[queue'[i]].st = "queued"
    <3>1. i \in Int
      BY <2>1
    <3>2. CASE i <= n
      BY <2>1, <2>2, <3>2
    <3>3. CASE i > n
      BY <2>1, <2>3, <3>3
    <3> QED BY <2>1, <3>1, <3>2, <3>3
  <2>5. ASSUME NEW i \in DOMAIN queue', NEW j \in DOMAIN queue',
               queue'[i] = queue'[j]
        PROVE  i = j
    <3>1. i \in Int /\ j \in Int /\ n \in Int
      BY <2>1
    <3>2. CASE i <= n /\ j <= n
      BY <1>1, <2>1, <2>5, <3>2 DEF QueueInv
    <3>3. CASE i > n /\ j > n
      <4>1. i - n = j - n
        BY <1>8, <2>1, <2>5, <3>3
      <4> QED BY <3>1, <4>1
    <3>4. CASE i <= n /\ j > n
      BY <2>1, <2>2, <2>3, <2>5, <3>4
    <3>5. CASE i > n /\ j <= n
      BY <2>1, <2>2, <2>3, <2>5, <3>5
    <3> QED BY <3>1, <3>2, <3>3, <3>4, <3>5
  <2> QED BY <2>4, <2>5 DEF QueueInv
<1>22. BuildInv'
  BY <1>1, <1>2, <1>12, <1>13, <1>14 DEF BuildInv, hot
<1>23. CallInv'
  BY <1>1, <1>2 DEF CallInv, Outside, Searching, call
<1>24. StoreInv'
  <2>1. \A d \in Experts \ tainted : \A g \in FutureIds :
          futs'[g].exp = d => futs'[g].val \in {d, None}
    BY <1>1, <1>12, <1>13, <1>14 DEF StoreInv
  <2> QED BY <1>1, <1>2, <2>1 DEF StoreInv, stores, call
<1>25. NoOrphanPrefetch'
  <2>1. ASSUME NEW e \in Experts, inflight'[e] # None
        PROVE  /\ futs'[inflight'[e]].exp = e
               /\ futs'[inflight'[e]].cb # "ran"
    <3>1. CASE \E i \in DOMAIN es : es[i] = e
      <4> DEFINE f == fs[pos(e)]
      <4>1. /\ inflight'[e] = f /\ f \in ids /\ f \in FutureIds
            /\ pos(e) \in DOMAIN fs /\ es[pos(e)] = e
        BY <1>5, <1>8, <1>9, <1>11, <1>15, <3>1
      <4>2. at(f) = pos(e)
        BY <1>8, <1>10, <4>1
      <4>3. futs'[f] = New(e)
        BY <1>14, <4>1, <4>2
      <4> QED BY <1>12, <4>1, <4>3
    <3>2. CASE ~\E i \in DOMAIN es : es[i] = e
      <4> DEFINE g == inflight[e]
      <4>1. inflight'[e] = g /\ g \in FutureIds
        BY <1>1, <1>15, <2>1, <3>2 DEF TypeOK
      <4>2. futs[g].exp = e /\ futs[g].cb # "ran"
        BY <1>1, <2>1, <4>1 DEF NoOrphanPrefetch
      <4>3. e # None
        BY CacheAssumption DEF None
      <4>4. g \notin ids
        BY <1>17, <4>1, <4>2, <4>3
      <4> QED BY <1>14, <4>1, <4>2, <4>4
    <3> QED BY <3>1, <3>2
  <2>2. ASSUME NEW g \in FutureIds, futs'[g].st # "free",
               futs'[g].cb = "none"
        PROVE  g \in attach'
    BY <1>1, <1>2, <1>4, <1>14, <2>2 DEF NoOrphanPrefetch, CallInv
  <2> QED BY <2>1, <2>2 DEF NoOrphanPrefetch
<1> QED BY <1>18, <1>19, <1>20, <1>21, <1>22, <1>23, <1>24, <1>25 DEF IInv

-----------------------------------------------------------------------------
(* Pins and the hot stack.                                                  *)

(* The pins are refreshed, wholly or up to a build that raises. *)
LEMMA RefreshHotPinsInv ==
  ASSUME IInv, NEW target \in SUBSET Experts, RefreshHotPins(target)
  PROVE  IInv'
<1>1. TypeOK /\ HotInv /\ FutureInv /\ QueueInv /\ BuildInv /\ CallInv
      /\ StoreInv /\ NoOrphanPrefetch
  BY DEF IInv
<1>2. /\ pc = "idle" /\ pc' = pc /\ Settled /\ Settled'
      /\ UNCHANGED <<opts, buf, pool, hot, call, newkey, closed, tainted>>
      /\ Cardinality(target) <= opts.pins
  BY DEF RefreshHotPins, Settled
<1>3. PICK done \in SUBSET target :
        /\ pinned' = [e \in Experts |->
             IF e \in done
             THEN IF e \in CachedKeys(lru) THEN CachePeek(lru, e)
                  ELSE IF pinned[e] # None THEN pinned[e] ELSE Build(e)
             ELSE IF e \in target THEN pinned[e] ELSE None]
        /\ lru' = FoldLeft(CachePop, lru, Ascending(done))
  BY DEF RefreshHotPins
<1>4. lru \in Good(LruSlots, tainted) /\ LruSlots \in Nat
  BY <1>1, CachesGood, CacheAssumption
<1>5. lru' \in Good(LruSlots, tainted)
  BY <1>3, <1>4, PopAllGood
<1>6. /\ pinned' \in [Experts -> Bundle]
      /\ \A e \in Experts \ tainted : pinned'[e] \in {e, None}
      /\ \A e \in Experts : pinned'[e] # None => e \in target
  <2> DEFINE P(e) == IF e \in done
                     THEN IF e \in CachedKeys(lru) THEN CachePeek(lru, e)
                          ELSE IF pinned[e] # None THEN pinned[e]
                          ELSE Build(e)
                     ELSE IF e \in target THEN pinned[e] ELSE None
  <2>1. ASSUME NEW e \in Experts
        PROVE  /\ P(e) \in Bundle
               /\ e \notin tainted => P(e) \in {e, None}
               /\ P(e) # None => e \in target
    <3>1. e \in CachedKeys(lru) => /\ CachePeek(lru, e) \in Rows
                                   /\ e \notin tainted =>
                                        CachePeek(lru, e) = e
      BY <1>4, PeekGood
    <3>2. Build(e) = e
      BY <1>1, <1>2, BuildOwn
    <3>3. pinned[e] \in Bundle
          /\ (e \notin tainted => pinned[e] \in {e, None})
      BY <1>1 DEF TypeOK, StoreInv
    <3> QED BY <3>1, <3>2, <3>3 DEF Bundle, Rows
  <2>2. pinned' = [e \in Experts |-> P(e)]
    BY <1>3
  <2> HIDE DEF P
  <2> QED BY <2>1, <2>2
<1>7. Cardinality({e \in Experts : pinned'[e] # None}) <= opts'.pins
  <2> DEFINE Q == {e \in Experts : pinned'[e] # None}
  <2>1. IsFiniteSet(target) /\ Q \in SUBSET target
    BY <1>6, CacheAssumption, FS_Subset
  <2>2. /\ Cardinality(Q) <= Cardinality(target)
        /\ Cardinality(Q) \in Nat /\ Cardinality(target) \in Nat
    BY <2>1, FS_Subset, FS_CardinalityType
  <2>3. opts' = opts /\ opts.pins \in Nat
    BY <1>1, <1>2, CacheAssumption DEF TypeOK
  <2> HIDE DEF Q
  <2>4. Cardinality(Q) <= opts'.pins
    BY <1>2, <2>2, <2>3
  <2> QED BY <2>4 DEF Q
<1>8. TypeOK'
  BY <1>1, <1>2, <1>5, <1>6, <1>7 DEF TypeOK, Good, pool, hot, call
<1>9. HotInv'
  BY <1>1, <1>2, HotFrame
<1>10. FutureInv' /\ QueueInv' /\ BuildInv'
  BY <1>1, <1>2, PoolFrame DEF pool
<1>11. CallInv'
  BY <1>1, <1>2 DEF CallInv, pool, call
<1>12. StoreInv'
  BY <1>1, <1>2, <1>5, <1>6 DEF StoreInv, Good, pool, call
<1>13. NoOrphanPrefetch'
  BY <1>1, <1>2, OrphanFrame DEF pool
<1> QED BY <1>8, <1>9, <1>10, <1>11, <1>12, <1>13 DEF IInv

(* A new hot stack is read: every build that has read one of the three     *)
(* attributes is marked.                                                   *)
LEMMA LoadHotLayerInv ==
  ASSUME IInv, NEW k \in HotKeys, LoadHotLayer(k)
  PROVE  IInv'
<1> USE DEF LoadHotLayer
<1>1. TypeOK /\ HotInv /\ FutureInv /\ QueueInv /\ BuildInv /\ CallInv
      /\ StoreInv /\ NoOrphanPrefetch
  BY DEF IInv
<1>2. pc = "idle" /\ pc' = "hotKey"
  OBVIOUS
<1>3. k \in Seq(Experts)
  BY CacheAssumption
<1>4. backing' \in Seq(Rows)
  <2>1. k \in Seq(Rows) /\ <<ZeroRow>> \in Seq(Rows)
    BY <1>3 DEF Rows
  <2> QED BY <2>1
<1>5. futs \in [FutureIds -> FutureType]
  BY <1>1 DEF TypeOK
<1>6. ASSUME NEW f \in FutureIds
      PROVE  /\ futs'[f] \in FutureType
             /\ futs'[f].st = futs[f].st /\ futs'[f].exp = futs[f].exp
             /\ futs'[f].cb = futs[f].cb /\ futs'[f].val = futs[f].val
             /\ futs[f].st \in {"index", "stack", "slice"} => futs'[f].torn
  <2> DEFINE t == futs[f].torn \/ futs[f].st \in Building \ {"check"}
  <2>1. futs[f] \in FutureType
    BY <1>5
  <2>2. t \in BOOLEAN
        /\ (futs[f].st \in {"index", "stack", "slice"} => t = TRUE)
    BY DEF Building
  <2>3. futs'[f] = [futs[f] EXCEPT !.torn = t]
    OBVIOUS
  <2> HIDE DEF t
  <2> QED BY <2>1, <2>2, <2>3 DEF FutureType
<1>7. futs' \in [FutureIds -> FutureType]
  BY <1>6
<1>8. TypeOK'
  BY <1>1, <1>2, <1>3, <1>4, <1>7 DEF TypeOK, stores, call, Places
<1>9. HotInv'
  BY <1>2 DEF HotInv, Settled
<1>10. FutureInv'
  BY <1>1, <1>6 DEF FutureInv, Finished
<1>11. QueueInv'
  <2>1. \A i \in DOMAIN queue : queue[i] \in FutureIds
    BY <1>1 DEF TypeOK
  <2> QED BY <1>1, <1>6, <2>1 DEF QueueInv
<1>12. BuildInv'
  BY <1>6 DEF BuildInv
<1>13. CallInv'
  BY <1>1, <1>2 DEF CallInv, Outside, Searching, call
<1>14. StoreInv'
  BY <1>1, <1>6 DEF StoreInv, stores, call
<1>15. NoOrphanPrefetch'
  <2>1. \A e \in Experts : inflight[e] # None => inflight[e] \in FutureIds
    BY <1>1 DEF TypeOK
  <2>2. UNCHANGED <<inflight, attach>>
    OBVIOUS
  <2>3. \A f \in FutureIds :
          /\ futs'[f].exp = futs[f].exp /\ futs'[f].cb = futs[f].cb
          /\ futs[f].st = "free" => futs'[f].st = "free"
    BY <1>6
  <2> HIDE DEF LoadHotLayer
  <2> QED BY <1>1, <2>1, <2>2, <2>3 DEF NoOrphanPrefetch
<1> QED BY <1>8, <1>9, <1>10, <1>11, <1>12, <1>13, <1>14, <1>15 DEF IInv

(* The key is replaced, then the set: no unmarked build has begun to read  *)
(* the stack.                                                              *)
LEMMA SetHotKeyInv ==
  ASSUME IInv, SetHotKey
  PROVE  IInv'
<1> USE DEF SetHotKey
<1>1. TypeOK /\ HotInv /\ FutureInv /\ QueueInv /\ BuildInv /\ CallInv
      /\ StoreInv /\ NoOrphanPrefetch
  BY DEF IInv
<1>2. pc = "hotKey" /\ pc' = "hotSet" /\ ~Settled /\ ~Settled'
  BY DEF Settled
<1>3. TypeOK'
  BY <1>1, <1>2 DEF TypeOK, stores, pool, call, Places
<1>4. HotInv'
  BY <1>1, <1>2 DEF HotInv
<1>5. FutureInv' /\ QueueInv'
  BY <1>1 DEF FutureInv, Finished, QueueInv, pool
<1>6. BuildInv'
  BY <1>1, <1>2 DEF BuildInv, pool
<1>7. CallInv'
  BY <1>1, <1>2 DEF CallInv, Outside, Searching, call, pool
<1>8. StoreInv'
  BY <1>1 DEF StoreInv, stores, call, pool
<1>9. NoOrphanPrefetch'
  BY <1>1, OrphanFrame DEF pool
<1> QED BY <1>3, <1>4, <1>5, <1>6, <1>7, <1>8, <1>9 DEF IInv

(* The set is replaced and the rows on the GPU dropped: the attributes     *)
(* agree again.                                                            *)
LEMMA SetHotSetInv ==
  ASSUME IInv, SetHotSet
  PROVE  IInv'
<1> USE DEF SetHotSet
<1>1. TypeOK /\ HotInv /\ FutureInv /\ QueueInv /\ BuildInv /\ CallInv
      /\ StoreInv /\ NoOrphanPrefetch
  BY DEF IInv
<1>2. pc = "hotSet" /\ pc' = "idle" /\ ~Settled /\ Settled'
  BY DEF Settled
<1>3. ToSet(newkey) \in SUBSET Experts /\ <<>> \in Seq(Rows)
      /\ <<>> \in Seq(Experts)
  BY <1>1 DEF TypeOK, ToSet
<1>4. TypeOK'
  BY <1>1, <1>2, <1>3 DEF TypeOK, stores, pool, call, Places
<1>5. HotInv'
  BY <1>1, <1>2 DEF HotInv
<1>6. FutureInv' /\ QueueInv'
  BY <1>1 DEF FutureInv, Finished, QueueInv, pool
<1>7. BuildInv'
  BY <1>1, <1>2 DEF BuildInv, pool
<1>8. CallInv'
  BY <1>1, <1>2 DEF CallInv, Outside, Searching, call, pool
<1>9. StoreInv'
  BY <1>1 DEF StoreInv, stores, call, pool
<1>10. NoOrphanPrefetch'
  BY <1>1, OrphanFrame DEF pool
<1> QED BY <1>4, <1>5, <1>6, <1>7, <1>8, <1>9, <1>10 DEF IInv

(* The rows go to the GPU or leave it. *)
LEMMA WindowInv ==
  ASSUME IInv, MaterializeHot \/ DematerializeHot
  PROVE  IInv'
<1> USE DEF MaterializeHot, DematerializeHot
<1>1. TypeOK /\ HotInv /\ FutureInv /\ QueueInv /\ BuildInv /\ CallInv
      /\ StoreInv /\ NoOrphanPrefetch
  BY DEF IInv
<1>2. /\ pc = "idle" /\ pc' = pc /\ Settled /\ Settled'
      /\ window' \in {<<>>, backing}
      /\ backing = <<>> => window' = <<>>
      /\ UNCHANGED <<stores, pool, backing, key, hotset, call, newkey,
                     closed, tainted>>
  BY DEF Settled
<1>3. <<>> \in Seq(Rows)
  OBVIOUS
<1>4. TypeOK'
  BY <1>1, <1>2, <1>3 DEF TypeOK, stores, pool, call
<1>5. HotInv'
  BY <1>1, <1>2 DEF HotInv, Settled
<1>6. FutureInv' /\ QueueInv'
  BY <1>1, <1>2 DEF FutureInv, Finished, QueueInv, pool
<1>7. BuildInv'
  BY <1>1, <1>2 DEF BuildInv, pool
<1>8. CallInv'
  BY <1>1, <1>2 DEF CallInv, call, pool
<1>9. StoreInv'
  BY <1>1, <1>2 DEF StoreInv, stores, call, pool
<1>10. NoOrphanPrefetch'
  BY <1>1, <1>2, OrphanFrame DEF pool
<1> QED BY <1>4, <1>5, <1>6, <1>7, <1>8, <1>9, <1>10 DEF IInv

(* The hot prefill forward reads its rows from the GPU. *)
LEMMA HotPrefillInv ==
  ASSUME IInv, NEW S \in CallSets, HotPrefill(S)
  PROVE  IInv'
<1>1. TypeOK /\ HotInv /\ FutureInv /\ QueueInv /\ BuildInv /\ CallInv
      /\ StoreInv /\ NoOrphanPrefetch
  BY DEF IInv
<1>2. /\ pc = "idle" /\ pc' = "serve" /\ window # <<>> /\ want' = S
      /\ Settled /\ Settled'
      /\ UNCHANGED <<stores, pool, hot, todo, missing, cur, fut, val, newkey,
                     closed, tainted>>
  BY DEF HotPrefill, Settled
<1>3. S \in SUBSET Experts
  BY CacheAssumption
<1>4. window = key \o <<ZeroRow>> /\ key \in Seq(Experts)
  BY <1>1, <1>2 DEF HotInv, TypeOK
<1>5. WindowRow(Len(key) + 1) = ZeroRow
  BY <1>4 DEF WindowRow
<1>6. \A i \in DOMAIN key : WindowRow(i) = key[i]
  BY <1>4 DEF WindowRow
<1>7. /\ got' \in [Experts -> Bundle]
      /\ \A e \in Experts : got'[e] = IF e \in S THEN e ELSE None
  <2> DEFINE i(e) == CHOOSE i \in DOMAIN key : key[i] = e
             R(e) == IF e \notin S THEN None
                     ELSE IF e \in ToSet(key) THEN WindowRow(i(e))
                     ELSE IF WindowRow(Len(key) + 1) = ZeroRow THEN Build(e)
                     ELSE None
  <2>1. ASSUME NEW e \in Experts
        PROVE  R(e) = IF e \in S THEN e ELSE None
    <3>1. e \in ToSet(key) => i(e) \in DOMAIN key /\ key[i(e)] = e
      BY DEF ToSet
    <3>2. Build(e) = e
      BY <1>1, <1>2, BuildOwn
    <3> HIDE DEF i
    <3> QED BY <1>5, <1>6, <3>1, <3>2
  <2>2. got' = [e \in Experts |-> R(e)]
    BY DEF HotPrefill
  <2> HIDE DEF R
  <2> QED BY <2>1, <2>2 DEF Bundle, Rows
<1>8. \A e \in S : e # None
  BY <1>3, CacheAssumption DEF None
<1>9. want = {} /\ todo = {} /\ missing = {}
  BY <1>1, <1>2 DEF CallInv, Outside, TypeOK
<1>10. TypeOK'
  BY <1>1, <1>2, <1>3, <1>7, <1>9 DEF TypeOK, stores, pool, hot, Places
<1>11. HotInv'
  BY <1>1, <1>2, HotFrame
<1>12. FutureInv' /\ QueueInv' /\ BuildInv'
  BY <1>1, <1>2, PoolFrame DEF pool
<1>13. CallInv'
  BY <1>1, <1>2, <1>3, <1>7, <1>8 DEF CallInv, Outside, Searching, pool
<1>14. StoreInv'
  BY <1>1, <1>2, <1>7 DEF StoreInv, stores, pool
<1>15. NoOrphanPrefetch'
  BY <1>1, <1>2, OrphanFrame DEF pool
<1> QED BY <1>10, <1>11, <1>12, <1>13, <1>14, <1>15 DEF IInv

(* What the pool has not started is cancelled. *)
LEMMA CloseInv ==
  ASSUME IInv, Close
  PROVE  IInv'
<1> USE DEF Close
<1>1. TypeOK /\ HotInv /\ FutureInv /\ QueueInv /\ BuildInv /\ CallInv
      /\ StoreInv /\ NoOrphanPrefetch
  BY DEF IInv
<1>2. pc' = pc /\ futs \in [FutureIds -> FutureType]
      /\ queue \in Seq(FutureIds)
  BY <1>1 DEF TypeOK
<1>3. ASSUME NEW f \in FutureIds
      PROVE  /\ futs'[f] \in FutureType
             /\ \/ futs'[f] = futs[f]
                \/ /\ futs[f].st = "queued" /\ futs'[f].st = "failed"
                   /\ futs'[f].exp = futs[f].exp /\ futs'[f].cb = futs[f].cb
                   /\ futs'[f].val = futs[f].val
  <2>1. futs[f] \in FutureType
    BY <1>2
  <2>2. CASE f \in ToSet(queue)
    <3>1. futs[f].st = "queued"
      BY <1>1, <2>2 DEF ToSet, QueueInv
    <3> QED BY <2>1, <2>2, <3>1 DEF FutureType
  <2>3. CASE f \notin ToSet(queue)
    BY <2>1, <2>3
  <2> QED BY <2>2, <2>3
<1>4. futs' \in [FutureIds -> FutureType]
  BY <1>3
<1>5. TypeOK'
  <2>1. <<>> \in Seq(FutureIds)
    OBVIOUS
  <2> QED BY <1>1, <1>4, <2>1 DEF TypeOK, stores, hot, call
<1>6. HotInv'
  BY <1>1, HotStays
<1>7. FutureInv'
  <2> SUFFICES ASSUME NEW f \in FutureIds
               PROVE  /\ futs'[f].st = "free" => futs'[f].exp = None
                      /\ futs'[f].st # "free" => futs'[f].exp \in Experts
                      /\ futs'[f].st = "done" => futs'[f].val # None
                      /\ futs'[f].cb = "ran" =>
                           futs'[f].st \in {"done", "failed"}
    BY DEF FutureInv, Finished
  <2>1. CASE futs'[f] = futs[f]
    BY <1>1, <2>1 DEF FutureInv, Finished
  <2>2. CASE futs[f].st = "queued" /\ futs'[f].st = "failed"
             /\ futs'[f].exp = futs[f].exp /\ futs'[f].cb = futs[f].cb
    BY <1>1, <2>2 DEF FutureInv
  <2> QED BY <1>3, <2>1, <2>2
<1>8. QueueInv'
  BY DEF QueueInv
<1>9. BuildInv'
  BY <1>1, <1>3 DEF BuildInv, hot, Settled
<1>10. CallInv'
  BY <1>1, <1>3 DEF CallInv, call
<1>11. StoreInv'
  BY <1>1, <1>3 DEF StoreInv, stores, call
<1>12. NoOrphanPrefetch'
  <2>1. \A e \in Experts : inflight[e] # None => inflight[e] \in FutureIds
    BY <1>1 DEF TypeOK
  <2>2. UNCHANGED <<inflight, attach>>
    OBVIOUS
  <2>3. \A f \in FutureIds :
          /\ futs'[f].exp = futs[f].exp /\ futs'[f].cb = futs[f].cb
          /\ futs[f].st = "free" => futs'[f].st = "free"
    BY <1>3
  <2> HIDE DEF Close
  <2> QED BY <1>1, <2>1, <2>2, <2>3 DEF NoOrphanPrefetch
<1> QED BY <1>5, <1>6, <1>7, <1>8, <1>9, <1>10, <1>11, <1>12 DEF IInv

-----------------------------------------------------------------------------
(* A layer just built satisfies the invariant. *)
LEMMA InitInv == Init => IInv
<1> SUFFICES ASSUME Init PROVE IInv
  OBVIOUS
<1> USE DEF Init
<1>1. /\ <<>> \in Seq(Entries) /\ <<>> \in Seq(Rows) /\ <<>> \in Seq(Experts)
      /\ <<>> \in Seq(FutureIds)
  OBVIOUS
<1>2. FreeFuture \in FutureType /\ FreeFuture.st = "free"
      /\ FreeFuture.exp = None /\ FreeFuture.cb = "none"
      /\ FreeFuture.val = None
  BY <1>1 DEF FreeFuture, FutureType, Bundle
<1>3. \A f \in FutureIds : futs[f] = FreeFuture
  OBVIOUS
<1>4. NoBundles \in [Experts -> Bundle]
      /\ \A e \in Experts : NoBundles[e] = None
  BY DEF NoBundles, Bundle
<1>5. Cardinality({e \in Experts : pinned[e] # None}) <= opts.pins
  <2>1. {e \in Experts : pinned[e] # None} = {}
    BY <1>4
  <2>2. opts.pins \in Nat
    BY CacheAssumption
  <2>3. Cardinality({}) = 0
    BY FS_EmptySet
  <2>4. 0 <= opts.pins
    BY <2>2
  <2> QED BY <2>1, <2>3, <2>4
<1>6. WithinBudget(lru, LruSlots) /\ WithinBudget(buf, BufferCap)
  BY CacheAssumption DEF WithinBudget
<1>7. TypeOK
  BY <1>1, <1>2, <1>4, <1>5, <1>6 DEF TypeOK, Bundle, Places
<1>8. HotInv
  BY DEF HotInv, Settled
<1>9. FutureInv
  BY <1>2, <1>3 DEF FutureInv
<1>10. QueueInv
  BY DEF QueueInv
<1>11. BuildInv
  BY <1>2, <1>3 DEF BuildInv
<1>12. CallInv
  BY DEF CallInv, Outside, Searching
<1>13. StoreInv
  BY <1>2, <1>3, <1>4 DEF StoreInv, Own
<1>14. NoOrphanPrefetch
  BY <1>2, <1>3 DEF NoOrphanPrefetch
<1> QED BY <1>7, <1>8, <1>9, <1>10, <1>11, <1>12, <1>13, <1>14 DEF IInv

(* Every step of the main thread and of the pool keeps the invariant. *)
LEMMA NextInv ==
  ASSUME IInv, [Next]_vars
  PROVE  IInv'
<1>1. CASE EngineCall
  <2>1. ASSUME NEW S \in CallSets,
               GetBundles(S) \/ Prefetch(S) \/ HotPrefill(S)
        PROVE  IInv'
    BY <2>1, GetBundlesInv, PrefetchInv, HotPrefillInv
  <2>2. ASSUME NEW S \in SUBSET Experts, RefreshHotPins(S)
        PROVE  IInv'
    BY <2>2, RefreshHotPinsInv
  <2>3. ASSUME NEW k \in HotKeys, LoadHotLayer(k)
        PROVE  IInv'
    BY <2>3, LoadHotLayerInv
  <2>4. CASE MaterializeHot \/ DematerializeHot
    BY <2>4, WindowInv
  <2>5. CASE Close
    BY <2>5, CloseInv
  <2> QED BY <1>1, <2>1, <2>2, <2>3, <2>4, <2>5 DEF EngineCall
<1>2. CASE MainStep
  <2>1. CASE NextPhase("buffer", "inflight")
    BY <2>1, NextPhaseInv
  <2>2. CASE NextPhase("inflight", "build")
    BY <2>2, NextPhaseInv
  <2>3. CASE Promote("putBuffer", "buffer")
    BY <2>3, PromoteInv
  <2>4. CASE Promote("putInflight", "inflight")
    BY <2>4, PromoteInv
  <2>5. CASE /\ pc = "build" /\ todo = {} /\ pc' = "serve"
             /\ UNCHANGED <<stores, pool, hot, call, newkey, closed, tainted>>
    BY <2>5, NothingToBuildInv
  <2>6. ASSUME NEW f \in FutureIds, AttachCallback(f)
        PROVE  IInv'
    BY <2>6, AttachCallbackInv
  <2>7. CASE BufferPop
    BY <2>7, BufferPopInv
  <2>8. CASE InflightGet
    BY <2>8, InflightGetInv
  <2>9. CASE InflightResult
    BY <2>9, InflightResultInv
  <2>10. CASE InflightPop
    BY <2>10, InflightPopInv
  <2>11. CASE BuildMissing
    BY <2>11, BuildMissingInv
  <2>12. CASE Serve
    BY <2>12, ServeInv
  <2>13. CASE SetHotKey
    BY <2>13, SetHotKeyInv
  <2>14. CASE SetHotSet
    BY <2>14, SetHotSetInv
  <2> QED BY <1>2, <2>1, <2>2, <2>3, <2>4, <2>5, <2>6, <2>7, <2>8, <2>9,
             <2>10, <2>11, <2>12, <2>13, <2>14 DEF MainStep
<1>3. CASE PoolStep
  <2>1. CASE PoolStart
    BY <2>1, PoolStartInv
  <2>2. ASSUME NEW f \in FutureIds, BuildStep(f) \/ PoolCallback(f)
        PROVE  IInv'
    BY <2>2, BuildCheckInv, BuildIndexInv, BuildStackInv, BuildSliceInv,
       PoolCallbackInv DEF BuildStep
  <2> QED BY <1>3, <2>1, <2>2 DEF PoolStep
<1>4. CASE UNCHANGED vars
  <2>1. UNCHANGED <<stores, pool, hot, pc, call, newkey, closed, tainted>>
    BY <1>4 DEF vars
  <2> USE <2>1 DEF stores, pool, hot, call
  <2>2. TypeOK'
    BY DEF IInv, TypeOK
  <2>3. HotInv'
    BY HotStays DEF IInv
  <2>4. FutureInv' /\ QueueInv'
    BY DEF IInv, FutureInv, Finished, QueueInv
  <2>5. BuildInv'
    BY DEF IInv, BuildInv, Settled
  <2>6. CallInv'
    BY DEF IInv, CallInv
  <2>7. StoreInv'
    BY DEF IInv, StoreInv
  <2>8. NoOrphanPrefetch'
    BY DEF IInv, NoOrphanPrefetch
  <2> QED BY <2>2, <2>3, <2>4, <2>5, <2>6, <2>7, <2>8 DEF IInv
<1> QED BY <1>1, <1>2, <1>3, <1>4 DEF Next

(* The invariant holds throughout. *)
THEOREM InvariantHolds == Spec => []IInv
<1>1. Init => IInv
  BY InitInv
<1>2. IInv /\ [Next]_vars => IInv'
  BY NextInv
<1> QED BY <1>1, <1>2, PTL DEF Spec

(* Every variable keeps its type: the pins stay within hot_per_layer, the  *)
(* LRU and the prefetch buffer within their budgets.                       *)
THEOREM TypeCorrect == Spec => []TypeOK
<1>1. IInv => TypeOK
  BY DEF IInv
<1> QED BY <1>1, InvariantHolds, PTL

(* Whatever the pool's builds and callbacks do while a forward searches    *)
(* the pins, the LRU, the buffer and the futures, the forward returns a    *)
(* bundle for every expert it asked for, and every bundle held anywhere is *)
(* its expert's own, unless its build overlapped load_hot_layer.           *)
THEOREM BundlesAreOwn == Spec => []OwnBundle
<1>1. IInv => OwnBundle
  <2> SUFFICES ASSUME IInv PROVE OwnBundle
    OBVIOUS
  <2>1. TypeOK /\ CallInv /\ StoreInv
    BY DEF IInv
  <2>2. lru \in Good(LruSlots, tainted) /\ LruSlots \in Nat
        /\ buf \in Good(BufferCap, tainted) /\ BufferCap \in Nat
    BY <2>1, CachesGood, CacheAssumption
  <2>3. ASSUME NEW e \in Experts \ tainted, NEW c \in {lru, buf},
               e \in CachedKeys(c)
        PROVE  CachePeek(c, e) = e
    BY <2>2, <2>3, PeekGood
  <2> QED BY <2>1, <2>3 DEF OwnBundle, CallInv, StoreInv
<1> QED BY <1>1, InvariantHolds, PTL

(* Each registered future is of its expert and has its callback still to   *)
(* run, and every future of the pool has a callback or is about to get     *)
(* one: no expert stays blocked for prefetching.                           *)
THEOREM PrefetchesRegistered == Spec => []NoOrphanPrefetch
<1>1. IInv => NoOrphanPrefetch
  BY DEF IInv
<1> QED BY <1>1, InvariantHolds, PTL

=============================================================================
