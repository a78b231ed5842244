------------------------- MODULE WeightToolsProofs --------------------------
(***************************************************************************)
(* What the repacking tools leave on the disk.                             *)
(*                                                                         *)
(* RepackIsSound is about the iOS tool, for any checkpoints, each with its *)
(* own layers, experts, tensor sizes and shards, and after any runs and    *)
(* interruptions of pack, resident and verify.                             *)
(* A file is a flattened sequence of sequences twice over: a shard of its  *)
(* tensors, a layer of its blocks and a block of its parts.  The first     *)
(* lemmas say where in a flattened sequence what is; from them follow that *)
(* an entry of the index leads to its tensor, that slice_of returns the    *)
(* expert's part, that the file being written is the first blocks of its   *)
(* layer, and that a passing verify identifies every layer experts.json    *)
(* counts, although it samples the blocks and takes layout, layers and     *)
(* experts from experts.json, which may be of another checkpoint.          *)
(*                                                                         *)
(* GgufIsSound is about the GGUF tool, for any tensors, block, word, chunk *)
(* and header sizes: the file is again tensors of rows of blocks, padded   *)
(* in between, and the offsets were recorded before any of it was written. *)
(***************************************************************************)
EXTENDS WeightTools, Induction, SequenceTheorems, TLAPS

-----------------------------------------------------------------------------
(* Flattened sequences.                                                     *)

(* g[i] joins the first i of the sequences. *)
Joins(g, seqs, n) ==
  g[0] = <<>> /\ \A i \in 1..n : g[i] = g[i - 1] \o seqs[i]

(* FlattenSeq joins its sequences. *)
LEMMA FlattenIs ==
  ASSUME NEW S, NEW n \in Nat, NEW seqs \in [1..n -> Seq(S)]
  PROVE  \E g \in [0..n -> Seq(S)] :
           Joins(g, seqs, n) /\ FlattenSeq(seqs) = g[n]
<1> DEFINE C == Seq(S)
           F == [p \in C \X (1..n) |-> p[1] \o seqs[p[2]]]
<1>1. F \in [C \X (1..n) -> C] /\ <<>> \in C
  <2>1. ASSUME NEW p \in C \X (1..n) PROVE p[1] \o seqs[p[2]] \in C
    BY ConcatProperties
  <2> QED BY <2>1
<1>2. \A c \in C, i \in 1..n : F[<<c, i>>] = c \o seqs[i]
  OBVIOUS
<1> HIDE DEF F, C
<1>3. PICK g \in [0..n -> C] : Iterates(g, n, <<>>, F)
  BY <1>1, IterateExists
<1>4. ASSUME NEW i \in 1..n PROVE g[i] = g[i - 1] \o seqs[i]
  <2>1. i - 1 \in 0..n
    OBVIOUS
  <2>2. g[i] = F[<<g[i - 1], i>>]
    BY <1>3 DEF Iterates
  <2> QED BY <1>2, <2>1, <2>2
<1>5. Joins(g, seqs, n)
  BY <1>3, <1>4 DEF Joins, Iterates
<1>7. ASSUME 1 \in 1..n
      PROVE  g[1] = <<>> \o seqs[1] /\ seqs[1] \in Seq(S)
  <2>1. g[1] = g[1 - 1] \o seqs[1] /\ 1 - 1 = 0
    BY <1>4, <1>7
  <2>2. g[0] = <<>>
    BY <1>3 DEF Iterates
  <2>3. seqs[1] \in Seq(S)
    BY <1>7
  <2> QED BY <2>1, <2>2, <2>3
<1>6. FlattenSeq(seqs) = g[n]
  <2>1. Len(seqs) = n
    OBVIOUS
  <2>2. CASE n = 0
    <3>1. seqs = <<>>
      BY <2>2
    <3> QED BY <1>3, <2>1, <2>2, <3>1 DEF FlattenSeq, Iterates
  <2>3. CASE n # 0
    <3> DEFINE Is(f) == f = [i \in 1..n |-> IF i = 1 THEN seqs[i]
                                            ELSE f[i - 1] \o seqs[i]]
               G == CHOOSE f : Is(f)
               r == [i \in 1..n |-> g[i]]
    <3>1. FlattenSeq(seqs) = G[n]
      BY <2>1, <2>3 DEF FlattenSeq
    <3>2. Is(r)
      <4>1. ASSUME NEW i \in 1..n
            PROVE  g[i] = IF i = 1 THEN seqs[i] ELSE r[i - 1] \o seqs[i]
        <5>1. CASE i = 1
          <6>1. g[1] = <<>> \o seqs[1] /\ seqs[1] \in Seq(S)
            BY <1>7, <5>1
          <6> QED BY <5>1, <6>1
        <5>2. CASE i # 1
          <6>1. i - 1 \in 1..n
            BY <5>2
          <6> QED BY <1>4, <5>2, <6>1
        <5> QED BY <5>1, <5>2
      <4> QED BY <4>1
    <3>3. Is(G)
      <4> HIDE DEF r
      <4> QED BY <3>2
    <3> HIDE DEF G, r
    <3>4. \A i \in 1..n : G[i] = IF i = 1 THEN seqs[i]
                                 ELSE G[i - 1] \o seqs[i]
      BY <3>3
    <3> DEFINE P == {i \in Nat : i \in 1..n => G[i] = g[i]}
    <3>5. 0 \in P
      OBVIOUS
    <3>6. ASSUME NEW i \in 1..n, i - 1 \in P PROVE i \in P
      <4>1. CASE i = 1
        <5>1. g[1] = <<>> \o seqs[1] /\ seqs[1] \in Seq(S)
          BY <1>7, <4>1
        <5>2. G[1] = seqs[1]
          BY <3>4, <4>1
        <5> QED BY <4>1, <5>1, <5>2
      <4>2. CASE i # 1
        <5>1. G[i - 1] = g[i - 1]
          BY <3>6, <4>2
        <5>2. G[i] = G[i - 1] \o seqs[i]
          BY <3>4, <4>2
        <5>3. g[i] = g[i - 1] \o seqs[i]
          BY <1>4
        <5>4. G[i] = g[i]
          BY <5>1, <5>2, <5>3
        <5> QED BY <5>4
      <4> QED BY <4>1, <4>2
    <3>7. P \in SUBSET Nat
      OBVIOUS
    <3> HIDE DEF P
    <3>8. n \in P
      <4>1. Climbs(P, n)
        BY <3>6 DEF Climbs
      <4>2. \A i \in 0..n : i \in P
        BY <3>5, <3>7, <4>1, UptoInduction
      <4> QED BY <4>2
    <3> QED BY <2>3, <3>1, <3>8 DEF P
  <2> QED BY <2>2, <2>3
<1> QED BY <1>5, <1>6 DEF C

(* One more sequence at the end. *)
LEMMA FlattenAppend ==
  ASSUME NEW S, NEW n \in Nat, NEW seqs \in [1..(n + 1) -> Seq(S)],
         NEW front \in [1..n -> Seq(S)], \A i \in 1..n : front[i] = seqs[i]
  PROVE  FlattenSeq(seqs) = FlattenSeq(front) \o seqs[n + 1]
<1>1. PICK g \in [0..(n + 1) -> Seq(S)] :
        Joins(g, seqs, n + 1) /\ FlattenSeq(seqs) = g[n + 1]
  <2> DEFINE m == n + 1
  <2>1. m \in Nat /\ seqs \in [1..m -> Seq(S)]
    OBVIOUS
  <2> HIDE DEF m
  <2>2. \E g \in [0..m -> Seq(S)] :
          Joins(g, seqs, m) /\ FlattenSeq(seqs) = g[m]
    BY <2>1, FlattenIs
  <2> QED BY <2>2 DEF m
<1>2. PICK h \in [0..n -> Seq(S)] :
        Joins(h, front, n) /\ FlattenSeq(front) = h[n]
  BY FlattenIs
<1> DEFINE P == {i \in Nat : i <= n => g[i] = h[i]}
<1>3. 0 \in P
  BY <1>1, <1>2 DEF Joins
<1>4. ASSUME NEW i \in 1..n, i - 1 \in P PROVE i \in P
  <2>1. g[i - 1] = h[i - 1]
    BY <1>4
  <2>2. g[i] = g[i - 1] \o seqs[i] /\ h[i] = h[i - 1] \o front[i]
    <3>1. i \in 1..(n + 1)
      OBVIOUS
    <3> QED BY <1>1, <1>2, <3>1 DEF Joins
  <2>3. g[i] = h[i]
    BY <2>1, <2>2
  <2> QED BY <2>3
<1>5. P \in SUBSET Nat
  OBVIOUS
<1> HIDE DEF P
<1>6. n \in P
  <2>1. Climbs(P, n)
    BY <1>4 DEF Climbs
  <2>2. \A i \in 0..n : i \in P
    BY <1>3, <1>5, <2>1, UptoInduction
  <2> QED BY <2>2
<1>7. g[n] = h[n]
  BY <1>6 DEF P
<1>8. g[n + 1] = g[(n + 1) - 1] \o seqs[n + 1] /\ (n + 1) - 1 = n
  <2>1. n + 1 \in 1..(n + 1) /\ (n + 1) - 1 = n
    OBVIOUS
  <2>2. \A i \in 1..(n + 1) : g[i] = g[i - 1] \o seqs[i]
    BY <1>1 DEF Joins
  <2> QED BY <2>1, <2>2
<1> QED BY <1>1, <1>2, <1>7, <1>8

(* off[i] is where the i + 1-st sequence begins. *)
Offsets(off, seqs, n) ==
  off[0] = 0 /\ \A i \in 1..n : off[i] = off[i - 1] + Len(seqs[i])

(* Each of the sequences is at its offset in flat. *)
LaidOut(flat, seqs, off, n) ==
  /\ Len(flat) = off[n]
  /\ \A i \in 1..n : \A x \in 1..Len(seqs[i]) :
       /\ off[i - 1] + x \in 1..off[n]
       /\ flat[off[i - 1] + x] = seqs[i][x]

(* What is where in a flattened sequence. *)
LEMMA FlattenAt ==
  ASSUME NEW S, NEW n \in Nat, NEW seqs \in [1..n -> Seq(S)],
         NEW off \in [0..n -> Nat], Offsets(off, seqs, n)
  PROVE  /\ FlattenSeq(seqs) \in Seq(S)
         /\ LaidOut(FlattenSeq(seqs), seqs, off, n)
<1>1. PICK g \in [0..n -> Seq(S)] :
        Joins(g, seqs, n) /\ FlattenSeq(seqs) = g[n]
  BY FlattenIs
<1> DEFINE Holds(k) ==
             /\ Len(g[k]) = off[k]
             /\ \A i \in 1..k : \A x \in 1..Len(seqs[i]) :
                  /\ off[i - 1] + x \in 1..off[k]
                  /\ g[k][off[i - 1] + x] = seqs[i][x]
           P == {k \in Nat : k <= n => Holds(k)}
<1>2. 0 \in P
  BY <1>1 DEF Joins, Offsets
<1>3. ASSUME NEW k \in 1..n, k - 1 \in P PROVE k \in P
  <2> DEFINE s == g[k - 1]
             t == seqs[k]
  <2>1. s \in Seq(S) /\ t \in Seq(S) /\ Len(s) \in Nat /\ Len(t) \in Nat
    <3>1. k - 1 \in 0..n
      OBVIOUS
    <3> QED BY <3>1, LenProperties
  <2>2. Holds(k - 1)
    BY <1>3
  <2>3. g[k] = s \o t /\ off[k] = off[k - 1] + Len(t) /\ Len(s) = off[k - 1]
    BY <1>1, <2>2 DEF Joins, Offsets
  <2>4. /\ Len(g[k]) = Len(s) + Len(t)
        /\ \A y \in 1..Len(s) : g[k][y] = s[y]
        /\ \A x \in 1..Len(t) : g[k][Len(s) + x] = t[x]
    <3> HIDE DEF s, t
    <3>1. /\ Len(s \o t) = Len(s) + Len(t)
          /\ \A y \in 1..(Len(s) + Len(t)) :
               (s \o t)[y] = IF y <= Len(s) THEN s[y] ELSE t[y - Len(s)]
      BY <2>1, ConcatProperties
    <3>2. ASSUME NEW x \in 1..Len(t) PROVE (s \o t)[Len(s) + x] = t[x]
      <4>1. Len(s) + x \in 1..(Len(s) + Len(t)) /\ ~(Len(s) + x <= Len(s))
            /\ (Len(s) + x) - Len(s) = x
        BY <2>1
      <4> QED BY <3>1, <4>1
    <3>3. ASSUME NEW y \in 1..Len(s) PROVE (s \o t)[y] = s[y]
      <4>1. y \in 1..(Len(s) + Len(t)) /\ y <= Len(s)
        BY <2>1
      <4> QED BY <3>1, <4>1
    <3> QED BY <2>3, <3>1, <3>2, <3>3
  <2>5. ASSUME NEW i \in 1..k, NEW x \in 1..Len(seqs[i])
        PROVE  /\ off[i - 1] + x \in 1..off[k]
               /\ g[k][off[i - 1] + x] = seqs[i][x]
    <3>1. CASE i = k
      <4>1. off[k - 1] + x \in 1..off[k]
        <5> HIDE DEF s, t
        <5>1. x \in 1..Len(t)
          BY <3>1 DEF t
        <5> DEFINE a == off[k - 1]
                   b == off[k]
                   c == Len(t)
        <5>2. a \in Nat /\ c \in Nat /\ x \in 1..c /\ b = a + c
          BY <2>1, <2>3, <5>1
        <5> HIDE DEF a, b, c
        <5>3. a + x \in 1..b
          BY <5>2
        <5> QED BY <5>3 DEF a, b
      <4>2. g[k][Len(s) + x] = t[x]
        BY <2>4, <3>1
      <4> QED BY <2>3, <3>1, <4>1, <4>2
    <3>2. CASE i # k
      <4>1. i \in 1..(k - 1)
        BY <3>2
      <4>2. off[i - 1] + x \in 1..off[k - 1]
            /\ s[off[i - 1] + x] = seqs[i][x]
        BY <2>2, <4>1
      <4> HIDE DEF s, t
      <4>3. off[i - 1] + x \in 1..Len(s) /\ off[i - 1] + x \in 1..off[k]
        <5> DEFINE a == off[i - 1]
                   b == off[k - 1]
                   c == off[k]
        <5>1. /\ a \in Nat /\ b \in Nat /\ Len(t) \in Nat /\ c = b + Len(t)
              /\ Len(s) = b /\ a + x \in 1..b
          BY <2>1, <2>3, <4>1, <4>2
        <5> HIDE DEF a, b, c
        <5>2. a + x \in 1..Len(s) /\ a + x \in 1..c
          BY <5>1
        <5> QED BY <5>2 DEF a, c
      <4> QED BY <2>4, <4>2, <4>3
    <3> QED BY <3>1, <3>2
  <2>6. Len(g[k]) = off[k]
    BY <2>3, <2>4
  <2> QED BY <2>5, <2>6
<1>4. P \in SUBSET Nat
  OBVIOUS
<1> HIDE DEF P, Holds
<1>5. n \in P
  <2>1. Climbs(P, n)
    BY <1>3 DEF Climbs
  <2>2. \A i \in 0..n : i \in P
    BY <1>2, <1>4, <2>1, UptoInduction
  <2> QED BY <2>2
<1>6. Holds(n)
  BY <1>5 DEF P
<1> QED BY <1>1, <1>6 DEF Holds, LaidOut

-----------------------------------------------------------------------------
(* Running totals.                                                          *)

(* off adds up the sizes. *)
Adds(off, sizes, n) ==
  off[0] = 0 /\ \A i \in 1..n : off[i] = off[i - 1] + sizes[i]

(* The running totals add up their sizes. *)
LEMMA TotalsAdd ==
  ASSUME NEW n \in Nat, NEW sizes \in [1..n -> Nat]
  PROVE  /\ RunningTotals(sizes) \in [0..n -> Nat]
         /\ Adds(RunningTotals(sizes), sizes, n)
<1> DEFINE F == [p \in Nat \X (1..n) |-> p[1] + sizes[p[2]]]
           Is(f) == f = [i \in 0..n |-> IF i = 0 THEN 0
                                        ELSE f[i - 1] + sizes[i]]
           G == CHOOSE f : Is(f)
<1>1. F \in [Nat \X (1..n) -> Nat] /\ 0 \in Nat
  OBVIOUS
<1>2. \A c \in Nat, i \in 1..n : F[<<c, i>>] = c + sizes[i]
  OBVIOUS
<1> HIDE DEF F
<1>3. PICK g \in [0..n -> Nat] : Iterates(g, n, 0, F)
  BY <1>1, IterateExists
<1>4. Is(g)
  <2>1. ASSUME NEW i \in 0..n
        PROVE  g[i] = IF i = 0 THEN 0 ELSE g[i - 1] + sizes[i]
    <3>1. CASE i = 0
      BY <1>3, <3>1 DEF Iterates
    <3>2. CASE i # 0
      <4>1. i \in 1..n /\ i - 1 \in 0..n
        BY <3>2
      <4>2. g[i] = F[<<g[i - 1], i>>]
        BY <1>3, <4>1 DEF Iterates
      <4>3. g[i - 1] \in Nat
        BY <4>1
      <4> QED BY <1>2, <3>2, <4>1, <4>2, <4>3
    <3> QED BY <3>1, <3>2
  <2> QED BY <2>1
<1>5. Is(G)
  BY <1>4
<1>6. RunningTotals(sizes) = G
  <2>1. Len(sizes) = n
    OBVIOUS
  <2> QED BY <2>1 DEF RunningTotals
<1> HIDE DEF G
<1>7. \A i \in 0..n : G[i] = IF i = 0 THEN 0 ELSE G[i - 1] + sizes[i]
  BY <1>5
<1>8. G[0] = 0
  BY <1>7
<1>9. ASSUME NEW i \in 1..n PROVE G[i] = G[i - 1] + sizes[i]
  <2>1. i \in 0..n /\ i # 0
    OBVIOUS
  <2> QED BY <1>7, <2>1
<1>10. Adds(G, sizes, n)
  BY <1>8, <1>9 DEF Adds
<1> DEFINE P == {i \in Nat : i <= n => G[i] \in Nat}
<1>11. 0 \in P
  BY <1>8
<1>12. ASSUME NEW i \in 1..n, i - 1 \in P PROVE i \in P
  <2>1. G[i - 1] \in Nat /\ sizes[i] \in Nat
    BY <1>12
  <2>2. G[i] \in Nat
    BY <1>9, <2>1
  <2> QED BY <2>2
<1>13. P \in SUBSET Nat /\ Climbs(P, n)
  BY <1>12 DEF Climbs
<1> HIDE DEF P
<1>14. \A i \in 0..n : i \in P
  BY <1>11, <1>13, UptoInduction
<1>15. \A i \in 0..n : G[i] \in Nat
  BY <1>14 DEF P
<1>16. G \in [0..n -> Nat]
  <2>1. G = [i \in 0..n |-> G[i]]
    BY <1>5
  <2> QED BY <1>15, <2>1
<1> QED BY <1>6, <1>10, <1>16

(* Every element of the sequences is somewhere in flat. *)
HasAll(flat, seqs, n) ==
  \A i \in 1..n : \A x \in 1..Len(seqs[i]) :
    \E k \in 1..Len(flat) : flat[k] = seqs[i][x]

(* Flattening loses nothing. *)
LEMMA FlattenHas ==
  ASSUME NEW S, NEW n \in Nat, NEW seqs \in [1..n -> Seq(S)]
  PROVE  FlattenSeq(seqs) \in Seq(S) /\ HasAll(FlattenSeq(seqs), seqs, n)
<1> DEFINE sizes == [i \in 1..n |-> Len(seqs[i])]
           off == RunningTotals(sizes)
<1>1. sizes \in [1..n -> Nat] /\ \A i \in 1..n : sizes[i] = Len(seqs[i])
  BY LenProperties
<1> HIDE DEF sizes
<1>2. off \in [0..n -> Nat] /\ Adds(off, sizes, n)
  BY <1>1, TotalsAdd
<1> HIDE DEF off
<1>3. Offsets(off, seqs, n)
  BY <1>1, <1>2 DEF Offsets, Adds
<1>4. FlattenSeq(seqs) \in Seq(S) /\ LaidOut(FlattenSeq(seqs), seqs, off, n)
  BY <1>2, <1>3, FlattenAt
<1> QED BY <1>4 DEF LaidOut, HasAll

-----------------------------------------------------------------------------
(* The checkpoint.                                                          *)

Names(m) == {Tensor(l, p) : l \in LayerIds(m), p \in ToSet(Parts)}
           \cup {<<"resident", r>> : r \in ToSet(Residents[m])}

(* The sizes as numbers. *)
LEMMA Sizes ==
  ASSUME NEW m \in Models
  PROVE
  /\ Layers[m] \in Nat /\ Layers[m] >= 1
  /\ NumExperts[m] \in Nat /\ NumExperts[m] >= 1
  /\ Len(Parts) \in Nat /\ Len(Parts) >= 1 /\ Len(Residents[m]) \in Nat
  /\ 0 \in LayerIds(m)
  /\ \A j \in 1..Len(Parts) : Parts[j] \in STRING /\ Parts[j] \in ToSet(Parts)
  /\ \A j \in 1..Len(Residents[m]) : /\ Residents[m][j] \in STRING
                                     /\ Residents[m][j] \in ToSet(Residents[m])
  /\ \A l \in LayerIds(m) : /\ ShardOf[m][l] \in STRING
                            /\ ShardOf[m][l] \in Files(m)
<1>1. Parts \in Seq(STRING) /\ Parts # <<>> /\ Residents[m] \in Seq(STRING)
  BY NameAssumption
<1>2. Len(Parts) \in Nat /\ Len(Parts) # 0 /\ Len(Residents[m]) \in Nat
  BY <1>1, LenProperties, EmptySeq
<1>3. /\ DOMAIN Parts = 1..Len(Parts)
      /\ DOMAIN (Residents[m]) = 1..Len(Residents[m])
  BY <1>1, LenProperties
<1>4. \A j \in 1..Len(Parts) : Parts[j] \in STRING /\ Parts[j] \in ToSet(Parts)
  BY <1>1, <1>3, ElementOfSeq DEF ToSet
<1>5. \A j \in 1..Len(Residents[m]) :
        Residents[m][j] \in STRING /\ Residents[m][j] \in ToSet(Residents[m])
  BY <1>1, <1>3, ElementOfSeq DEF ToSet
<1>6. /\ Layers[m] \in Nat /\ Layers[m] >= 1
      /\ NumExperts[m] \in Nat /\ NumExperts[m] >= 1
  <2>1. Layers[m] \in Nat \ {0} /\ NumExperts[m] \in Nat \ {0}
    BY SizeAssumption
  <2> QED BY <2>1
<1>7. 0 \in LayerIds(m)
  BY <1>6 DEF LayerIds
<1>8. \A l \in LayerIds(m) : /\ ShardOf[m][l] \in STRING
                            /\ ShardOf[m][l] \in Files(m)
  BY NameAssumption DEF LayerIds, Files
<1> QED BY <1>2, <1>4, <1>5, <1>6, <1>7, <1>8

(* A part of an expert has at least a byte, and a tensor the bytes of all  *)
(* experts.                                                                *)
LEMMA TensorSize1 ==
  ASSUME NEW m \in Models, NEW l \in LayerIds(m), NEW p \in ToSet(Parts)
  PROVE  /\ PartSize[<<m, l, p>>] \in Nat /\ PartSize[<<m, l, p>>] >= 1
         /\ Size(m, Tensor(l, p)) = NumExperts[m] * PartSize[<<m, l, p>>]
<1>1. PartSize[<<m, l, p>>] \in Nat /\ PartSize[<<m, l, p>>] >= 1
  BY SizeAssumption DEF LayerIds
<1>2. /\ Tensor(l, p)[1] = "switch_mlp" /\ Tensor(l, p)[2] = l
      /\ Tensor(l, p)[3] = p
  BY DEF Tensor
<1>3. "switch_mlp" # "resident"
  OBVIOUS
<1> QED BY <1>1, <1>2, <1>3 DEF Size

(* Sizes are numbers. *)
LEMMA SizeType ==
  ASSUME NEW m \in Models, NEW name \in Names(m)
  PROVE  Size(m, name) \in Nat
<1>1. CASE \E r \in ToSet(Residents[m]) : name = <<"resident", r>>
  BY <1>1, SizeAssumption DEF Size
<1>2. CASE \E l \in LayerIds(m), p \in ToSet(Parts) : name = Tensor(l, p)
  <2>1. PICK l \in LayerIds(m), p \in ToSet(Parts) : name = Tensor(l, p)
    BY <1>2
  <2>2. PartSize[<<m, l, p>>] \in Nat /\ NumExperts[m] \in Nat
    BY TensorSize1, Sizes
  <2>3. Size(m, name) = NumExperts[m] * PartSize[<<m, l, p>>]
    BY <2>1, TensorSize1
  <2> QED BY <2>2, <2>3
<1> QED BY <1>1, <1>2 DEF Names

(* What a shard stores: every tensor of its layers, and in the first one   *)
(* the resident tensors.                                                   *)
LEMMA StoredHas ==
  ASSUME NEW m \in Models
  PROVE
  /\ \A f : Stored(m, f) \in Seq(Names(m))
  /\ \A l \in LayerIds(m), j \in 1..Len(Parts) :
       \E i \in 1..Len(Stored(m, ShardOf[m][l])) :
         Stored(m, ShardOf[m][l])[i] = Tensor(l, Parts[j])
  /\ \A j \in 1..Len(Residents[m]) :
       \E i \in 1..Len(Stored(m, ShardOf[m][0])) :
         Stored(m, ShardOf[m][0])[i] = <<"resident", Residents[m][j]>>
<1> DEFINE Rows(f) == [i \in 1..Layers[m] |->
             IF ShardOf[m][i - 1] # f THEN <<>>
             ELSE [j \in 1..Len(Parts) |-> Tensor(i - 1, Parts[j])]]
           Behind(f) == IF f # ShardOf[m][0] THEN <<>>
                      ELSE [j \in 1..Len(Residents[m]) |->
                              <<"resident", Residents[m][j]>>]
<1>1. ASSUME NEW f
      PROVE  /\ Rows(f) \in [1..Layers[m] -> Seq(Names(m))]
             /\ Behind(f) \in Seq(Names(m))
             /\ Stored(m, f) = FlattenSeq(Rows(f)) \o Behind(f)
  <2>1. ASSUME NEW i \in 1..Layers[m]
        PROVE  [j \in 1..Len(Parts) |-> Tensor(i - 1, Parts[j])]
                 \in Seq(Names(m))
    <3>1. i - 1 \in LayerIds(m)
      BY Sizes DEF LayerIds
    <3>2. \A j \in 1..Len(Parts) : Tensor(i - 1, Parts[j]) \in Names(m)
      BY <3>1, Sizes DEF Names
    <3> QED BY <3>2, Sizes
  <2>2. Rows(f) \in [1..Layers[m] -> Seq(Names(m))]
    BY <2>1
  <2>3. Behind(f) \in Seq(Names(m))
    <3>1. \A j \in 1..Len(Residents[m]) :
            <<"resident", Residents[m][j]>> \in Names(m)
      BY Sizes DEF Names
    <3> QED BY <3>1, Sizes
  <2>4. Stored(m, f) = FlattenSeq(Rows(f)) \o Behind(f)
    BY DEF Stored, Tensor
  <2> QED BY <2>2, <2>3, <2>4
<1> DEFINE Flat(f) == FlattenSeq(Rows(f))
<1>2. ASSUME NEW f
      PROVE  /\ Flat(f) \in Seq(Names(m))
             /\ \A i \in 1..Layers[m] : \A x \in 1..Len(Rows(f)[i]) :
                  \E k \in 1..Len(Flat(f)) : Flat(f)[k] = Rows(f)[i][x]
  <2> DEFINE r == Rows(f)
  <2>1. r \in [1..Layers[m] -> Seq(Names(m))] /\ Layers[m] \in Nat
    BY <1>1, Sizes
  <2> HIDE DEF r
  <2>2. FlattenSeq(r) \in Seq(Names(m)) /\ HasAll(FlattenSeq(r), r, Layers[m])
    BY <2>1, FlattenHas
  <2> QED BY <2>2 DEF r, HasAll
<1>3. ASSUME NEW f
      PROVE  /\ Stored(m, f) \in Seq(Names(m))
             /\ Len(Stored(m, f)) = Len(Flat(f)) + Len(Behind(f))
             /\ \A k \in 1..Len(Flat(f)) :
                  k \in 1..Len(Stored(m, f)) /\ Stored(m, f)[k] = Flat(f)[k]
             /\ \A k \in 1..Len(Behind(f)) :
                  /\ Len(Flat(f)) + k \in 1..Len(Stored(m, f))
                  /\ Stored(m, f)[Len(Flat(f)) + k] = Behind(f)[k]
  <2> DEFINE a == Flat(f)
             b == Behind(f)
  <2>1. a \in Seq(Names(m)) /\ b \in Seq(Names(m)) /\ Stored(m, f) = a \o b
    BY <1>1, <1>2
  <2> HIDE DEF a, b
  <2>2. Len(a) \in Nat /\ Len(b) \in Nat /\ a \o b \in Seq(Names(m))
        /\ Len(a \o b) = Len(a) + Len(b)
    BY <2>1, LenProperties, ConcatProperties
  <2>3. \A k \in 1..(Len(a) + Len(b)) :
          (a \o b)[k] = IF k <= Len(a) THEN a[k] ELSE b[k - Len(a)]
    BY <2>1, ConcatProperties
  <2>4. ASSUME NEW k \in 1..Len(a)
        PROVE  k \in 1..Len(a \o b) /\ (a \o b)[k] = a[k]
    <3>1. k \in 1..(Len(a) + Len(b)) /\ k <= Len(a)
      BY <2>2
    <3> QED BY <2>2, <2>3, <3>1
  <2>5. ASSUME NEW k \in 1..Len(b)
        PROVE  /\ Len(a) + k \in 1..Len(a \o b)
               /\ (a \o b)[Len(a) + k] = b[k]
    <3>1. /\ Len(a) + k \in 1..(Len(a) + Len(b)) /\ ~(Len(a) + k <= Len(a))
          /\ (Len(a) + k) - Len(a) = k
      BY <2>2
    <3> QED BY <2>2, <2>3, <3>1
  <2> QED BY <2>1, <2>2, <2>4, <2>5 DEF a, b
<1>4. ASSUME NEW l \in LayerIds(m), NEW j \in 1..Len(Parts)
      PROVE  \E i \in 1..Len(Stored(m, ShardOf[m][l])) :
               Stored(m, ShardOf[m][l])[i] = Tensor(l, Parts[j])
  <2> DEFINE f == ShardOf[m][l]
  <2>1. l + 1 \in 1..Layers[m] /\ (l + 1) - 1 = l
    BY Sizes DEF LayerIds
  <2>2. Rows(f)[l + 1] = [x \in 1..Len(Parts) |-> Tensor(l, Parts[x])]
    BY <2>1
  <2>3. j \in 1..Len(Rows(f)[l + 1]) /\ Rows(f)[l + 1][j] = Tensor(l, Parts[j])
    BY <2>2, Sizes
  <2> HIDE DEF f, Rows, Behind, Flat
  <2>4. PICK k \in 1..Len(Flat(f)) : Flat(f)[k] = Tensor(l, Parts[j])
    BY <1>2, <2>1, <2>3
  <2>5. k \in 1..Len(Stored(m, f)) /\ Stored(m, f)[k] = Tensor(l, Parts[j])
    BY <1>3, <2>4
  <2> QED BY <2>5 DEF f
<1>5. ASSUME NEW j \in 1..Len(Residents[m])
      PROVE  \E i \in 1..Len(Stored(m, ShardOf[m][0])) :
               Stored(m, ShardOf[m][0])[i] = <<"resident", Residents[m][j]>>
  <2> DEFINE f == ShardOf[m][0]
  <2>1. /\ j \in 1..Len(Behind(f))
        /\ Behind(f)[j] = <<"resident", Residents[m][j]>>
    BY Sizes
  <2> HIDE DEF f, Rows, Behind, Flat
  <2>2. /\ Len(Flat(f)) + j \in 1..Len(Stored(m, f))
        /\ Stored(m, f)[Len(Flat(f)) + j] = <<"resident", Residents[m][j]>>
    BY <1>3, <2>1
  <2> QED BY <2>2 DEF f
<1>6. \A f : Stored(m, f) \in Seq(Names(m))
  BY <1>3
<1> QED BY <1>4, <1>5, <1>6

-----------------------------------------------------------------------------
(* Slices.                                                                  *)

(* The n elements of s behind the first a. *)
Stretch(s, a, n) == [i \in 1..n |-> s[a + i]]

(* A slice within a sequence. *)
LEMMA SliceIs ==
  ASSUME NEW S, NEW s \in Seq(S), NEW a \in Nat, NEW n \in Nat,
         a + n <= Len(s)
  PROVE  Slice(s, a, n) = Stretch(s, a, n)
<1> DEFINE b == a + 1
           c == a + n
           t == SubSeq(s, b, c)
<1>1. b \in Int /\ c \in Int /\ (c - b) + 1 = n /\ (b <= c \/ n = 0)
  OBVIOUS
<1>2. \A i \in b..c : s[i] \in S
  <2>1. ASSUME NEW i \in b..c PROVE s[i] \in S
    <3>1. Len(s) \in Nat
      BY LenProperties
    <3>2. i \in 1..Len(s)
      BY <3>1
    <3> QED BY <3>2, ElementOfSeq
  <2> QED BY <2>1
<1> HIDE DEF b, c
<1>3. /\ t \in Seq(S) /\ Len(t) = IF b <= c THEN c - b + 1 ELSE 0
      /\ \A i \in 1..(c - b + 1) : t[i] = s[b + i - 1]
  BY <1>1, <1>2, SubSeqProperties
<1>4. Len(t) = n /\ \A i \in 1..n : t[i] = s[a + i]
  <2>1. \A i \in 1..n : b + i - 1 = a + i
    BY DEF b
  <2>2. \A i \in 1..n : t[i] = s[b + i - 1]
    BY <1>1, <1>3
  <2>3. \A i \in 1..n : t[i] = s[a + i]
    BY <2>1, <2>2
  <2>4. CASE b <= c
    <3>1. c - b + 1 = n
      BY <1>1
    <3> QED BY <1>3, <2>3, <2>4, <3>1
  <2>5. CASE ~(b <= c)
    <3>1. Len(t) = 0
      BY <1>3, <2>5
    <3>2. n = 0
      BY <1>1, <2>5
    <3> QED BY <2>3, <3>1, <3>2
  <2> QED BY <2>4, <2>5
<1> HIDE DEF t
<1>5. t = [i \in 1..n |-> t[i]]
  <2>1. DOMAIN t = 1..n
    BY <1>3, <1>4, LenProperties
  <2>2. t \in [1..n -> S]
    BY <1>3, <1>4, LenProperties
  <2> QED BY <2>2
<1>6. t = [i \in 1..n |-> s[a + i]]
  BY <1>4, <1>5
<1> QED BY <1>6 DEF Slice, t, b, c, Stretch

(* The bytes of the tensors and of the headers of the shards. *)
ShardBytes(m) == {m} \X (Names(m) \cup Files(m)) \X Nat

(* The bytes of a tensor. *)
LEMMA TensorBytesAre ==
  ASSUME NEW m \in Models, NEW name \in Names(m)
  PROVE  /\ TensorBytes(m, name) \in Seq(ShardBytes(m))
         /\ Len(TensorBytes(m, name)) = Size(m, name)
         /\ \A i \in 1..Size(m, name) :
              TensorBytes(m, name)[i] = <<m, name, i - 1>>
<1> DEFINE n == Size(m, name)
<1>1. n \in Nat
  BY SizeType
<1> HIDE DEF n
<1>2. ASSUME NEW i \in 1..n PROVE <<m, name, i - 1>> \in ShardBytes(m)
  <2>1. i - 1 \in Nat
    BY <1>1
  <2> QED BY <2>1 DEF ShardBytes
<1>3. TensorBytes(m, name) = [i \in 1..n |-> <<m, name, i - 1>>]
  BY DEF TensorBytes, n
<1>4. /\ TensorBytes(m, name) \in Seq(ShardBytes(m))
      /\ Len(TensorBytes(m, name)) = n
  BY <1>1, <1>2, <1>3
<1> QED BY <1>3, <1>4 DEF n

-----------------------------------------------------------------------------
(* A shard.                                                                 *)

(* Where the tensors of a shard end. *)
Ends(m, shard) ==
  RunningTotals([i \in DOMAIN Stored(m, shard) |->
                   Size(m, Stored(m, shard)[i])])

(* The bytes of a stored tensor are in the mapped file at its offset. *)
LEMMA MapsAt ==
  ASSUME NEW m \in Models, NEW shard \in Files(m),
         NEW k \in 1..Len(Stored(m, shard))
  PROVE  /\ Maps[m][shard] \in Seq(ShardBytes(m))
         /\ Ends(m, shard)[k - 1] \in Nat
         /\ Size(m, Stored(m, shard)[k]) \in Nat
         /\ \A x \in 1..Size(m, Stored(m, shard)[k]) :
              /\ HeaderBytes + Ends(m, shard)[k - 1] + x
                   \in 1..Len(Maps[m][shard])
              /\ Maps[m][shard][HeaderBytes + Ends(m, shard)[k - 1] + x]
                   = <<m, Stored(m, shard)[k], x - 1>>
<1> DEFINE st == Stored(m, shard)
           n == Len(st)
           sizes == [i \in DOMAIN st |-> Size(m, st[i])]
           seqs == [i \in DOMAIN st |-> TensorBytes(m, st[i])]
           off == RunningTotals(sizes)
           hd == [i \in 1..HeaderBytes |-> <<m, shard, i - 1>>]
           flat == FlattenSeq(seqs)
<1>1. st \in Seq(Names(m)) /\ n \in Nat /\ DOMAIN st = 1..n
  BY StoredHas, LenProperties
<1> HIDE DEF st, n
<1>2. \A i \in 1..n : st[i] \in Names(m)
  BY <1>1, ElementOfSeq DEF n
<1>3. sizes \in [1..n -> Nat] /\ \A i \in 1..n : sizes[i] = Size(m, st[i])
  BY <1>1, <1>2, SizeType
<1>4. /\ seqs \in [1..n -> Seq(ShardBytes(m))]
      /\ \A i \in 1..n : seqs[i] = TensorBytes(m, st[i])
  BY <1>1, <1>2, TensorBytesAre
<1> HIDE DEF sizes, seqs
<1>5. off \in [0..n -> Nat] /\ Adds(off, sizes, n)
  BY <1>1, <1>3, TotalsAdd
<1> HIDE DEF off
<1>6. Offsets(off, seqs, n)
  <2>1. ASSUME NEW i \in 1..n PROVE Len(seqs[i]) = sizes[i]
    BY <1>2, <1>3, <1>4, TensorBytesAre
  <2> QED BY <1>5, <2>1 DEF Offsets, Adds
<1>7. flat \in Seq(ShardBytes(m)) /\ LaidOut(flat, seqs, off, n)
  BY <1>1, <1>4, <1>5, <1>6, FlattenAt
<1>8. hd \in Seq(ShardBytes(m)) /\ Len(hd) = 2 /\ HeaderBytes = 2
  <2>1. \A i \in 1..2 : <<m, shard, i - 1>> \in ShardBytes(m)
    BY DEF ShardBytes
  <2> QED BY <2>1 DEF HeaderBytes
<1>9. Maps[m][shard] = hd \o flat
  BY DEF Maps, seqs, st
<1> HIDE DEF hd, flat
<1>10. /\ hd \o flat \in Seq(ShardBytes(m)) /\ Len(flat) \in Nat
       /\ Len(hd \o flat) = 2 + Len(flat)
       /\ \A y \in 1..(2 + Len(flat)) :
            (hd \o flat)[y] = IF y <= 2 THEN hd[y] ELSE flat[y - 2]
  <2>1. Len(flat) \in Nat
    BY <1>7, LenProperties
  <2>2. /\ hd \o flat \in Seq(ShardBytes(m))
        /\ Len(hd \o flat) = Len(hd) + Len(flat)
        /\ \A y \in 1..(Len(hd) + Len(flat)) :
             (hd \o flat)[y] = IF y <= Len(hd) THEN hd[y]
                               ELSE flat[y - Len(hd)]
    BY <1>7, <1>8, ConcatProperties
  <2>3. Len(hd) = 2
    BY <1>8
  <2> QED BY <2>1, <2>2, <2>3
<1>11. k \in 1..n /\ k - 1 \in 0..n /\ off[k - 1] \in Nat /\ st[k] \in Names(m)
  <2>1. k \in 1..n /\ k - 1 \in 0..n
    BY <1>1 DEF n, st
  <2> QED BY <1>2, <1>5, <2>1
<1>12. ASSUME NEW x \in 1..Size(m, st[k])
       PROVE  /\ 2 + off[k - 1] + x \in 1..Len(hd \o flat)
              /\ (hd \o flat)[2 + off[k - 1] + x] = <<m, st[k], x - 1>>
  <2>1. /\ seqs[k] = TensorBytes(m, st[k]) /\ Len(seqs[k]) = Size(m, st[k])
        /\ seqs[k][x] = <<m, st[k], x - 1>>
    BY <1>4, <1>11, TensorBytesAre
  <2>2. /\ off[k - 1] + x \in 1..Len(flat)
        /\ flat[off[k - 1] + x] = seqs[k][x]
    BY <1>7, <1>11, <2>1 DEF LaidOut
  <2> DEFINE z == off[k - 1] + x
  <2>3. 2 + off[k - 1] + x = 2 + z /\ z \in 1..Len(flat)
    <3>1. x \in Nat
      BY <1>11, SizeType
    <3> QED BY <1>11, <2>2, <3>1
  <2> HIDE DEF z
  <2>4. /\ 2 + z \in 1..(2 + Len(flat)) /\ ~(2 + z <= 2) /\ (2 + z) - 2 = z
    BY <1>10, <2>3
  <2>5. (hd \o flat)[2 + z] = flat[z]
    BY <1>10, <2>4
  <2>6. flat[z] = <<m, st[k], x - 1>>
    BY <2>1, <2>2 DEF z
  <2>7. 2 + z \in 1..Len(hd \o flat)
    BY <1>10, <2>4
  <2> QED BY <2>3, <2>5, <2>6, <2>7
<1>13. Ends(m, shard) = off
  BY DEF Ends, off, sizes, st
<1>14. Size(m, st[k]) \in Nat
  BY <1>11, SizeType
<1> QED BY <1>8, <1>9, <1>10, <1>11, <1>12, <1>13, <1>14 DEF st

(* A tensor's entry leads to n of its bytes from the a-th on. *)
Leads(m, name, a, n) ==
  LET entry == Entry(m, name)
  IN  /\ entry.total = Size(m, name) /\ entry.offset \in Nat
      /\ Slice(Maps[m][entry.file], entry.offset + a, n)
           = [i \in 1..n |-> <<m, name, a + i - 1>>]

(* The entry of a stored tensor leads to its bytes. *)
LEMMA EntryLeads ==
  ASSUME NEW m \in Models, NEW name, FileOf(m, name) \in Files(m),
         NEW k \in 1..Len(Stored(m, FileOf(m, name))),
         Stored(m, FileOf(m, name))[k] = name,
         NEW a \in Nat, NEW n \in Nat, a + n <= Size(m, name)
  PROVE  Leads(m, name, a, n)
<1> DEFINE shard == FileOf(m, name)
           st == Stored(m, shard)
           at == CHOOSE i \in DOMAIN st : st[i] = name
           o == Ends(m, shard)[at - 1]
           bytes == Maps[m][shard]
<1>1. DOMAIN st = 1..Len(st)
  <2>1. st \in Seq(Names(m))
    BY StoredHas
  <2> QED BY <2>1, LenProperties
<1>2. at \in 1..Len(st) /\ st[at] = name
  BY <1>1
<1> HIDE DEF at
<1>3. Entry(m, name) = [file |-> shard, offset |-> HeaderBytes + o,
                        total |-> Size(m, name)]
  BY DEF Entry, Ends, at
<1>4. shard \in Files(m)
  OBVIOUS
<1> HIDE DEF shard, st
<1>5. /\ bytes \in Seq(ShardBytes(m)) /\ o \in Nat /\ Size(m, name) \in Nat
      /\ \A x \in 1..Size(m, name) :
           /\ HeaderBytes + o + x \in 1..Len(bytes)
           /\ bytes[HeaderBytes + o + x] = <<m, name, x - 1>>
  BY <1>2, <1>4, MapsAt DEF st
<1> HIDE DEF o, bytes
<1> DEFINE s == HeaderBytes + o + a
           z == Size(m, name)
<1>6. s \in Nat /\ Len(bytes) \in Nat /\ z \in Nat /\ a + n <= z
  BY <1>5, LenProperties DEF HeaderBytes
<1>7. ASSUME NEW i \in 1..n
      PROVE  /\ s + i \in 1..Len(bytes)
             /\ bytes[s + i] = <<m, name, a + i - 1>>
  <2>1. a + i \in 1..z
    BY <1>6
  <2>2. HeaderBytes + o + (a + i) = s + i
    BY <1>5 DEF HeaderBytes
  <2>3. /\ HeaderBytes + o + (a + i) \in 1..Len(bytes)
        /\ bytes[HeaderBytes + o + (a + i)] = <<m, name, (a + i) - 1>>
    <3> DEFINE y == a + i
    <3>1. y \in 1..z
      BY <2>1
    <3> HIDE DEF y
    <3> QED BY <1>5, <3>1 DEF y
  <2> HIDE DEF s
  <2> QED BY <2>2, <2>3
<1>8. Slice(bytes, s, n) = [i \in 1..n |-> <<m, name, a + i - 1>>]
  <2>1. CASE n = 0
    <3>1. SubSeq(bytes, s + 1, s + n) = <<>>
      <4>1. s + 1 \in Int /\ s + n \in Int /\ s + n < s + 1
        BY <1>6, <2>1
      <4> HIDE DEF s
      <4> QED BY <4>1, SubSeqEmpty
    <3>2. [i \in 1..n |-> <<m, name, a + i - 1>>] = <<>>
      BY <2>1
    <3> QED BY <3>1, <3>2 DEF Slice
  <2>2. CASE n # 0
    <3>1. s + n \in 1..Len(bytes)
      <4>1. n \in 1..n
        BY <2>2
      <4> QED BY <1>7, <4>1
    <3>2. s + n <= Len(bytes)
      BY <1>6, <3>1
    <3> HIDE DEF s
    <3>3. Slice(bytes, s, n) = Stretch(bytes, s, n)
      BY <1>5, <1>6, <3>2, SliceIs
    <3> QED BY <1>7, <3>3 DEF Stretch
  <2> QED BY <2>1, <2>2
<1>9. HeaderBytes + o \in Nat
  BY <1>5 DEF HeaderBytes
<1> QED BY <1>3, <1>8, <1>9 DEF bytes, Leads

-----------------------------------------------------------------------------
(* Blocks.                                                                  *)

(* Arithmetic of e blocks of n bytes. *)
LEMMA Blocks ==
  ASSUME NEW k \in Nat, NEW n \in Nat, NEW e \in 0..(k - 1)
  PROVE  /\ e * n \in Nat /\ k * n \in Nat /\ e * n + n <= k * n
         /\ (k * n) \div k = n
<1>1. e * n \in Nat /\ k * n \in Nat
  OBVIOUS
<1>2. e * n + n = (e + 1) * n
  OBVIOUS
<1>3. \E d \in Nat : k = (e + 1) + d
  <2>1. k - (e + 1) \in Nat /\ k = (e + 1) + (k - (e + 1))
    OBVIOUS
  <2> QED BY <2>1
<1>4. PICK d \in Nat : k = (e + 1) + d
  BY <1>3
<1>5. k * n = (e + 1) * n + d * n /\ d * n \in Nat
  BY <1>4
<1>6. e * n + n <= k * n
  BY <1>1, <1>2, <1>5
<1>7. (k * n) \div k = n
  <2>1. k \in Nat /\ k > 0
    OBVIOUS
  <2> QED BY <2>1
<1> QED BY <1>1, <1>6, <1>7

(* A layer's tensor is stored in the layer's shard. *)
LEMMA TensorStored ==
  ASSUME NEW m \in Models, NEW l \in LayerIds(m), NEW j \in 1..Len(Parts)
  PROVE  /\ FileOf(m, Tensor(l, Parts[j])) = ShardOf[m][l]
         /\ ShardOf[m][l] \in Files(m)
         /\ \E i \in 1..Len(Stored(m, ShardOf[m][l])) :
              Stored(m, ShardOf[m][l])[i] = Tensor(l, Parts[j])
<1>1. FileOf(m, Tensor(l, Parts[j])) = ShardOf[m][l]
  <2>1. /\ Tensor(l, Parts[j])[1] = "switch_mlp"
        /\ Tensor(l, Parts[j])[2] = l
    BY DEF Tensor
  <2>2. "switch_mlp" # "resident"
    OBVIOUS
  <2> QED BY <2>1, <2>2 DEF FileOf
<1> QED BY <1>1, StoredHas, Sizes

(* slice_of returns the expert's part of a stacked tensor. *)
LEMMA SliceIsPart ==
  ASSUME NEW m \in Models, NEW l \in LayerIds(m), NEW j \in 1..Len(Parts),
         NEW e \in Experts(m)
  PROVE  /\ SliceOf(m, Tensor(l, Parts[j]), e, NumExperts[m])
              = PartOf(m, l, e, Parts[j])
         /\ Entry(m, Tensor(l, Parts[j])).total \div NumExperts[m]
              = PartSize[<<m, l, Parts[j]>>]
<1> DEFINE name == Tensor(l, Parts[j])
           n == PartSize[<<m, l, Parts[j]>>]
           entry == Entry(m, name)
           a == e * n
<1>1. Parts[j] \in ToSet(Parts)
  BY Sizes
<1>2. n \in Nat /\ Size(m, name) = NumExperts[m] * n
  BY <1>1, TensorSize1
<1>3. NumExperts[m] \in Nat /\ e \in 0..(NumExperts[m] - 1)
  BY Sizes DEF Experts
<1>4. PICK k \in 1..Len(Stored(m, FileOf(m, name))) :
        Stored(m, FileOf(m, name))[k] = name
  BY TensorStored
<1>5. FileOf(m, name) \in Files(m)
  BY TensorStored
<1> HIDE DEF name, n
<1>6. /\ a \in Nat /\ a + n <= Size(m, name)
      /\ Size(m, name) \div NumExperts[m] = n
  BY <1>2, <1>3, Blocks
<1> HIDE DEF a
<1>7. /\ entry.total = Size(m, name)
      /\ Slice(Maps[m][entry.file], entry.offset + a, n)
           = [i \in 1..n |-> <<m, name, a + i - 1>>]
  <2>1. Leads(m, name, a, n)
    BY <1>2, <1>4, <1>5, <1>6, EntryLeads
  <2> QED BY <2>1 DEF Leads
<1>8. SliceOf(m, name, e, NumExperts[m])
        = [i \in 1..n |-> <<m, name, a + i - 1>>]
  BY <1>6, <1>7 DEF SliceOf, a
<1>9. PartOf(m, l, e, Parts[j]) = [i \in 1..n |-> <<m, name, a + i - 1>>]
  BY DEF PartOf, n, a, name
<1> QED BY <1>6, <1>7, <1>8, <1>9 DEF name, n

(* The bytes of one checkpoint. *)
BytesOf(m) == {m} \X Names(m) \X Nat

(* The parts of an expert in block order. *)
ExactParts(m, l, e) == [j \in 1..Len(Parts) |-> PartOf(m, l, e, Parts[j])]
ExactBlock(m, l, e) == FlattenSeq(ExactParts(m, l, e))

(* A part is bytes of its checkpoint. *)
LEMMA PartType ==
  ASSUME NEW m \in Models, NEW l \in LayerIds(m), NEW e \in Experts(m)
  PROVE  /\ ExactParts(m, l, e) \in [1..Len(Parts) -> Seq(BytesOf(m))]
         /\ ExactBlock(m, l, e) \in Seq(BytesOf(m))
<1>1. ASSUME NEW j \in 1..Len(Parts)
      PROVE  PartOf(m, l, e, Parts[j]) \in Seq(BytesOf(m))
  <2> DEFINE n == PartSize[<<m, l, Parts[j]>>]
             name == Tensor(l, Parts[j])
  <2>1. n \in Nat /\ e \in Nat
    BY Sizes, TensorSize1 DEF Experts
  <2>2. name \in Names(m)
    BY Sizes DEF Names
  <2> DEFINE a == e * n
             part == [i \in 1..n |-> <<m, name, a + i - 1>>]
  <2> HIDE DEF n, name
  <2>3. a \in Nat
    BY <2>1
  <2> HIDE DEF a
  <2>4. ASSUME NEW i \in 1..n PROVE <<m, name, a + i - 1>> \in BytesOf(m)
    <3>1. a + i - 1 \in Nat
      BY <2>1, <2>3
    <3> QED BY <2>2, <3>1 DEF BytesOf
  <2>5. part \in Seq(BytesOf(m))
    BY <2>1, <2>4
  <2>6. PartOf(m, l, e, Parts[j]) = part
    BY DEF PartOf, n, name, a
  <2> QED BY <2>5, <2>6
<1>2. ExactParts(m, l, e) \in [1..Len(Parts) -> Seq(BytesOf(m))]
  BY <1>1 DEF ExactParts
<1>3. Len(Parts) \in Nat
  BY Sizes
<1>4. FlattenSeq(ExactParts(m, l, e)) \in Seq(BytesOf(m))
  BY <1>2, <1>3, FlattenHas
<1> QED BY <1>2, <1>4 DEF ExactBlock

(* What pack appends for an expert is its parts in block order. *)
LEMMA BlockIsExact ==
  ASSUME NEW m \in Models, NEW l \in LayerIds(m), NEW e \in Experts(m)
  PROVE  Block(m, l, e) = ExactBlock(m, l, e)
<1>1. [j \in 1..Len(Parts) |->
         SliceOf(m, Tensor(l, Parts[j]), e, NumExperts[m])]
        = ExactParts(m, l, e)
  BY SliceIsPart DEF ExactParts
<1> QED BY <1>1 DEF Block, ExactBlock

(* The first k blocks of a layer. *)
FirstBlocks(m, l, k) ==
  FlattenSeq([x \in 1..k |-> ExactBlock(m, l, x - 1)])

(* A layer's file grows by a block. *)
LEMMA NextBlock ==
  ASSUME NEW m \in Models, NEW l \in LayerIds(m), NEW k \in Nat,
         k <= NumExperts[m]
  PROVE  /\ FirstBlocks(m, l, k) \in Seq(BytesOf(m))
         /\ k < NumExperts[m] => FirstBlocks(m, l, k + 1)
                                = FirstBlocks(m, l, k) \o ExactBlock(m, l, k)
<1> DEFINE Row(n) == [x \in 1..n |-> ExactBlock(m, l, x - 1)]
<1>1. ASSUME NEW n \in Nat, n <= NumExperts[m]
      PROVE  Row(n) \in [1..n -> Seq(BytesOf(m))]
  <2>1. ASSUME NEW x \in 1..n
        PROVE  ExactBlock(m, l, x - 1) \in Seq(BytesOf(m))
    <3>1. x - 1 \in Experts(m)
      BY <1>1, Sizes DEF Experts
    <3> QED BY <3>1, PartType
  <2> QED BY <2>1
<1>2. FirstBlocks(m, l, k) \in Seq(BytesOf(m))
  <2> DEFINE r == Row(k)
  <2>1. r \in [1..k -> Seq(BytesOf(m))]
    BY <1>1
  <2> HIDE DEF r
  <2>2. FlattenSeq(r) \in Seq(BytesOf(m))
    BY <2>1, FlattenHas
  <2> QED BY <2>2 DEF FirstBlocks, r
<1>3. ASSUME k < NumExperts[m]
      PROVE  FirstBlocks(m, l, k + 1)
               = FirstBlocks(m, l, k) \o ExactBlock(m, l, k)
  <2> DEFINE r == Row(k)
             s == Row(k + 1)
  <2>1. /\ r \in [1..k -> Seq(BytesOf(m))]
        /\ s \in [1..(k + 1) -> Seq(BytesOf(m))]
    <3>1. k + 1 \in Nat /\ k + 1 <= NumExperts[m]
      BY <1>3, Sizes
    <3> QED BY <1>1, <3>1
  <2>2. \A i \in 1..k : r[i] = s[i]
    OBVIOUS
  <2>3. s[k + 1] = ExactBlock(m, l, k)
    <3>1. k + 1 \in 1..(k + 1) /\ (k + 1) - 1 = k
      OBVIOUS
    <3> QED BY <3>1
  <2>4. FirstBlocks(m, l, k) = FlattenSeq(r)
        /\ FirstBlocks(m, l, k + 1) = FlattenSeq(s)
    BY DEF FirstBlocks
  <2> HIDE DEF r, s, Row
  <2>5. FlattenSeq(s) = FlattenSeq(r) \o s[k + 1]
    BY <2>1, <2>2, FlattenAppend
  <2> QED BY <2>3, <2>4, <2>5
<1> QED BY <1>2, <1>3

(* No block, and all of them. *)
LEMMA FirstAndLast ==
  ASSUME NEW m, NEW l
  PROVE  /\ FirstBlocks(m, l, 0) = <<>>
         /\ FirstBlocks(m, l, NumExperts[m]) = ExactLayer(m, l)
<1>1. FirstBlocks(m, l, 0) = <<>>
  <2> DEFINE r == [x \in 1..0 |-> ExactBlock(m, l, x - 1)]
  <2>1. r = <<>>
    OBVIOUS
  <2>2. FlattenSeq(<<>>) = <<>>
    <3>1. <<>> \in [1..0 -> Seq({})]
      OBVIOUS
    <3>2. PICK g \in [0..0 -> Seq({})] : Joins(g, <<>>, 0)
                                         /\ FlattenSeq(<<>>) = g[0]
      BY <3>1, FlattenIs
    <3> QED BY <3>2 DEF Joins
  <2> HIDE DEF r
  <2>3. FirstBlocks(m, l, 0) = FlattenSeq(r)
    BY DEF FirstBlocks, r
  <2> QED BY <2>1, <2>2, <2>3
<1>2. FirstBlocks(m, l, NumExperts[m]) = ExactLayer(m, l)
  BY DEF FirstBlocks, ExactLayer, ExactBlock, ExactParts
<1> QED BY <1>1, <1>2

-----------------------------------------------------------------------------
(* What verify compares.                                                    *)

(* Some multiple of s is among any s numbers in a row. *)
LEMMA MultipleNear ==
  ASSUME NEW a \in Nat, NEW s \in Nat, s >= 1
  PROVE  \E f \in a..(a + s - 1) : f % s = 0
<1> DEFINE P == {k \in Nat : \E q \in Nat : s * q \in k..(k + s - 1)}
<1>1. 0 \in P
  <2>1. s * 0 = 0 /\ 0 \in 0..(0 + s - 1)
    OBVIOUS
  <2> QED BY <2>1
<1>2. ASSUME NEW k \in 1..a, k - 1 \in P PROVE k \in P
  <2>1. PICK q \in Nat : s * q \in (k - 1)..((k - 1) + s - 1)
    BY <1>2
  <2> DEFINE x == s * q
  <2>2. s * (q + 1) = x + s /\ x \in Nat
    BY <2>1
  <2>3. x \in (k - 1)..((k - 1) + s - 1)
    BY <2>1
  <2> HIDE DEF x
  <2>4. x \in k..(k + s - 1) \/ x + s \in k..(k + s - 1)
    BY <2>2, <2>3
  <2>5. s * q \in k..(k + s - 1) \/ s * (q + 1) \in k..(k + s - 1)
    BY <2>2, <2>4 DEF x
  <2>6. q + 1 \in Nat /\ k \in Nat
    OBVIOUS
  <2> QED BY <2>5, <2>6
<1>3. P \in SUBSET Nat /\ Climbs(P, a)
  BY <1>2 DEF Climbs
<1> HIDE DEF P
<1>4. a \in P
  <2>1. \A i \in 0..a : i \in P
    BY <1>1, <1>3, UptoInduction
  <2> QED BY <2>1
<1>5. PICK q \in Nat : s * q \in a..(a + s - 1)
  BY <1>4 DEF P
<1>6. (s * q) % s = 0
  OBVIOUS
<1> QED BY <1>5, <1>6

(* Block f of the numbering of verify is in layer l. *)
LEMMA BlockNumber ==
  ASSUME NEW k \in Nat, k >= 1, NEW l \in Nat,
         NEW f \in (l * k)..(l * k + k - 1)
  PROVE  f \div k = l /\ f % k \in 0..(k - 1)
<1>1. f \in Nat
  <2>1. l * k \in Nat
    OBVIOUS
  <2> QED BY <2>1
<1> DEFINE i == f - l * k
<1>2. i \in 0..(k - 1) /\ f = k * l + i
  OBVIOUS
<1> HIDE DEF i
<1>3. (k * l + i) \div k = l
  BY <1>2
<1>4. f % k \in 0..(k - 1)
  BY <1>1
<1> QED BY <1>2, <1>3, <1>4

(* verify compares a block of every layer. *)
LEMMA PickInLayer ==
  ASSUME NEW m \in Models, NEW l \in LayerIds(m)
  PROVE  \E e \in Experts(m) : <<l, e>> \in Picks(Layers[m], NumExperts[m])
<1> DEFINE n == NumExperts[m]
           all == Layers[m] * n
           count == all \div (Samples - 4)
           step == IF count > 1 THEN count ELSE 1
<1>1. /\ n \in Nat /\ n >= 1 /\ l \in Nat /\ Layers[m] \in Nat
      /\ l \in 0..(Layers[m] - 1)
  BY Sizes DEF LayerIds
<1>2. Samples \in Nat /\ Samples > 4 /\ count <= n
  BY SizeAssumption, SampleAssumption
<1> HIDE DEF n
<1>3. l * n \in Nat /\ all \in Nat /\ l * n + n <= all
  BY <1>1, Blocks
<1> HIDE DEF all
<1>4. count \in Int
  BY <1>2, <1>3
<1> HIDE DEF count
<1>5. step \in Nat /\ step >= 1 /\ step <= n
  BY <1>1, <1>2, <1>4
<1> HIDE DEF step
<1>6. PICK f \in (l * n)..(l * n + step - 1) : f % step = 0
  BY <1>3, <1>5, MultipleNear
<1> DEFINE a == l * n
<1>7. f \in a..(a + n - 1) /\ f \in 0..(all - 1)
  <2>1. a \in Nat /\ a + n <= all /\ f \in a..(a + step - 1)
    BY <1>3, <1>6
  <2> HIDE DEF a
  <2> QED BY <1>1, <1>3, <1>5, <2>1
<1>8. f \div n = l /\ f % n \in 0..(n - 1)
  BY <1>1, <1>7, BlockNumber
<1>9. <<f \div n, f % n>> \in Picks(Layers[m], NumExperts[m])
  <2>1. f \in {g \in 0..(all - 1) : g % step = 0}
    BY <1>6, <1>7
  <2>2. Picks(Layers[m], NumExperts[m])
          = {<<0, 0>>, <<0, n - 1>>, <<Layers[m] - 1, 0>>,
             <<Layers[m] - 1, n - 1>>}
                \cup {<<g \div n, g % n>> :
                        g \in {h \in 0..(all - 1) : h % step = 0}}
    BY <1>2 DEF Picks, step, count, all, n
  <2> QED BY <2>1, <2>2
<1> QED BY <1>8, <1>9 DEF Experts, n

(* No total is below the first size. *)
LEMMA TotalsGrow ==
  ASSUME NEW n \in Nat, n >= 1, NEW sizes \in [1..n -> Nat]
  PROVE  sizes[1] <= RunningTotals(sizes)[n]
<1> DEFINE off == RunningTotals(sizes)
           P == {i \in Nat : i \in 1..n => sizes[1] <= off[i]}
<1>1. off \in [0..n -> Nat] /\ Adds(off, sizes, n)
  BY TotalsAdd
<1> HIDE DEF off
<1>2. 0 \in P
  OBVIOUS
<1>3. ASSUME NEW i \in 1..n, i - 1 \in P PROVE i \in P
  <2>1. off[i] = off[i - 1] + sizes[i] /\ off[0] = 0
    BY <1>1 DEF Adds
  <2>2. off[i - 1] \in Nat /\ sizes[i] \in Nat /\ sizes[1] \in Nat
    <3>1. i - 1 \in 0..n /\ 1 \in 1..n
      OBVIOUS
    <3> QED BY <1>1, <3>1
  <2>3. CASE i = 1
    <3>1. off[1 - 1] = 0
      BY <2>1
    <3> QED BY <2>1, <2>2, <2>3, <3>1
  <2>4. CASE i # 1
    <3>1. i - 1 \in 1..n
      BY <2>4
    <3>2. sizes[1] <= off[i - 1]
      BY <1>3, <3>1
    <3>3. sizes[1] <= off[i]
      BY <2>1, <2>2, <3>2
    <3> QED BY <3>3
  <2> QED BY <2>3, <2>4
<1>4. P \in SUBSET Nat /\ Climbs(P, n)
  BY <1>3 DEF Climbs
<1> HIDE DEF P
<1>5. n \in P
  <2>1. \A i \in 0..n : i \in P
    BY <1>2, <1>4, UptoInduction
  <2> QED BY <2>1
<1>6. n \in 1..n
  OBVIOUS
<1> QED BY <1>5, <1>6 DEF P, off

(* The first part of the layout that experts.json describes. *)
FirstPart(m) == [part |-> Parts[1], offset |-> 0,
                 bytes |-> PartSize[<<m, 0, Parts[1]>>]]

(* The layout of a block begins with the first part. *)
LEMMA LayoutBegins ==
  ASSUME NEW m \in Models
  PROVE  /\ FirstPart(m) \in ToSet(Describe(m).parts)
         /\ FirstPart(m).bytes \in Nat /\ FirstPart(m).bytes >= 1
         /\ Describe(m).block \in Nat
         /\ FirstPart(m).bytes <= Describe(m).block
<1> DEFINE n == Len(Parts)
           per == [j \in 1..n |->
                     Entry(m, Tensor(0, Parts[j])).total \div NumExperts[m]]
           ends == RunningTotals(per)
           rows == [j \in 1..n |-> [part |-> Parts[j], offset |-> ends[j - 1],
                                    bytes |-> per[j]]]
<1>1. /\ n \in Nat /\ n >= 1 /\ 1 \in 1..n
      /\ 0 \in LayerIds(m) /\ 0 \in Experts(m)
  BY Sizes DEF Experts
<1>2. \A j \in 1..n : per[j] = PartSize[<<m, 0, Parts[j]>>]
  BY <1>1, SliceIsPart
<1>3. \A j \in 1..n : /\ PartSize[<<m, 0, Parts[j]>>] \in Nat
                      /\ PartSize[<<m, 0, Parts[j]>>] >= 1
  BY <1>1, Sizes, TensorSize1
<1>4. per \in [1..n -> Nat]
  BY <1>2, <1>3
<1>5. Describe(m) = [parts |-> rows, block |-> ends[n]]
  BY DEF Describe
<1> HIDE DEF per, n
<1>6. ends \in [0..n -> Nat] /\ ends[0] = 0
  BY <1>1, <1>4, TotalsAdd DEF Adds
<1>7. per[1] <= ends[n]
  BY <1>1, <1>4, TotalsGrow
<1> HIDE DEF ends
<1>8. ends[n] \in Nat
  BY <1>1, <1>6
<1>9. rows[1] = FirstPart(m) /\ DOMAIN rows = 1..n
  <2>1. ends[1 - 1] = 0
    BY <1>6
  <2>2. per[1] = PartSize[<<m, 0, Parts[1]>>]
    BY <1>1, <1>2
  <2>3. rows[1] = [part |-> Parts[1], offset |-> ends[1 - 1],
                   bytes |-> per[1]]
    BY <1>1
  <2> QED BY <2>1, <2>2, <2>3 DEF FirstPart
<1> HIDE DEF rows
<1>10. FirstPart(m) \in ToSet(rows)
  BY <1>1, <1>9 DEF ToSet
<1>11. FirstPart(m).bytes = per[1]
  BY <1>1, <1>2 DEF FirstPart
<1>12. per[1] \in Nat /\ per[1] >= 1
  BY <1>1, <1>2, <1>3
<1> QED BY <1>5, <1>7, <1>8, <1>10, <1>11, <1>12

(* A layer's file is the layer of a checkpoint. *)
ExactFile(l) == \E m \in Models : IsLayerOf(m, l)

(* The e-th of the equal stretches, of some length, of a tensor. *)
EqualStretch(bytes, m, name, e) ==
  \E n \in Nat : bytes = [i \in 1..n |-> <<m, name, e * n + i - 1>>]

(* slice_of, told to take a tensor for a stack of k, returns bytes of that *)
(* tensor: verify takes k from experts.json.                               *)
LEMMA SliceOfTensor ==
  ASSUME NEW m \in Models, NEW l \in LayerIds(m), NEW j \in 1..Len(Parts),
         NEW k \in Nat, NEW e \in 0..(k - 1)
  PROVE  EqualStretch(SliceOf(m, Tensor(l, Parts[j]), e, k), m,
                      Tensor(l, Parts[j]), e)
<1> DEFINE name == Tensor(l, Parts[j])
           z == Size(m, name)
           n == z \div k
           a == e * n
           entry == Entry(m, name)
<1>1. z \in Nat
  <2>1. name \in Names(m)
    BY Sizes DEF Names
  <2> QED BY <2>1, SizeType
<1>2. PICK s \in 1..Len(Stored(m, FileOf(m, name))) :
        Stored(m, FileOf(m, name))[s] = name
  BY TensorStored
<1>3. FileOf(m, name) \in Files(m)
  BY TensorStored
<1> HIDE DEF name, z
<1>4. n \in Nat /\ k * n <= z
  <2>1. k > 0
    OBVIOUS
  <2> QED BY <1>1, <2>1
<1> HIDE DEF n
<1>5. a \in Nat /\ a + n <= k * n /\ k * n \in Nat
  BY <1>4, Blocks
<1> HIDE DEF a
<1>6. a + n <= Size(m, name)
  <2>1. a + n <= z
    BY <1>1, <1>4, <1>5
  <2> QED BY <2>1 DEF z
<1>7. Leads(m, name, a, n)
  BY <1>2, <1>3, <1>4, <1>5, <1>6, EntryLeads
<1>8. SliceOf(m, name, e, k) = [i \in 1..n |-> <<m, name, a + i - 1>>]
  <2>1. entry.total \div k = n
    BY <1>7 DEF Leads, n, z
  <2> QED BY <1>7, <2>1 DEF Leads, SliceOf, a
<1>9. SliceOf(m, name, e, k) = [i \in 1..n |-> <<m, name, e * n + i - 1>>]
  BY <1>8 DEF a
<1>10. EqualStretch(SliceOf(m, name, e, k), m, name, e)
  BY <1>4, <1>9 DEF EqualStretch
<1> QED BY <1>10 DEF name

(* A passing verify identifies the checkpoint of every layer experts.json  *)
(* counts, although layout and expert count are those of experts.json,     *)
(* maybe of another checkpoint, and the blocks are sampled.                *)
LEMMA VerifySound ==
  ASSUME NEW m \in Models, VerifyPasses(m), NEW l \in LayerIds(meta),
         packed[l] # Missing => ExactFile(l)
  PROVE  IsLayerOf(m, l)
<1> DEFINE d == Describe(meta)
           x == FirstPart(meta)
           E == NumExperts[meta]
           layerFile == packed[l]
           k == d.block
           b == x.bytes
<1>1. /\ meta \in Models /\ layerFile # Missing
      /\ Len(layerFile) = E * k
      /\ \A pick \in Picks(Layers[meta], E) :
           /\ pick[1] \in LayerIds(m)
           /\ \A y \in ToSet(d.parts) :
                Slice(packed[pick[1]], pick[2] * k + y.offset, y.bytes)
                  = SliceOf(m, Tensor(pick[1], y.part), pick[2], E)
  BY DEF VerifyPasses
<1>2. PICK e \in Experts(meta) : <<l, e>> \in Picks(Layers[meta], E)
  BY <1>1, PickInLayer
<1>3. /\ x \in ToSet(d.parts) /\ b \in Nat /\ b >= 1 /\ k \in Nat /\ b <= k
      /\ x.offset = 0 /\ x.part = Parts[1]
  BY <1>1, LayoutBegins DEF FirstPart
<1>4. PICK m2 \in Models : l \in LayerIds(m2) /\ layerFile = ExactLayer(m2, l)
  BY <1>1 DEF ExactFile, IsLayerOf
<1>5. layerFile \in Seq(BytesOf(m2))
  <2>1. NumExperts[m2] \in Nat /\ NumExperts[m2] <= NumExperts[m2]
    BY Sizes
  <2> QED BY <1>4, <2>1, NextBlock, FirstAndLast
<1>6. e \in 0..(E - 1) /\ E \in Nat /\ 1 \in 1..Len(Parts)
  BY <1>1, <1>2, Sizes DEF Experts
<1>7. /\ l \in LayerIds(m)
      /\ Slice(layerFile, e * k + 0, b)
           = SliceOf(m, Tensor(l, Parts[1]), e, E)
  <2>1. /\ <<l, e>>[1] \in LayerIds(m)
        /\ Slice(packed[<<l, e>>[1]], <<l, e>>[2] * k + x.offset, b)
             = SliceOf(m, Tensor(<<l, e>>[1], x.part), <<l, e>>[2], E)
    BY <1>1, <1>2, <1>3
  <2> QED BY <1>3, <2>1
<1> HIDE DEF layerFile, k, b, x, d, E
<1> DEFINE a == e * k
<1>8. a \in Nat /\ a + k <= E * k
  BY <1>3, <1>6, Blocks
<1>9. a + 0 = a /\ a + b <= Len(layerFile) /\ Len(layerFile) \in Nat
  <2>1. Len(layerFile) \in Nat
    BY <1>5, LenProperties
  <2> DEFINE z == E * k
  <2>2. Len(layerFile) = z /\ a + k <= z
    BY <1>1, <1>8
  <2> HIDE DEF a, z
  <2> QED BY <1>3, <1>8, <2>1, <2>2
<1> HIDE DEF a
<1> DEFINE name == Tensor(l, Parts[1])
<1>10. PICK n \in Nat : SliceOf(m, name, e, E)
                          = [i \in 1..n |-> <<m, name, e * n + i - 1>>]
  <2>1. E \in Nat /\ e \in 0..(E - 1) /\ l \in LayerIds(m)
        /\ 1 \in 1..Len(Parts)
    BY <1>6, <1>7
  <2>2. EqualStretch(SliceOf(m, name, e, E), m, name, e)
    BY <2>1, SliceOfTensor
  <2> QED BY <2>2 DEF EqualStretch
<1> HIDE DEF name
<1>11. [i \in 1..b |-> layerFile[a + i]]
         = [i \in 1..n |-> <<m, name, e * n + i - 1>>]
  <2>1. Slice(layerFile, a, b) = Stretch(layerFile, a, b)
    BY <1>3, <1>5, <1>8, <1>9, SliceIs
  <2>2. Slice(layerFile, a + 0, b) = SliceOf(m, name, e, E)
    BY <1>7 DEF a, name
  <2> QED BY <1>9, <1>10, <2>1, <2>2 DEF Stretch
<1>12. layerFile[a + 1][1] = m
  <2> DEFINE f == [i \in 1..b |-> layerFile[a + i]]
             g == [i \in 1..n |-> <<m, name, e * n + i - 1>>]
  <2>1. DOMAIN f = 1..b /\ DOMAIN g = 1..n
    OBVIOUS
  <2>2. 1 \in 1..b
    BY <1>3
  <2>3. 1 \in 1..n
    BY <1>11, <2>1, <2>2
  <2>4. f[1] = layerFile[a + 1] /\ g[1] = <<m, name, e * n + 1 - 1>>
    BY <2>2, <2>3
  <2>5. f = g
    BY <1>11
  <2> HIDE DEF f, g
  <2>6. layerFile[a + 1] = <<m, name, e * n + 1 - 1>>
    BY <2>4, <2>5
  <2> QED BY <2>6
<1>13. layerFile[a + 1] \in BytesOf(m2)
  <2>1. a + 1 \in 1..Len(layerFile)
    BY <1>3, <1>8, <1>9
  <2> QED BY <1>5, <2>1, ElementOfSeq
<1>14. m2 = m
  BY <1>12, <1>13 DEF BytesOf
<1> QED BY <1>4, <1>14 DEF layerFile, IsLayerOf

-----------------------------------------------------------------------------
(* The resident tensors.                                                    *)

(* Every resident tensor of a copied file is at its header's offset. *)
LEMMA ResidentExact ==
  ASSUME NEW m \in Models, NEW i \in 1..Len(Residents[m])
  PROVE  LET h == ResidentOf(m)[1][i]
         IN  /\ h.name = Residents[m][i]
             /\ Slice(ResidentOf(m)[2], h.start, h.end - h.start)
                  = TensorBytes(m, <<"resident", h.name>>)
<1> DEFINE R == Len(Residents[m])
           Name(j) == <<"resident", Residents[m][j]>>
           Copy(j) == Slice(Maps[m][Entry(m, Name(j)).file],
                            Entry(m, Name(j)).offset, Entry(m, Name(j)).total)
           seqs == [j \in 1..R |-> Copy(j)]
           sizes == [j \in 1..R |-> Entry(m, Name(j)).total]
           off == RunningTotals(sizes)
           flat == FlattenSeq(seqs)
<1>1. R \in Nat
  BY Sizes
<1>2. ASSUME NEW j \in 1..R
      PROVE  /\ Name(j) \in Names(m) /\ Size(m, Name(j)) \in Nat
             /\ Entry(m, Name(j)).total = Size(m, Name(j))
             /\ Copy(j) = TensorBytes(m, Name(j))
  <2> DEFINE name == Name(j)
             z == Size(m, name)
  <2>1. name \in Names(m)
    BY Sizes DEF Names
  <2>2. FileOf(m, name) = ShardOf[m][0]
    BY DEF FileOf
  <2>3. FileOf(m, name) \in Files(m)
    BY <2>2, Sizes
  <2>4. PICK k \in 1..Len(Stored(m, FileOf(m, name))) :
          Stored(m, FileOf(m, name))[k] = name
    BY <2>2, StoredHas
  <2> HIDE DEF name
  <2>5. z \in Nat
    BY <2>1, SizeType
  <2>6. Leads(m, name, 0, z)
    <3>1. 0 \in Nat /\ z \in Nat /\ 0 + z <= Size(m, name)
      BY <2>5
    <3> HIDE DEF z
    <3> QED BY <2>3, <2>4, <3>1, EntryLeads
  <2> DEFINE o == Entry(m, name).offset
  <2>7. /\ Entry(m, name).total = z /\ o \in Nat
        /\ Slice(Maps[m][Entry(m, name).file], o + 0, z)
             = [x \in 1..z |-> <<m, name, 0 + x - 1>>]
    BY <2>6 DEF Leads
  <2>8. o + 0 = o
    BY <2>7
  <2>9. [x \in 1..z |-> <<m, name, 0 + x - 1>>] = TensorBytes(m, name)
    <3>1. \A x \in 1..z : 0 + x - 1 = x - 1
      BY <2>5
    <3> QED BY <3>1 DEF TensorBytes
  <2>10. Slice(Maps[m][Entry(m, name).file], o, Entry(m, name).total)
           = TensorBytes(m, name)
    BY <2>7, <2>8, <2>9
  <2> QED BY <2>1, <2>5, <2>7, <2>10 DEF name
<1>3. /\ ResidentOf(m)[2] = flat
      /\ ResidentOf(m)[1][i] = [name |-> Residents[m][i],
                                start |-> off[i - 1], end |-> off[i]]
  BY DEF ResidentOf
<1> HIDE DEF Name, Copy
<1>4. /\ seqs \in [1..R -> Seq(ShardBytes(m))] /\ sizes \in [1..R -> Nat]
      /\ \A j \in 1..R : /\ seqs[j] = TensorBytes(m, Name(j))
                         /\ Len(seqs[j]) = sizes[j]
                         /\ sizes[j] = Size(m, Name(j))
  BY <1>2, TensorBytesAre
<1> HIDE DEF seqs, sizes
<1>5. off \in [0..R -> Nat] /\ Adds(off, sizes, R)
  BY <1>1, <1>4, TotalsAdd
<1> HIDE DEF off
<1>6. Offsets(off, seqs, R)
  BY <1>4, <1>5 DEF Offsets, Adds
<1>7. flat \in Seq(ShardBytes(m)) /\ LaidOut(flat, seqs, off, R)
  BY <1>1, <1>4, <1>5, <1>6, FlattenAt
<1> HIDE DEF flat
<1> DEFINE a == off[i - 1]
           n == Size(m, Name(i))
<1>8. seqs[i] = TensorBytes(m, Name(i)) /\ Len(seqs[i]) = n /\ n \in Nat
  BY <1>2, <1>4
<1>9. a \in Nat /\ off[i] - a = n
  <2>1. i - 1 \in 0..R /\ i \in 0..R
    BY <1>1
  <2>2. off[i] = off[i - 1] + sizes[i] /\ sizes[i] = n
    BY <1>4, <1>5 DEF Adds
  <2>3. off[i - 1] \in Nat
    BY <1>5, <2>1
  <2> QED BY <1>8, <2>2, <2>3
<1>10. \A x \in 1..n : a + x \in 1..Len(flat) /\ flat[a + x] = seqs[i][x]
  BY <1>7, <1>8 DEF LaidOut
<1>11. [x \in 1..n |-> seqs[i][x]] = TensorBytes(m, Name(i))
  BY <1>8 DEF TensorBytes
<1> HIDE DEF a, n
<1>12. Slice(flat, a, n) = [x \in 1..n |-> seqs[i][x]]
  <2>1. CASE n = 0
    <3>1. SubSeq(flat, a + 1, a + n) = <<>>
      <4>1. a + 1 \in Int /\ a + n \in Int /\ a + n < a + 1
        BY <1>9, <2>1
      <4> QED BY <4>1, SubSeqEmpty
    <3>2. [x \in 1..n |-> seqs[i][x]] = <<>>
      BY <2>1
    <3> QED BY <3>1, <3>2 DEF Slice
  <2>2. CASE n # 0
    <3>1. n \in 1..n
      BY <1>8, <2>2
    <3>2. Len(flat) \in Nat
      BY <1>7, LenProperties
    <3>3. a + n <= Len(flat)
      <4>1. a + n \in 1..Len(flat)
        BY <1>10, <3>1
      <4> QED BY <3>2, <4>1
    <3>4. Slice(flat, a, n) = Stretch(flat, a, n)
      BY <1>7, <1>8, <1>9, <3>3, SliceIs
    <3> QED BY <1>10, <3>4 DEF Stretch
  <2> QED BY <2>1, <2>2
<1>13. Slice(ResidentOf(m)[2], off[i - 1], off[i] - off[i - 1])
         = TensorBytes(m, <<"resident", Residents[m][i]>>)
  BY <1>3, <1>9, <1>11, <1>12 DEF a, Name
<1> DEFINE h == ResidentOf(m)[1][i]
<1>14. h.name = Residents[m][i] /\ h.start = off[i - 1] /\ h.end = off[i]
  BY <1>3
<1> HIDE DEF h
<1>15. Slice(ResidentOf(m)[2], h.start, h.end - h.start)
         = TensorBytes(m, <<"resident", h.name>>)
  BY <1>13, <1>14
<1> QED BY <1>14, <1>15 DEF h

-----------------------------------------------------------------------------
(* The commands.                                                            *)

(* A file under a layer's name is that layer of one checkpoint. *)
PackedInv ==
  /\ packed = [l \in LayerFiles |-> packed[l]]
  /\ \A l \in LayerFiles : packed[l] # Missing => ExactFile(l)

(* pack has written the layers before the one it is at, of which the file  *)
(* being written is the first blocks, and finished and verified have been  *)
(* forgotten.                                                               *)
WriteInv ==
  pc \in {"pack", "openMeta", "dumpMeta"} =>
    /\ model \in Models /\ finished = NoModel /\ verified = NoModel
    /\ \A l \in LayerIds(model) :
         l < layer \/ pc # "pack" => packed[l] = ExactLayer(model, l)
    /\ pc = "pack" => /\ layer \in LayerIds(model)
                      /\ expert \in 0..NumExperts[model]
                      /\ expert # 0 =>
                           partial = FirstBlocks(model, layer, expert)

FinishedInv ==
  finished # NoModel =>
    meta = finished /\ \A l \in LayerIds(finished) : IsLayerOf(finished, l)

VerifiedInv ==
  verified # NoModel =>
    meta \in Models /\ \A l \in LayerIds(meta) : IsLayerOf(verified, l)

(* The index is opened after the resident file is in its place. *)
ResidentInv ==
  /\ pc = "resident" => model \in Models
  /\ pc \in {"openIndex", "dumpIndex"} \/ index \in Models =>
       resident # Missing
  /\ resident # Missing => \E m \in Models : resident = ResidentOf(m)

RepackInv ==
  PackedInv /\ WriteInv /\ FinishedInv /\ VerifiedInv /\ ResidentInv

(* The invariant implies the property. *)
LEMMA InvIsSound == RepackInv => RepackSound
<1> SUFFICES ASSUME RepackInv PROVE RepackSound
  OBVIOUS
<1>1. \A l \in LayerFiles : packed[l] # Missing =>
        \E m \in Models : IsLayerOf(m, l)
  BY DEF RepackInv, PackedInv, ExactFile
<1>2. ASSUME resident # Missing
      PROVE  \E m \in Models :
               /\ Len(resident[1]) = Len(Residents[m])
               /\ \A i \in 1..Len(Residents[m]) :
                    LET h == resident[1][i]
                    IN  /\ h.name = Residents[m][i]
                        /\ Slice(resident[2], h.start, h.end - h.start)
                             = TensorBytes(m, <<"resident", h.name>>)
  <2>1. PICK m \in Models : resident = ResidentOf(m)
    BY <1>2 DEF RepackInv, ResidentInv
  <2>2. Len(ResidentOf(m)[1]) = Len(Residents[m])
    BY Sizes DEF ResidentOf
  <2> QED BY <2>1, <2>2, ResidentExact
<1> QED BY <1>1, <1>2
        DEF RepackInv, FinishedInv, VerifiedInv, ResidentInv, RepackSound

(* The copied file is not a missing one. *)
LEMMA ResidentThere == ASSUME NEW m PROVE ResidentOf(m) # Missing
<1>1. Len(ResidentOf(m)) = 2 /\ Len(Missing) = 1
  BY DEF ResidentOf, Missing
<1> QED BY <1>1

(* Nothing is there at first. *)
LEMMA RepackStarts == RepackInit => RepackInv
<1> SUFFICES ASSUME RepackInit PROVE RepackInv
  OBVIOUS
<1>1. PackedInv
  BY DEF RepackInit, PackedInv
<1>2. index \notin Models
  BY NameAssumption DEF RepackInit
<1> QED BY <1>1, <1>2 DEF RepackInit, RepackInv, WriteInv, FinishedInv,
                          VerifiedInv, ResidentInv

(* pack starts with an unwritten layer 0, or is refused. *)
LEMMA PackKeeps ==
  ASSUME RepackInv, NEW m \in Models, Pack(m)
  PROVE  RepackInv'
<1> USE DEF RepackInv
<1>1. /\ UNCHANGED <<packed, meta, resident, index>> /\ pc = "idle"
      /\ layer' = 0 /\ expert' = 0
      /\ \/ /\ pc' = "pack" /\ model' = m
            /\ finished' = NoModel /\ verified' = NoModel
         \/ UNCHANGED <<pc, model, finished, verified>>
  BY DEF Pack, dir
<1>2. PackedInv'
  BY <1>1 DEF PackedInv, ExactFile, IsLayerOf
<1>3. WriteInv'
  <2>1. 0 \in LayerIds(m) /\ 0 \in 0..NumExperts[m]
    BY Sizes
  <2>2. \A l \in LayerIds(m) : ~(l < 0)
    BY Sizes DEF LayerIds
  <2> QED BY <1>1, <2>1, <2>2 DEF WriteInv
<1>4. FinishedInv' /\ VerifiedInv'
  BY <1>1 DEF FinishedInv, VerifiedInv, IsLayerOf
<1>5. ResidentInv'
  BY <1>1 DEF ResidentInv
<1> QED BY <1>2, <1>3, <1>4, <1>5

(* verify changes nothing but what is known of the files. *)
LEMMA VerifyKeeps ==
  ASSUME RepackInv, NEW m \in Models, Verify(m)
  PROVE  RepackInv'
<1> USE DEF RepackInv
<1>1. /\ UNCHANGED <<pc, model, layer, expert, partial, packed, meta,
                     resident, index, finished>>
      /\ pc = "idle" /\ verified' = IF VerifyPasses(m) THEN m ELSE verified
  BY DEF Verify, dir
<1>2. PackedInv' /\ WriteInv' /\ FinishedInv' /\ ResidentInv'
  BY <1>1
  DEF PackedInv, ExactFile, IsLayerOf, WriteInv, FinishedInv, ResidentInv
<1>3. VerifiedInv'
  <2>1. CASE VerifyPasses(m)
    <3>1. meta \in Models
      BY <2>1 DEF VerifyPasses
    <3>2. \A l \in LayerIds(meta) : l \in LayerFiles
      BY <3>1 DEF LayerFiles
    <3>3. \A l \in LayerIds(meta) : IsLayerOf(m, l)
      BY <2>1, <3>2, VerifySound DEF PackedInv
    <3> QED BY <1>1, <2>1, <3>1, <3>3 DEF VerifiedInv, IsLayerOf
  <2>2. CASE ~VerifyPasses(m)
    BY <1>1, <2>2 DEF VerifiedInv, IsLayerOf
  <2> QED BY <2>1, <2>2
<1> QED BY <1>2, <1>3

(* A block is appended to the file of the layer. *)
LEMMA PackWriteKeeps ==
  ASSUME RepackInv, PackWrite
  PROVE  RepackInv'
<1> USE DEF RepackInv
<1>1. /\ UNCHANGED <<pc, model, layer, packed, meta, resident, index,
                     finished, verified>>
      /\ pc = "pack" /\ expert < NumExperts[model] /\ expert' = expert + 1
      /\ partial' = (IF expert = 0 THEN <<>> ELSE partial)
                      \o Block(model, layer, expert)
  BY DEF PackWrite
<1>2. PackedInv' /\ FinishedInv' /\ VerifiedInv' /\ ResidentInv'
  BY <1>1
  DEF PackedInv, ExactFile, IsLayerOf, FinishedInv, VerifiedInv, ResidentInv
<1>3. /\ model \in Models /\ layer \in LayerIds(model)
      /\ expert \in 0..NumExperts[model]
      /\ expert # 0 => partial = FirstBlocks(model, layer, expert)
  BY <1>1 DEF WriteInv
<1>4. /\ expert \in Nat /\ expert <= NumExperts[model]
      /\ expert \in Experts(model) /\ expert + 1 \in 0..NumExperts[model]
  BY <1>1, <1>3, Sizes DEF Experts
<1>5. partial' = FirstBlocks(model, layer, expert)
                   \o ExactBlock(model, layer, expert)
  <2>1. Block(model, layer, expert) = ExactBlock(model, layer, expert)
    BY <1>3, <1>4, BlockIsExact
  <2>2. (IF expert = 0 THEN <<>> ELSE partial)
          = FirstBlocks(model, layer, expert)
    BY <1>3, FirstAndLast
  <2> QED BY <1>1, <2>1, <2>2
<1>6. partial' = FirstBlocks(model, layer, expert + 1)
  BY <1>1, <1>3, <1>4, <1>5, NextBlock
<1>7. WriteInv'
  BY <1>1, <1>3, <1>4, <1>6 DEF WriteInv
<1> QED BY <1>2, <1>7

(* A complete layer gets its name, or is removed. *)
LEMMA PackRenameKeeps ==
  ASSUME RepackInv, PackRename
  PROVE  RepackInv'
<1> USE DEF RepackInv
<1>1. /\ UNCHANGED <<meta, resident, index, finished, verified>>
      /\ pc = "pack" /\ expert = NumExperts[model] /\ expert' = 0
  BY DEF PackRename
<1>2. /\ model \in Models /\ layer \in LayerIds(model)
      /\ finished = NoModel /\ verified = NoModel
      /\ expert # 0 => partial = FirstBlocks(model, layer, expert)
      /\ \A l \in LayerIds(model) :
           l < layer => packed[l] = ExactLayer(model, l)
  BY <1>1 DEF WriteInv
<1>3. partial = ExactLayer(model, layer)
  <2>1. NumExperts[model] # 0
    BY <1>2, Sizes
  <2> QED BY <1>1, <1>2, <2>1, FirstAndLast
<1>4. FinishedInv' /\ VerifiedInv'
  BY <1>1, <1>2 DEF FinishedInv, VerifiedInv
<1>5. CASE Len(partial) = NumExperts[model] * Describe(model).block
  <2>1. /\ packed' = [packed EXCEPT ![layer] = partial]
        /\ layer' = layer + 1 /\ UNCHANGED model
        /\ pc' = IF layer + 1 = Layers[model] THEN "openMeta" ELSE "pack"
    BY <1>5 DEF PackRename
  <2>2. LayerIds(model) \subseteq LayerFiles
    BY <1>2 DEF LayerFiles
  <2>3. packed' = [l \in LayerFiles |-> IF l = layer THEN partial
                                        ELSE packed[l]]
    BY <1>2, <2>1 DEF PackedInv
  <2>4. PackedInv'
    <3>1. packed' = [l \in LayerFiles |-> packed'[l]]
      BY <2>3
    <3>2. ASSUME NEW l \in LayerFiles, packed'[l] # Missing
          PROVE  \E m \in Models : /\ l \in LayerIds(m)
                                   /\ packed'[l] = ExactLayer(m, l)
      <4>1. CASE l = layer
        BY <1>2, <1>3, <2>3, <4>1
      <4>2. CASE l # layer
        BY <2>3, <3>2, <4>2 DEF PackedInv, ExactFile, IsLayerOf
      <4> QED BY <4>1, <4>2
    <3> QED BY <3>1, <3>2 DEF PackedInv, ExactFile, IsLayerOf
  <2>5. WriteInv'
    <3>1. layer + 1 # Layers[model] => layer + 1 \in LayerIds(model)
      BY <1>2, Sizes DEF LayerIds
    <3>2. 0 \in 0..NumExperts[model]
      BY <1>2, Sizes
    <3>3. ASSUME NEW l \in LayerIds(model),
                 l < layer + 1 \/ layer + 1 = Layers[model]
          PROVE  packed'[l] = ExactLayer(model, l)
      <4>1. l < layer \/ l = layer
        BY <1>2, <3>3, Sizes DEF LayerIds
      <4> QED BY <1>2, <1>3, <2>2, <2>3, <4>1
    <3> QED BY <1>1, <1>2, <2>1, <3>1, <3>2, <3>3 DEF WriteInv
  <2>6. ResidentInv'
    BY <1>1, <2>1 DEF ResidentInv
  <2> QED BY <1>4, <2>4, <2>5, <2>6
<1>6. CASE Len(partial) # NumExperts[model] * Describe(model).block
  <2>1. UNCHANGED packed /\ pc' = "idle"
    BY <1>6 DEF PackRename, Finish
  <2> QED BY <1>1, <1>4, <2>1
          DEF PackedInv, ExactFile, IsLayerOf, WriteInv, ResidentInv
<1> QED BY <1>5, <1>6

(* experts.json is written last, when every layer is the checkpoint's. *)
LEMMA MetaKeeps ==
  ASSUME RepackInv, OpenMeta \/ DumpMeta
  PROVE  RepackInv'
<1> USE DEF RepackInv
<1>1. /\ UNCHANGED <<packed, resident, index, verified>>
      /\ pc \in {"openMeta", "dumpMeta"} /\ pc' \in {"dumpMeta", "idle"}
  BY DEF OpenMeta, DumpMeta, Finish
<1>2. /\ model \in Models /\ finished = NoModel /\ verified = NoModel
      /\ \A l \in LayerIds(model) : packed[l] = ExactLayer(model, l)
  BY <1>1 DEF WriteInv
<1>3. PackedInv' /\ VerifiedInv' /\ ResidentInv'
  BY <1>1, <1>2 DEF PackedInv, ExactFile, IsLayerOf, VerifiedInv, ResidentInv
<1>4. CASE OpenMeta
  <2>1. UNCHANGED <<model, finished>> /\ pc' = "dumpMeta"
    BY <1>4 DEF OpenMeta
  <2> QED BY <1>1, <1>2, <1>3, <2>1 DEF WriteInv, FinishedInv
<1>5. CASE DumpMeta
  <2>1. meta' = model /\ finished' = model /\ pc' = "idle"
    BY <1>5 DEF DumpMeta, Finish
  <2> QED BY <1>1, <1>2, <1>3, <2>1 DEF WriteInv, FinishedInv, IsLayerOf
<1> QED BY <1>4, <1>5

(* resident writes under a temporary name and then the index. *)
LEMMA ResidentKeeps ==
  ASSUME RepackInv,
         (\E m \in Models : Resident(m)) \/ ResidentRename \/ OpenIndex
           \/ DumpIndex
  PROVE  RepackInv'
<1> USE DEF RepackInv
<1>1. /\ UNCHANGED <<packed, meta, finished, verified>>
      /\ pc' \in {"resident", "openIndex", "dumpIndex", "idle"}
  BY DEF Resident, ResidentRename, OpenIndex, DumpIndex, Finish, dir
<1>2. PackedInv' /\ WriteInv' /\ FinishedInv' /\ VerifiedInv'
  BY <1>1
  DEF PackedInv, ExactFile, IsLayerOf, WriteInv, FinishedInv, VerifiedInv
<1>3. ResidentInv'
  <2>1. CASE \E m \in Models : Resident(m)
    BY <2>1 DEF Resident, dir, ResidentInv
  <2>2. CASE ResidentRename
    <3>1. /\ pc = "resident" /\ pc' = "openIndex"
          /\ resident' = ResidentOf(model)
      BY <2>2 DEF ResidentRename
    <3>2. model \in Models
      BY <3>1 DEF ResidentInv
    <3> QED BY <3>1, <3>2, ResidentThere DEF ResidentInv
  <2>3. CASE OpenIndex
    BY <2>3 DEF OpenIndex, ResidentInv
  <2>4. CASE DumpIndex
    BY <2>4 DEF DumpIndex, Finish, ResidentInv
  <2> QED BY <2>1, <2>2, <2>3, <2>4
<1> QED BY <1>2, <1>3

(* An interruption leaves the files alone. *)
LEMMA OthersKeep ==
  ASSUME RepackInv, Interrupt \/ UNCHANGED repackVars
  PROVE  RepackInv'
<1> USE DEF RepackInv
<1>1. UNCHANGED <<packed, meta, finished, verified, resident, index>>
  BY DEF Interrupt, repackVars, dir
<1>2. pc' = "idle" \/ UNCHANGED <<pc, model, layer, expert, partial>>
  BY DEF Interrupt, Finish, repackVars, dir
<1>3. PackedInv' /\ FinishedInv' /\ VerifiedInv'
  BY <1>1 DEF PackedInv, ExactFile, IsLayerOf, FinishedInv, VerifiedInv
<1>4. WriteInv' /\ ResidentInv'
  BY <1>1, <1>2 DEF WriteInv, ResidentInv
<1> QED BY <1>3, <1>4

(* Every step of either tool keeps the invariant. *)
LEMMA RepackKept ==
  ASSUME RepackInv, [Next]_vars
  PROVE  RepackInv'
<1>1. CASE RepackNext
  BY <1>1, PackKeeps, VerifyKeeps, PackWriteKeeps, PackRenameKeeps,
     MetaKeeps, ResidentKeeps, OthersKeep DEF RepackNext
<1>2. CASE UNCHANGED repackVars
  BY <1>2, OthersKeep
<1> QED BY <1>1, <1>2 DEF Next, vars

(* Whatever commands were run, for checkpoints of whatever shapes, and     *)
(* wherever they were interrupted: a file under a layer's name is that     *)
(* layer of one checkpoint, whole and in block order; after a pack that    *)
(* ran to its end experts.json and all layers are its checkpoint's; after  *)
(* verify passed every layer that experts.json counts is the verified      *)
(* checkpoint's; and resident.safetensors, written before its index, holds *)
(* every resident tensor of one checkpoint at the offset its header names. *)
THEOREM RepackIsSound == Spec => []RepackSound
<1>1. Init => RepackInv
  BY RepackStarts DEF Init
<1>2. RepackInv /\ [Next]_vars => RepackInv'
  BY RepackKept
<1> QED BY <1>1, <1>2, InvIsSound, PTL DEF Spec

-----------------------------------------------------------------------------
(* Rows of the GGUF file.                                                   *)

(* i-th of the sequences of length m, one after another. *)
Rowed(flat, seqs, n, m) ==
  /\ Len(flat) = n * m
  /\ \A i \in 1..n, x \in 1..m : /\ (i - 1) * m + x \in 1..(n * m)
                                 /\ flat[(i - 1) * m + x] = seqs[i][x]

(* Flattening sequences of one length. *)
LEMMA FlattenRows ==
  ASSUME NEW S, NEW n \in Nat, NEW m \in Nat, NEW seqs \in [1..n -> Seq(S)],
         \A i \in 1..n : Len(seqs[i]) = m
  PROVE  FlattenSeq(seqs) \in Seq(S) /\ Rowed(FlattenSeq(seqs), seqs, n, m)
<1> DEFINE off == [i \in 0..n |-> i * m]
<1>1. off \in [0..n -> Nat]
  <2>1. \A i \in 0..n : i * m \in Nat
    OBVIOUS
  <2> QED BY <2>1
<1>2. \A i \in 0..n : off[i] = i * m
  OBVIOUS
<1> HIDE DEF off
<1>3. Offsets(off, seqs, n)
  <2>1. off[0] = 0
    BY <1>2
  <2>2. ASSUME NEW i \in 1..n PROVE off[i] = off[i - 1] + Len(seqs[i])
    <3>1. i \in 0..n /\ i - 1 \in 0..n
      OBVIOUS
    <3>2. i * m = (i - 1) * m + m
      OBVIOUS
    <3> QED BY <1>2, <3>1, <3>2
  <2> QED BY <2>1, <2>2 DEF Offsets
<1>4. FlattenSeq(seqs) \in Seq(S) /\ LaidOut(FlattenSeq(seqs), seqs, off, n)
  BY <1>1, <1>3, FlattenAt
<1>5. Len(FlattenSeq(seqs)) = n * m
  <2>1. n \in 0..n
    OBVIOUS
  <2>2. off[n] = n * m
    BY <1>2, <2>1
  <2>3. Len(FlattenSeq(seqs)) = off[n]
    BY <1>4 DEF LaidOut
  <2> QED BY <2>2, <2>3
<1>6. ASSUME NEW i \in 1..n, NEW x \in 1..m
      PROVE  /\ (i - 1) * m + x \in 1..(n * m)
             /\ FlattenSeq(seqs)[(i - 1) * m + x] = seqs[i][x]
  <2>1. i - 1 \in 0..n /\ n \in 0..n
    OBVIOUS
  <2>2. off[i - 1] = (i - 1) * m /\ off[n] = n * m
    BY <1>2, <2>1
  <2>3. x \in 1..Len(seqs[i])
    OBVIOUS
  <2> QED BY <1>4, <2>2, <2>3 DEF LaidOut
<1> QED BY <1>4, <1>5, <1>6 DEF Rowed

(* Shifting a word leaves an integer. *)
LEMMA ShiftedType ==
  ASSUME NEW w \in Int, NEW base \in Nat, base >= 1, NEW k \in 0..WordCodes
  PROVE  Shifted(w, base)[k] \in Int
<1> DEFINE n == WordCodes
           F == [p \in Int \X (1..n) |-> p[1] \div base]
           Is(f) == f = [i \in 0..n |-> IF i = 0 THEN w
                                        ELSE f[i - 1] \div base]
           G == CHOOSE f : Is(f)
<1>0. n \in Nat
  BY BlockAssumption
<1> HIDE DEF n
<1>1. F \in [Int \X (1..n) -> Int]
  OBVIOUS
<1>2. \A c \in Int, i \in 1..n : F[<<c, i>>] = c \div base
  OBVIOUS
<1> HIDE DEF F
<1>3. PICK g \in [0..n -> Int] : Iterates(g, n, w, F)
  BY <1>0, <1>1, IterateExists
<1>4. Is(g)
  <2>1. ASSUME NEW i \in 0..n
        PROVE  g[i] = IF i = 0 THEN w ELSE g[i - 1] \div base
    <3>1. CASE i = 0
      BY <1>3, <3>1 DEF Iterates
    <3>2. CASE i # 0
      <4>1. i \in 1..n /\ i - 1 \in 0..n
        BY <1>0, <3>2
      <4>2. g[i] = F[<<g[i - 1], i>>]
        BY <1>3, <4>1 DEF Iterates
      <4>3. g[i - 1] \in Int
        BY <4>1
      <4> QED BY <1>2, <3>2, <4>1, <4>2, <4>3
    <3> QED BY <3>1, <3>2
  <2> QED BY <2>1
<1>5. Is(G)
  BY <1>4
<1>6. Shifted(w, base) = G
  BY DEF Shifted, n
<1> HIDE DEF G
<1>7. \A i \in 0..n : G[i] = IF i = 0 THEN w ELSE G[i - 1] \div base
  BY <1>5
<1> DEFINE P == {i \in Nat : i <= n => G[i] \in Int}
<1>8. 0 \in P
  BY <1>0, <1>7
<1>9. ASSUME NEW i \in 1..n, i - 1 \in P PROVE i \in P
  <2>1. G[i - 1] \in Int /\ i \in 0..n /\ i # 0
    BY <1>0, <1>9
  <2>2. G[i] = G[i - 1] \div base
    BY <1>7, <2>1
  <2>3. G[i] \in Int
    BY <2>1, <2>2
  <2> QED BY <1>0, <2>3
<1>10. P \in SUBSET Nat /\ Climbs(P, n)
  BY <1>9 DEF Climbs
<1> HIDE DEF P
<1>11. \A i \in 0..n : i \in P
  BY <1>0, <1>8, <1>10, UptoInduction
<1>12. G[k] \in Int
  <2>1. k \in 0..n /\ k \in Nat /\ k <= n
    BY <1>0 DEF n
  <2> QED BY <1>11, <2>1 DEF P
<1> QED BY <1>6, <1>12

(* Division with remainder. *)
LEMMA DivMod ==
  ASSUME NEW a \in Nat, NEW b \in Nat, b >= 1, NEW d \in Nat, NEW e \in Nat,
         d = a \div b, e = a % b
  PROVE  a = b * d + e
OBVIOUS

(* What a number divided gives that is known as quotient and remainder. *)
LEMMA DivIs ==
  ASSUME NEW a \in Nat, NEW b \in Nat, b >= 1, NEW q \in Nat,
         NEW i \in 0..(b - 1), a = b * q + i
  PROVE  a \div b = q /\ a % b = i
OBVIOUS

(* a is below q whole bs. *)
LEMMA DivBelow ==
  ASSUME NEW a \in Nat, NEW b \in Nat, b >= 1, NEW q \in Nat, a < q * b
  PROVE  a \div b \in 0..(q - 1)
<1> DEFINE d == a \div b
           i == a % b
<1>1. d = a \div b /\ i = a % b
  OBVIOUS
<1> HIDE DEF d, i
<1>2. d \in Nat /\ i \in 0..(b - 1) /\ a = b * d + i
  BY <1>1
<1>3. ASSUME d >= q PROVE FALSE
  <2>1. PICK e \in Nat : d = q + e
    <3>1. d - q \in Nat /\ d = q + (d - q)
      BY <1>2, <1>3
    <3> QED BY <3>1
  <2>2. b * d = q * b + b * e /\ b * e \in Nat /\ q * b \in Nat
    BY <2>1
  <2> DEFINE u == b * d
             v == q * b
             z == b * e
  <2>3. u = v + z /\ z \in Nat /\ v \in Nat /\ a < v /\ a = u + i
    BY <1>2, <2>2
  <2> HIDE DEF u, v, z
  <2> QED BY <1>2, <2>3
<1>4. d \in 0..(q - 1)
  BY <1>2, <1>3
<1> QED BY <1>4 DEF d

(* The block sizes as numbers. *)
LEMMA BlockSizes ==
  /\ QK41 \in Nat /\ QK41 >= 1 /\ QK41 \div 2 \in Nat
  /\ QK41 = 2 * (QK41 \div 2) /\ QK41 \div 2 >= 1
  /\ BlockBytes = 4 + QK41 \div 2 /\ Group = 2 * QK41
  /\ WordCodes \in Nat /\ WordCodes >= 1 /\ WordCodes \div 2 \in Nat
  /\ WordCodes \div 2 >= 1 /\ WordCodes \div 2 <= WordCodes
  /\ ALIGN \in Nat /\ ALIGN >= 1 /\ CHUNK \in Nat /\ CHUNK >= 1
BY BlockAssumption DEF BlockBytes, Group

(* A tensor is rows of words, and U32 ones have rows of scales and biases. *)
LEMMA TensorFacts ==
  ASSUME NEW t \in Tensors
  PROVE  /\ t.rows \in Nat /\ t.rows >= 1 /\ t.words \in Nat
         /\ t.groups \in Nat
         /\ \A r \in 1..t.rows, i \in 1..t.words : t.data[r][i] \in Int
         /\ t.dtype = "U32" =>
              \A r \in 1..t.rows, g \in 1..t.groups :
                t.scales[r][g] \in Int /\ t.biases[r][g] \in Int
<1>1. t.rows \in Nat \ {0} /\ t.words \in Nat /\ t.groups \in Nat
  BY DEF Tensors
<1>2. /\ t.data \in Matrix(t.rows, t.words, Int)
      /\ t.dtype = "U32" => /\ t.scales \in Matrix(t.rows, t.groups, Int)
                            /\ t.biases \in Matrix(t.rows, t.groups, Int)
  BY DEF Tensors
<1>3. \A r \in 1..t.rows, i \in 1..t.words : t.data[r][i] \in Int
  BY <1>2 DEF Matrix
<1>4. ASSUME t.dtype = "U32"
      PROVE  \A r \in 1..t.rows, g \in 1..t.groups :
               t.scales[r][g] \in Int /\ t.biases[r][g] \in Int
  <2>1. /\ t.scales \in [1..t.rows -> [1..t.groups -> Int]]
        /\ t.biases \in [1..t.rows -> [1..t.groups -> Int]]
    BY <1>2, <1>4 DEF Matrix
  <2> DEFINE s == t.scales
             b == t.biases
             R == 1..t.rows
             G == 1..t.groups
  <2>2. s \in [R -> [G -> Int]] /\ b \in [R -> [G -> Int]]
    BY <2>1
  <2> HIDE DEF s, b, R, G
  <2>3. \A r \in R, g \in G : s[r][g] \in Int /\ b[r][g] \in Int
    BY <2>2
  <2> QED BY <2>3 DEF s, b, R, G
<1>5. t.rows \in Nat /\ t.rows >= 1
  BY <1>1
<1> QED BY <1>1, <1>3, <1>4, <1>5

(* A quantised row has as many elements as its groups. *)
LEMMA QuantRows ==
  ASSUME NEW t \in Tensors, Kind(t) \in {"q41", "f32i8"}
  PROVE  t.dtype = "U32" /\ t.groups * Group = RowLen(t)
<1>1. Kind(t) # "f16" /\ Kind(t) # "f32" /\ Kind(t) # "refused"
  OBVIOUS
<1>2. t.dtype = "U32"
  BY <1>1 DEF Kind
<1>3. CASE Kind(t) = "q41"
  <2>1. t.groups * Group = t.words * WordCodes
    BY <1>2, <1>3 DEF Kind
  <2>2. RowLen(t) = t.words * WordCodes
    BY <1>3 DEF RowLen
  <2> QED BY <1>2, <2>1, <2>2
<1>4. CASE Kind(t) = "f32i8"
  <2>1. t.groups * Group = t.words * (WordCodes \div 2)
    BY <1>2, <1>4 DEF Kind
  <2>2. RowLen(t) = t.words * (WordCodes \div 2)
    BY <1>4 DEF RowLen
  <2> QED BY <1>2, <2>1, <2>2
<1> QED BY <1>3, <1>4

(* Bytes of a row. *)
RowSize(t) ==
  CASE Kind(t) = "q41" -> (RowLen(t) \div QK41) * BlockBytes
    [] Kind(t) = "f16" -> RowLen(t) * 2
    [] OTHER -> RowLen(t) * 4

(* The registered size is that of the rows. *)
LEMMA SizesAgree ==
  ASSUME NEW t \in Tensors
  PROVE  /\ RowLen(t) \in Nat /\ RowSize(t) \in Nat
         /\ TensorSize(t) = t.rows * RowSize(t)
         /\ TensorSize(t) \in Nat /\ TensorSize(t) \div t.rows = RowSize(t)
<1>1. /\ t.rows \in Nat /\ t.rows >= 1 /\ t.words \in Nat
  BY TensorFacts
<1>2. RowLen(t) \in Nat
  BY <1>1, BlockSizes DEF RowLen
<1>3. RowSize(t) \in Nat /\ TensorSize(t) = t.rows * RowSize(t)
  <2>1. CASE Kind(t) = "q41"
    <3> DEFINE b == RowLen(t) \div QK41
    <3>1. b \in Nat /\ BlockBytes \in Nat
      BY <1>2, BlockSizes
    <3>2. /\ RowSize(t) = b * BlockBytes
          /\ TensorSize(t) = t.rows * b * BlockBytes
      BY <2>1 DEF RowSize, TensorSize
    <3> HIDE DEF b
    <3> QED BY <1>1, <3>1, <3>2
  <2>2. CASE Kind(t) = "f16"
    BY <1>1, <1>2, <2>2 DEF RowSize, TensorSize
  <2>3. CASE Kind(t) # "q41" /\ Kind(t) # "f16"
    BY <1>1, <1>2, <2>3 DEF RowSize, TensorSize
  <2> QED BY <2>1, <2>2, <2>3
<1> DEFINE n == RowSize(t)
           r == t.rows
<1>4. n \in Nat /\ r \in Nat /\ r >= 1 /\ TensorSize(t) = r * n
  BY <1>1, <1>3
<1> HIDE DEF n, r
<1>5. r * n \in Nat /\ (r * n) \div r = n
  BY <1>4
<1> QED BY <1>2, <1>3, <1>4, <1>5 DEF n, r

(* The scale and the bias of an element, which all of its group have. *)
LEMMA ScaleType ==
  ASSUME NEW t \in Tensors, Kind(t) \in {"q41", "f32i8"}, NEW r \in 1..t.rows,
         NEW i \in 0..(RowLen(t) - 1)
  PROVE  /\ i \div Group \in 0..(t.groups - 1)
         /\ ScaleOf(t, r, i) \in Int /\ BiasOf(t, r, i) \in Int
<1>1. t.dtype = "U32" /\ t.groups * Group = RowLen(t) /\ t.groups \in Nat
      /\ Group \in Nat /\ Group >= 1 /\ RowLen(t) \in Nat
  BY QuantRows, TensorFacts, SizesAgree, BlockSizes
<1>2. i \in Nat /\ i < t.groups * Group
  BY <1>1
<1>3. i \div Group \in 0..(t.groups - 1)
  BY <1>1, <1>2, DivBelow
<1>4. i \div Group + 1 \in 1..t.groups
  BY <1>1, <1>3
<1> QED BY <1>1, <1>3, <1>4, TensorFacts DEF ScaleOf, BiasOf

(* Codes are nibbles, or bytes. *)
LEMMA CodeType ==
  ASSUME NEW t \in Tensors, NEW r \in 1..t.rows, NEW i \in 0..(RowLen(t) - 1)
  PROVE  /\ Kind(t) = "q41" => Codes(t, r)[i] \in 0..15
         /\ Kind(t) = "f32i8" => Codes8(t, r)[i] \in Int
<1>1. RowLen(t) \in Nat /\ t.words \in Nat
  BY SizesAgree, TensorFacts
<1>2. ASSUME Kind(t) = "q41" PROVE Codes(t, r)[i] \in 0..15
  <2> DEFINE w == t.data[r][i \div WordCodes + 1]
             k == i % WordCodes
             z == Shifted(w, 16)[k]
  <2>1. RowLen(t) = t.words * WordCodes
    BY <1>2 DEF RowLen
  <2>2. i \in Nat /\ i < t.words * WordCodes
    BY <1>1, <2>1
  <2>3. i \div WordCodes \in 0..(t.words - 1)
    BY <1>1, <2>2, BlockSizes, DivBelow
  <2>4. i \div WordCodes + 1 \in 1..t.words /\ k \in 0..WordCodes
    BY <1>1, <2>2, <2>3, BlockSizes
  <2>5. w \in Int
    BY <2>4, TensorFacts
  <2> HIDE DEF w, k
  <2>6. z \in Int
    BY <2>4, <2>5, ShiftedType
  <2>7. Codes(t, r)[i] = z % 16
    BY DEF Codes, w, k
  <2> HIDE DEF z
  <2> QED BY <2>6, <2>7
<1>3. ASSUME Kind(t) = "f32i8" PROVE Codes8(t, r)[i] \in Int
  <2> DEFINE p == WordCodes \div 2
             w == t.data[r][i \div p + 1]
             k == i % p
             z == Shifted(w, 256)[k]
  <2>1. RowLen(t) = t.words * p
    BY <1>3 DEF RowLen
  <2>2. Codes8(t, r)[i] = z % 256
    BY DEF Codes8
  <2>0. p \in Nat /\ p >= 1 /\ p <= WordCodes /\ WordCodes \in Nat
    BY BlockSizes
  <2> HIDE DEF p
  <2>3. i \in Nat /\ i < t.words * p
    BY <1>1, <2>1
  <2>4. i \div p \in 0..(t.words - 1)
    BY <1>1, <2>0, <2>3, DivBelow
  <2>5. i \div p + 1 \in 1..t.words /\ k \in 0..WordCodes
    BY <1>1, <2>0, <2>3, <2>4
  <2>6. w \in Int
    BY <2>5, TensorFacts
  <2> HIDE DEF w, k
  <2>7. z \in Int
    BY <2>5, <2>6, ShiftedType
  <2> HIDE DEF z
  <2> QED BY <2>2, <2>7
<1> QED BY <1>2, <1>3

(* What the file is made of. *)
GgufBytes == ((Int \cup {"header"}) \X Nat) \cup {<<"pad">>}

(* The bytes of a value. *)
LEMMA BytesType ==
  ASSUME NEW v \in Int \cup {"header"}, NEW n \in Nat
  PROVE  Bytes(v, n) \in Seq(GgufBytes) /\ Len(Bytes(v, n)) = n
<1>1. \A i \in 1..n : <<v, i>> \in GgufBytes
  BY DEF GgufBytes
<1>2. Bytes(v, n) = [i \in 1..n |-> <<v, i>>]
  BY DEF Bytes
<1> QED BY <1>1, <1>2

(* fp16 of a number is a number. *)
LEMMA RoundedType == ASSUME NEW v \in Int PROVE F16(v) \in Int
BY DEF F16

(* w is s and behind it u. *)
Follows(w, s, u) ==
  /\ Len(s) \in Nat /\ Len(u) \in Nat /\ Len(w) = Len(s) + Len(u)
  /\ \A x \in 1..Len(s) : w[x] = s[x]
  /\ \A x \in 1..Len(u) : w[Len(s) + x] = u[x]

(* Two sequences, one behind the other. *)
LEMMA ConcatAt ==
  ASSUME NEW S, NEW s \in Seq(S), NEW u \in Seq(S)
  PROVE  s \o u \in Seq(S) /\ Follows(s \o u, s, u)
<1>1. Len(s) \in Nat /\ Len(u) \in Nat
  BY LenProperties
<1>2. /\ s \o u \in Seq(S) /\ Len(s \o u) = Len(s) + Len(u)
      /\ \A y \in 1..(Len(s) + Len(u)) :
           (s \o u)[y] = IF y <= Len(s) THEN s[y] ELSE u[y - Len(s)]
  BY ConcatProperties
<1>3. ASSUME NEW x \in 1..Len(s) PROVE (s \o u)[x] = s[x]
  <2>1. x \in 1..(Len(s) + Len(u)) /\ x <= Len(s)
    BY <1>1
  <2> QED BY <1>2, <2>1
<1>4. ASSUME NEW x \in 1..Len(u) PROVE (s \o u)[Len(s) + x] = u[x]
  <2>1. /\ Len(s) + x \in 1..(Len(s) + Len(u)) /\ ~(Len(s) + x <= Len(s))
        /\ (Len(s) + x) - Len(s) = x
    BY <1>1
  <2> QED BY <1>2, <2>1
<1> QED BY <1>1, <1>2, <1>3, <1>4 DEF Follows

(* A block: the scale, the bias and the codes of both halves. *)
LEMMA BlockAt ==
  ASSUME NEW t \in Tensors, Kind(t) = "q41", NEW r \in 1..t.rows,
         NEW k \in 0..((RowLen(t) \div QK41) - 1)
  PROVE  /\ PackBlock(t, r, k) \in Seq(GgufBytes)
         /\ Len(PackBlock(t, r, k)) = BlockBytes
         /\ PackBlock(t, r, k)[1] = <<F16(ScaleOf(t, r, k * QK41)), 1>>
         /\ PackBlock(t, r, k)[3] = <<F16(BiasOf(t, r, k * QK41)), 1>>
         /\ \A j \in 1..(QK41 \div 2) :
              PackBlock(t, r, k)[4 + j] =
                <<Codes(t, r)[k * QK41 + j - 1]
                    + 16 * Codes(t, r)[k * QK41 + (QK41 \div 2) + j - 1], 1>>
<1> DEFINE q == Codes(t, r)
           f == k * QK41
           h == QK41 \div 2
           n == RowLen(t) \div QK41
           a == Bytes(F16(ScaleOf(t, r, f)), 2)
           b == Bytes(F16(BiasOf(t, r, f)), 2)
           c == [j \in 1..h |-> <<q[f + j - 1] + 16 * q[f + h + j - 1], 1>>]
<1>1. PackBlock(t, r, k) = (a \o b) \o c
  BY DEF PackBlock
<1>2. /\ RowLen(t) \in Nat /\ n \in Nat /\ h \in Nat /\ QK41 = 2 * h
      /\ QK41 \in Nat
      /\ QK41 >= 1 /\ h >= 1
  BY SizesAgree, BlockSizes
<1>3. f \in Nat /\ f + QK41 <= RowLen(t)
  <2>1. f \in Nat /\ f + QK41 <= n * QK41
    <3>1. k \in 0..(n - 1)
      OBVIOUS
    <3> HIDE DEF n
    <3> QED BY <1>2, <3>1, Blocks
  <2>2. n * QK41 <= RowLen(t)
    <3> DEFINE z == RowLen(t)
               i == z % QK41
    <3>1. z \in Nat /\ n = z \div QK41 /\ i = z % QK41
      BY <1>2
    <3> HIDE DEF z, i, n
    <3>2. i \in Nat /\ n \in Nat /\ z = QK41 * n + i
      BY <1>2, <3>1
    <3>3. z = n * QK41 + i /\ n * QK41 \in Nat
      BY <1>2, <3>2
    <3> QED BY <3>1, <3>2, <3>3 DEF z
  <2> DEFINE z == n * QK41
  <2>3. f + QK41 <= z /\ z <= RowLen(t) /\ z \in Int
    BY <1>2, <2>1, <2>2
  <2> HIDE DEF z, f, n
  <2> QED BY <1>2, <2>1, <2>3
<1> HIDE DEF f, h, n
<1>4. f \in 0..(RowLen(t) - 1)
  BY <1>2, <1>3
<1>5. ScaleOf(t, r, f) \in Int /\ BiasOf(t, r, f) \in Int
  BY <1>4, ScaleType
<1>6. F16(ScaleOf(t, r, f)) \in Int /\ F16(BiasOf(t, r, f)) \in Int
  BY <1>5, RoundedType
<1>7. a \in Seq(GgufBytes) /\ Len(a) = 2 /\ b \in Seq(GgufBytes) /\ Len(b) = 2
  <2>1. \A v \in Int : v \in Int \cup {"header"}
    OBVIOUS
  <2> QED BY <1>6, <2>1, BytesType
<1>8. a[1] = <<F16(ScaleOf(t, r, f)), 1>> /\ b[1] = <<F16(BiasOf(t, r, f)), 1>>
  BY DEF Bytes
<1>9. c \in Seq(GgufBytes) /\ Len(c) = h
  <2>1. ASSUME NEW j \in 1..h
        PROVE  <<q[f + j - 1] + 16 * q[f + h + j - 1], 1>> \in GgufBytes
    <3>1. /\ f + j - 1 \in 0..(RowLen(t) - 1)
          /\ f + h + j - 1 \in 0..(RowLen(t) - 1)
      BY <1>2, <1>3
    <3>2. q[f + j - 1] \in 0..15 /\ q[f + h + j - 1] \in 0..15
      BY <3>1, CodeType
    <3> DEFINE u == q[f + j - 1]
               v == q[f + h + j - 1]
    <3>3. u \in Int /\ v \in Int
      BY <3>2
    <3> HIDE DEF u, v
    <3>4. u + 16 * v \in Int
      BY <3>3
    <3> QED BY <3>4 DEF u, v, GgufBytes
  <2> QED BY <1>2, <2>1
<1>10. \A j \in 1..h : c[j] = <<q[f + j - 1] + 16 * q[f + h + j - 1], 1>>
  OBVIOUS
<1> HIDE DEF a, b, c
<1>11. /\ a \o b \in Seq(GgufBytes) /\ Len(a \o b) = 4
       /\ (a \o b)[1] = a[1] /\ (a \o b)[3] = b[1]
  <2>1. a \o b \in Seq(GgufBytes) /\ Follows(a \o b, a, b)
    BY <1>7, ConcatAt
  <2>2. (a \o b)[2 + 1] = b[1] /\ (a \o b)[1] = a[1]
    BY <1>7, <2>1 DEF Follows
  <2> QED BY <1>7, <2>1, <2>2 DEF Follows
<1> DEFINE ab == a \o b
<1> HIDE DEF ab
<1>12. /\ ab \o c \in Seq(GgufBytes) /\ Len(ab \o c) = 4 + h
       /\ (ab \o c)[1] = a[1] /\ (ab \o c)[3] = b[1]
       /\ \A j \in 1..h : (ab \o c)[4 + j] = c[j]
  <2>1. ab \in Seq(GgufBytes) /\ Len(ab) = 4 /\ ab[1] = a[1] /\ ab[3] = b[1]
    BY <1>11 DEF ab
  <2>2. ab \o c \in Seq(GgufBytes) /\ Follows(ab \o c, ab, c)
    BY <1>9, <2>1, ConcatAt
  <2> QED BY <1>9, <2>1, <2>2 DEF Follows
<1>13. BlockBytes = 4 + h
  BY BlockSizes DEF h
<1> QED BY <1>1, <1>8, <1>10, <1>12, <1>13 DEF ab, f, h

(* A packed row is its blocks. *)
LEMMA PackedRowIs ==
  ASSUME NEW t \in Tensors, Kind(t) = "q41", NEW r \in 1..t.rows
  PROVE  /\ PackedRow(t, r) \in Seq(GgufBytes)
         /\ Rowed(PackedRow(t, r),
                  [k \in 1..(RowLen(t) \div QK41) |-> PackBlock(t, r, k - 1)],
                  RowLen(t) \div QK41, BlockBytes)
<1> DEFINE n == RowLen(t) \div QK41
           seqs == [k \in 1..n |-> PackBlock(t, r, k - 1)]
<1>1. n \in Nat /\ BlockBytes \in Nat
  BY SizesAgree, BlockSizes
<1>2. ASSUME NEW k \in 1..n
      PROVE  /\ PackBlock(t, r, k - 1) \in Seq(GgufBytes)
             /\ Len(PackBlock(t, r, k - 1)) = BlockBytes
  <2>1. k - 1 \in 0..(n - 1)
    BY <1>1
  <2> QED BY <2>1, BlockAt
<1>3. /\ seqs \in [1..n -> Seq(GgufBytes)]
      /\ \A k \in 1..n : Len(seqs[k]) = BlockBytes
  BY <1>2
<1>4. PackedRow(t, r) = FlattenSeq(seqs)
  BY DEF PackedRow
<1> HIDE DEF n, seqs
<1>5. FlattenSeq(seqs) \in Seq(GgufBytes)
      /\ Rowed(FlattenSeq(seqs), seqs, n, BlockBytes)
  BY <1>1, <1>3, FlattenRows
<1> QED BY <1>4, <1>5 DEF n, seqs

(* A row has the bytes its size says. *)
LEMMA RowType ==
  ASSUME NEW t \in Tensors, NEW r \in 1..t.rows
  PROVE  RowBytes(t, r) \in Seq(GgufBytes) /\ Len(RowBytes(t, r)) = RowSize(t)
<1> DEFINE n == RowLen(t)
<1>1. n \in Nat
  BY SizesAgree
<1>2. CASE Kind(t) = "q41"
  <2>1. /\ RowBytes(t, r) = PackedRow(t, r)
        /\ RowSize(t) = (n \div QK41) * BlockBytes
    BY <1>2 DEF RowBytes, RowSize
  <2>2. PackedRow(t, r) \in Seq(GgufBytes)
        /\ Len(PackedRow(t, r)) = (n \div QK41) * BlockBytes
    BY <1>2, PackedRowIs DEF Rowed
  <2> QED BY <2>1, <2>2
<1>3. ASSUME NEW seqs \in [1..n -> Seq(GgufBytes)], NEW m \in Nat,
             \A i \in 1..n : Len(seqs[i]) = m
      PROVE  /\ FlattenSeq(seqs) \in Seq(GgufBytes)
             /\ Len(FlattenSeq(seqs)) = n * m
  <2> HIDE DEF n
  <2>1. /\ FlattenSeq(seqs) \in Seq(GgufBytes)
        /\ Rowed(FlattenSeq(seqs), seqs, n, m)
    BY <1>1, <1>3, FlattenRows
  <2> QED BY <2>1 DEF Rowed
<1>4. CASE Kind(t) = "f32i8"
  <2> DEFINE V(i) == Codes8(t, r)[i - 1] * ScaleOf(t, r, i - 1)
                       + BiasOf(t, r, i - 1)
             seqs == [i \in 1..n |-> Bytes(V(i), 4)]
  <2>1. RowBytes(t, r) = FlattenSeq(seqs) /\ RowSize(t) = n * 4
    BY <1>4 DEF RowBytes, RowSize
  <2>2. ASSUME NEW i \in 1..n PROVE V(i) \in Int \cup {"header"}
    <3> DEFINE a == Codes8(t, r)[i - 1]
               b == ScaleOf(t, r, i - 1)
               c == BiasOf(t, r, i - 1)
    <3>1. i - 1 \in 0..(n - 1)
      BY <1>1
    <3>2. a \in Int /\ b \in Int /\ c \in Int
      BY <1>4, <3>1, CodeType, ScaleType
    <3> HIDE DEF a, b, c
    <3>3. a * b + c \in Int
      BY <3>2
    <3> QED BY <3>3 DEF a, b, c
  <2> HIDE DEF V
  <2>3. /\ seqs \in [1..n -> Seq(GgufBytes)]
        /\ \A i \in 1..n : Len(seqs[i]) = 4
    BY <2>2, BytesType
  <2> HIDE DEF seqs, n
  <2>4. /\ FlattenSeq(seqs) \in Seq(GgufBytes)
        /\ Len(FlattenSeq(seqs)) = n * 4
    BY <1>3, <2>3
  <2> QED BY <2>1, <2>4
<1>5. CASE Kind(t) # "q41" /\ Kind(t) # "f32i8"
  <2> DEFINE m == IF Kind(t) = "f16" THEN 2 ELSE 4
             seqs == [i \in 1..n |-> Bytes(t.data[r][i], m)]
  <2>1. RowBytes(t, r) = FlattenSeq(seqs) /\ RowSize(t) = n * m
    BY <1>5 DEF RowBytes, RowSize
  <2>2. n = t.words /\ m \in Nat
    BY <1>5 DEF RowLen
  <2> HIDE DEF m
  <2>3. ASSUME NEW i \in 1..n PROVE t.data[r][i] \in Int \cup {"header"}
    BY <2>2, TensorFacts
  <2>4. /\ seqs \in [1..n -> Seq(GgufBytes)]
        /\ \A i \in 1..n : Len(seqs[i]) = m
    BY <2>2, <2>3, BytesType
  <2>5. m \in Nat
    BY <2>2
  <2> HIDE DEF seqs, n
  <2>6. /\ FlattenSeq(seqs) \in Seq(GgufBytes)
        /\ Len(FlattenSeq(seqs)) = n * m
    BY <1>3, <2>4, <2>5
  <2> QED BY <2>1, <2>6
<1> QED BY <1>2, <1>4, <1>5

(* Two nibbles in a byte. *)
LEMMA Nibbles ==
  ASSUME NEW a \in 0..15, NEW b \in 0..15
  PROVE  (a + 16 * b) % 16 = a /\ (a + 16 * b) \div 16 = b
OBVIOUS

(* The blocks of a group. *)
LEMMA GroupOfBlock ==
  ASSUME NEW i \in Nat, NEW b, b = i \div QK41, NEW g, g = i \div Group
  PROVE  /\ b \in Nat /\ g \in Nat /\ (b = 2 * g \/ b = 2 * g + 1)
         /\ (b * QK41) \div Group = g
         /\ i \in (g * Group)..(g * Group + Group - 1)
<1> DEFINE n == QK41
           j == i % n
           h == IF b % 2 = 0 THEN 0 ELSE 1
           c == b \div 2
<1>1. n \in Nat /\ n >= 1 /\ Group = 2 * n
  BY BlockSizes
<1>2. b \in Nat /\ j \in 0..(n - 1) /\ i = n * b + j
  <2>1. b = i \div n /\ j = i % n
    OBVIOUS
  <2> HIDE DEF n, j
  <2>2. b \in Nat /\ j \in 0..(n - 1)
    BY <1>1, <2>1
  <2>3. j \in Nat
    BY <1>1, <2>2
  <2>4. i = n * b + j
    BY <1>1, <2>1, <2>2, <2>3, DivMod
  <2> QED BY <2>2, <2>4
<1>3. c \in Nat /\ h \in 0..1 /\ b = 2 * c + h
  BY <1>2
<1> HIDE DEF n, j, h, c
<1>4. i = (2 * n) * c + (n * h + j) /\ n * h + j \in 0..(2 * n - 1)
  <2>1. CASE h = 0
    BY <1>1, <1>2, <1>3, <2>1
  <2>2. CASE h = 1
    BY <1>1, <1>2, <1>3, <2>2
  <2> QED BY <1>3, <2>1, <2>2
<1>5. b * n = (2 * n) * c + n * h /\ n * h \in 0..(2 * n - 1)
  <2>1. CASE h = 0
    BY <1>1, <1>2, <1>3, <2>1
  <2>2. CASE h = 1
    BY <1>1, <1>2, <1>3, <2>2
  <2> QED BY <1>3, <2>1, <2>2
<1> DEFINE m == 2 * n
           x == n * h + j
           y == n * h
           z == b * n
<1>6. /\ m \in Nat /\ m >= 1 /\ x \in 0..(m - 1) /\ y \in 0..(m - 1)
      /\ i = m * c + x /\ z = m * c + y /\ m = Group
  BY <1>1, <1>4, <1>5
<1> HIDE DEF m, x, y, z
<1>7. i \div m = c /\ z \div m = c /\ z \in Nat
  BY <1>3, <1>6
<1>8. g = c
  BY <1>6, <1>7
<1>9. i \in (c * m)..(c * m + m - 1)
  <2>1. c * m = m * c /\ m * c \in Int
    BY <1>3, <1>6
  <2> DEFINE w == m * c
  <2>2. i = w + x /\ w \in Int /\ c * m = w
    BY <1>6, <2>1
  <2> HIDE DEF w
  <2> QED BY <1>6, <2>2
<1>10. (b * QK41) \div Group = g
  BY <1>6, <1>7, <1>8 DEF z, n
<1> QED BY <1>2, <1>3, <1>6, <1>8, <1>9, <1>10

(* What deq_gguf_side computes: the element's code with the rounded scale  *)
(* and bias of its group.                                                  *)
LEMMA Decodes ==
  ASSUME NEW t \in Tensors, Kind(t) = "q41", NEW r \in 1..t.rows,
         NEW i \in 0..(RowLen(t) - 1)
  PROVE  DeqGgufSide(PackedRow(t, r), i) =
           Codes(t, r)[i] * F16(ScaleOf(t, r, i)) + F16(BiasOf(t, r, i))
<1> DEFINE q == Codes(t, r)
           row1 == PackedRow(t, r)
           n == RowLen(t) \div QK41
           b == i \div QK41
           j == i % QK41
           h == QK41 \div 2
           f == b * QK41
           at == b * BlockBytes
           block == PackBlock(t, r, b)
<1>1. /\ QK41 \in Nat /\ QK41 >= 1 /\ h \in Nat /\ QK41 = 2 * h
      /\ BlockBytes = 4 + h /\ BlockBytes \in Nat /\ RowLen(t) \in Nat
      /\ i \in Nat
  BY BlockSizes, SizesAgree
<1>2. /\ b \in 0..(n - 1) /\ n \in Nat
  <2>1. RowLen(t) = t.groups * Group /\ t.groups \in Nat /\ Group = 2 * QK41
    BY QuantRows, TensorFacts, BlockSizes
  <2> DEFINE g == t.groups
             m == QK41
  <2>2. RowLen(t) = (2 * g) * m /\ 2 * g \in Nat /\ m \in Nat /\ m >= 1
    BY <1>1, <2>1
  <2>3. i < (2 * g) * m
    BY <1>1, <2>2
  <2> HIDE DEF g
  <2>4. b \in 0..(2 * g - 1)
    BY <1>1, <2>2, <2>3, DivBelow
  <2>5. n = 2 * g
    <3> DEFINE k == 2 * g
    <3>1. k \in Nat /\ RowLen(t) = k * m
      BY <2>2
    <3> HIDE DEF k, m
    <3>2. (k * m) \div m = k
      BY <2>2, <3>1
    <3> QED BY <3>1, <3>2 DEF k, m
  <2> QED BY <2>2, <2>4, <2>5
<1>3. j \in 0..(QK41 - 1) /\ i = f + j /\ f \in Nat
  <2> DEFINE m == QK41
  <2>1. b = i \div m /\ j = i % m /\ m \in Nat /\ m >= 1 /\ b \in Nat
    BY <1>1, <1>2
  <2> HIDE DEF m, b, j
  <2>2. j \in 0..(m - 1)
    BY <1>1, <2>1
  <2>3. i = m * b + j
    BY <1>1, <2>1, <2>2
  <2>4. m * b = b * m /\ b * m \in Nat
    BY <2>1
  <2> QED BY <2>2, <2>3, <2>4 DEF m
<1>4. ASSUME NEW x \in 1..BlockBytes PROVE row1[at + x] = block[x]
  <2> DEFINE seqs == [k \in 1..n |-> PackBlock(t, r, k - 1)]
  <2>1. Rowed(row1, seqs, n, BlockBytes)
    BY PackedRowIs
  <2>2. b + 1 \in 1..n /\ (b + 1) - 1 = b
    BY <1>2
  <2>3. seqs[b + 1] = block
    BY <2>2
  <2> HIDE DEF seqs, n, b, row1, block
  <2>4. row1[((b + 1) - 1) * BlockBytes + x] = seqs[b + 1][x]
    BY <2>1, <2>2 DEF Rowed
  <2> QED BY <2>2, <2>3, <2>4
<1>5. /\ block[1] = <<F16(ScaleOf(t, r, f)), 1>>
      /\ block[3] = <<F16(BiasOf(t, r, f)), 1>>
      /\ \A y \in 1..h :
           block[4 + y] = <<q[f + y - 1] + 16 * q[f + h + y - 1], 1>>
  BY <1>2, BlockAt
<1>6. f \div Group = i \div Group
  <2>1. \A g : g = i \div Group => (b * QK41) \div Group = g
    BY <1>1, GroupOfBlock
  <2> QED BY <2>1
<1>7. ScaleOf(t, r, f) = ScaleOf(t, r, i) /\ BiasOf(t, r, f) = BiasOf(t, r, i)
  BY <1>6 DEF ScaleOf, BiasOf
<1> DEFINE code == IF j < h THEN row1[at + 5 + j][1] % 16
                   ELSE row1[at + 5 + j - h][1] \div 16
<1>8. DeqGgufSide(row1, i) = code * row1[at + 1][1] + row1[at + 3][1]
  BY DEF DeqGgufSide
<1>9. at \in Nat
  <2>1. b \in Nat
    BY <1>2
  <2> QED BY <1>1, <2>1
<1> HIDE DEF q, row1, n, b, h, f, at, block, j
<1>10. ASSUME NEW y \in 1..h
       PROVE  /\ (q[f + y - 1] + 16 * q[f + h + y - 1]) % 16 = q[f + y - 1]
              /\ (q[f + y - 1] + 16 * q[f + h + y - 1]) \div 16
                   = q[f + h + y - 1]
              /\ row1[at + (4 + y)][1] = q[f + y - 1] + 16 * q[f + h + y - 1]
  <2>1. f + QK41 <= RowLen(t)
    <3>1. f \in Nat /\ f + QK41 <= n * QK41
      BY <1>1, <1>2, Blocks DEF f
    <3>2. n * QK41 <= RowLen(t)
      <4> DEFINE z == RowLen(t)
                 k == z % QK41
      <4>1. z \in Nat /\ n = z \div QK41 /\ k = z % QK41
        BY <1>1 DEF n
      <4> HIDE DEF z, k
      <4>2. k \in Nat
        BY <1>1, <4>1
      <4>3. z = QK41 * n + k
        BY <1>1, <1>2, <4>1, <4>2
      <4>4. z = n * QK41 + k /\ n * QK41 \in Nat
        BY <1>1, <1>2, <4>3
      <4> QED BY <4>1, <4>2, <4>4 DEF z
    <3> DEFINE z == n * QK41
    <3>3. f + QK41 <= z /\ z <= RowLen(t) /\ z \in Int
      BY <1>1, <1>2, <3>1, <3>2
    <3> HIDE DEF z
    <3> QED BY <1>1, <3>1, <3>3
  <2>2. /\ f + y - 1 \in 0..(RowLen(t) - 1)
        /\ f + h + y - 1 \in 0..(RowLen(t) - 1)
    BY <1>1, <1>3, <2>1
  <2>3. q[f + y - 1] \in 0..15 /\ q[f + h + y - 1] \in 0..15
    BY <2>2, CodeType DEF q
  <2>4. 4 + y \in 1..BlockBytes
    BY <1>1
  <2>5. row1[at + (4 + y)] = block[4 + y]
    BY <1>4, <2>4
  <2>6. row1[at + (4 + y)][1] = q[f + y - 1] + 16 * q[f + h + y - 1]
    BY <1>5, <2>5
  <2> QED BY <2>3, <2>6, Nibbles
<1>11. code = q[i]
  <2>1. CASE j < h
    <3>1. /\ j + 1 \in 1..h /\ at + (4 + (j + 1)) = at + 5 + j
          /\ f + (j + 1) - 1 = i
      BY <1>1, <1>3, <1>9, <2>1
    <3> QED BY <1>10, <2>1, <3>1
  <2>2. CASE ~(j < h)
    <3> DEFINE y == j - h + 1
    <3>1. /\ y \in 1..h /\ at + (4 + y) = at + 5 + j - h
          /\ f + h + y - 1 = i
      BY <1>1, <1>3, <1>9, <2>2
    <3> HIDE DEF y
    <3> QED BY <1>10, <2>2, <3>1
  <2> QED BY <2>1, <2>2
<1>12. /\ row1[at + 1][1] = F16(ScaleOf(t, r, i))
       /\ row1[at + 3][1] = F16(BiasOf(t, r, i))
  <2>1. 1 \in 1..BlockBytes /\ 3 \in 1..BlockBytes
    BY <1>1
  <2>2. row1[at + 1] = block[1] /\ row1[at + 3] = block[3]
    BY <1>4, <2>1
  <2> QED BY <1>5, <1>7, <2>2
<1> QED BY <1>8, <1>11, <1>12 DEF q, row1

(* Both sides agree where fp16 holds scale and bias, and where only the    *)
(* scale is rounded but the code is zero.                                  *)
LEMMA DecodesExactly ==
  ASSUME NEW t \in Tensors, Kind(t) = "q41", NEW r \in 1..t.rows,
         NEW i \in 0..(RowLen(t) - 1),
         F16(BiasOf(t, r, i)) = BiasOf(t, r, i),
         F16(ScaleOf(t, r, i)) = ScaleOf(t, r, i) \/ Codes(t, r)[i] = 0
  PROVE  DeqGgufSide(PackedRow(t, r), i) = DeqMlxSide(t, r, i)
<1> DEFINE s == ScaleOf(t, r, i)
           c == Codes(t, r)[i]
<1>1. s \in Int /\ F16(s) \in Int /\ c \in Int
  <2>1. s \in Int
    BY ScaleType
  <2>2. c \in 0..15
    BY CodeType
  <2> QED BY <2>1, <2>2, RoundedType
<1>2. c * F16(s) = c * s
  <2>1. F16(s) = s \/ c = 0
    OBVIOUS
  <2> HIDE DEF s, c
  <2>2. CASE F16(s) = s
    BY <2>2
  <2>3. CASE c = 0
    BY <1>1, <2>3
  <2> QED BY <2>1, <2>2, <2>3
<1>3. DeqGgufSide(PackedRow(t, r), i) = c * F16(s) + F16(BiasOf(t, r, i))
  BY Decodes
<1>4. DeqMlxSide(t, r, i) = c * s + BiasOf(t, r, i)
  BY DEF DeqMlxSide
<1> QED BY <1>2, <1>3, <1>4

(* The parity gate never finds a difference. *)
LEMMA GateAlways ==
  ASSUME NEW t \in Tensors, Kind(t) = "q41", NEW rows \in SUBSET (1..t.rows)
  PROVE  GateHolds(t, rows)
<1> SUFFICES ASSUME NEW r \in rows, NEW i \in 0..(RowLen(t) - 1),
                    <<r, i \div QK41>> \notin Exempt(t, r)
             PROVE  DeqMlxSide(t, r, i) = DeqGgufSide(PackedRow(t, r), i)
  BY DEF GateHolds
<1> DEFINE g == i \div Group
           b == i \div QK41
<1>1. r \in 1..t.rows /\ i \in Nat
  BY SizesAgree
<1>2. /\ g \in 0..(t.groups - 1) /\ (b = 2 * g \/ b = 2 * g + 1)
      /\ i \in (g * Group)..(g * Group + Group - 1)
  <2>1. g \in 0..(t.groups - 1)
    BY <1>1, ScaleType
  <2>2. \A u, v : u = i \div QK41 /\ v = i \div Group =>
          /\ u = 2 * v \/ u = 2 * v + 1
          /\ i \in (v * Group)..(v * Group + Group - 1)
    BY <1>1, GroupOfBlock
  <2> QED BY <2>1, <2>2
<1>3. g \notin Malignant(t, r)
  <2> SUFFICES ASSUME g \in Malignant(t, r) PROVE FALSE
    OBVIOUS
  <2> HIDE DEF g, b
  <2>1. ASSUME NEW h \in {0, 1} PROVE <<r, 2 * g + h>> \in Exempt(t, r)
    <3> DEFINE S == Malignant(t, r)
               T == {0, 1}
               e == <<r, 2 * g + h>>
    <3>1. Exempt(t, r) = {<<r, 2 * x + y>> : x \in S, y \in T}
      BY DEF Exempt
    <3>2. g \in S /\ h \in T /\ e = <<r, 2 * g + h>>
      OBVIOUS
    <3> HIDE DEF S, T, e
    <3>3. e \in {<<r, 2 * x + y>> : x \in S, y \in T}
      BY <3>2
    <3> QED BY <3>1, <3>3 DEF e
  <2>2. g \in Int
    BY <1>2
  <2>3. 2 * g + 0 = 2 * g
    BY <2>2
  <2>4. <<r, b>> \in Exempt(t, r)
    BY <1>2, <2>1, <2>3
  <2> QED BY <2>4 DEF b
<1>4. /\ F16(BiasOf(t, r, i)) = BiasOf(t, r, i)
      /\ F16(ScaleOf(t, r, i)) = ScaleOf(t, r, i) \/ Codes(t, r)[i] = 0
  BY <1>2, <1>3 DEF Malignant, ScaleOf, BiasOf
<1> QED BY <1>1, <1>4, DecodesExactly

-----------------------------------------------------------------------------
(* Offsets.                                                                 *)

(* A multiple of the alignment. *)
Aligned(a) == \E q \in Nat : a = ALIGN * q

(* Adding up multiples. *)
LEMMA AlignedSum ==
  ASSUME NEW a, Aligned(a), NEW b, Aligned(b)
  PROVE  a \in Nat /\ a % ALIGN = 0 /\ Aligned(a + b)
<1>1. PICK p \in Nat : a = ALIGN * p
  BY DEF Aligned
<1>2. PICK q \in Nat : b = ALIGN * q
  BY DEF Aligned
<1>3. ALIGN \in Nat /\ ALIGN >= 1
  BY BlockSizes
<1>4. a \in Nat /\ a % ALIGN = 0
  <2>1. (ALIGN * p) % ALIGN = 0
    BY <1>3
  <2>2. ALIGN * p \in Nat
    BY <1>3
  <2> QED BY <1>1, <2>1, <2>2
<1>5. a + b = ALIGN * (p + q) /\ p + q \in Nat
  BY <1>1, <1>2, <1>3
<1> QED BY <1>4, <1>5 DEF Aligned

(* Padding fills up to a multiple, and depends on the part behind the last *)
(* multiple only.                                                          *)
LEMMA PaddingAligns ==
  ASSUME NEW n \in Nat
  PROVE  /\ Padding(n) \in Nat /\ Aligned(n + Padding(n))
         /\ \A a : Aligned(a) => Padding(a + n) = Padding(n)
<1> DEFINE A == ALIGN
           q == n \div A
           e == n % A
<1>1. A \in Nat /\ A >= 1
  BY BlockSizes
<1>2. q \in Nat /\ e \in 0..(A - 1) /\ n = A * q + e
  <2>1. q = n \div A /\ e = n % A
    OBVIOUS
  <2> HIDE DEF A, q, e
  <2>2. q \in Nat /\ e \in 0..(A - 1) /\ e \in Nat
    BY <1>1, <2>1
  <2> QED BY <1>1, <2>1, <2>2, DivMod
<1>3. Padding(n) = (A - e) % A
  BY DEF Padding
<1>4. ASSUME NEW a, Aligned(a) PROVE (a + n) % A = e
  <2>1. PICK p \in Nat : a = A * p
    BY <1>4 DEF Aligned
  <2> HIDE DEF A, q, e
  <2>2. a + n = A * (p + q) + e /\ p + q \in Nat /\ a + n \in Nat
    BY <1>1, <1>2, <2>1
  <2> DEFINE z == a + n
             k == p + q
  <2>3. z = A * k + e /\ k \in Nat /\ z \in Nat
    BY <2>2
  <2> HIDE DEF z, k
  <2>4. z % A = e
    BY <1>1, <1>2, <2>3
  <2> QED BY <2>4 DEF z
<1>5. \A a : Aligned(a) => Padding(a + n) = Padding(n)
  BY <1>3, <1>4 DEF Padding
<1>6. Padding(n) \in Nat /\ Aligned(n + Padding(n))
  <2> HIDE DEF q, e
  <2>1. CASE e = 0
    <3> HIDE DEF A
    <3>1. (A - e) % A = 0
      BY <1>1, <2>1
    <3>2. n + Padding(n) = A * q
      BY <1>1, <1>2, <1>3, <2>1, <3>1
    <3> QED BY <1>2, <1>3, <3>1, <3>2 DEF Aligned, A
  <2>2. CASE e # 0
    <3> HIDE DEF A
    <3> DEFINE d == A - e
    <3>1. d \in Nat /\ d >= 1 /\ d < A
      BY <1>1, <1>2, <2>2
    <3> HIDE DEF d
    <3>2. d % A = d
      BY <1>1, <3>1
    <3>3. Padding(n) = d /\ d = A - e
      BY <1>3, <3>2 DEF d
    <3>4. n + d = A * (q + 1) /\ q + 1 \in Nat
      BY <1>1, <1>2, <3>3
    <3> QED BY <3>1, <3>3, <3>4 DEF Aligned, A
  <2> QED BY <2>1, <2>2
<1> QED BY <1>5, <1>6

(* The plan is tensors of the checkpoint. *)
LEMMA PlanType == ASSUME NEW c \in Checkpoints PROVE Plan(c) \in Seq(Tensors)
<1> DEFINE n == Len(c)
           seqs == [i \in 1..n |-> IF c[i].skip THEN <<>> ELSE <<c[i]>>]
<1>1. c \in Seq(Tensors)
  BY TensorAssumption
<1>2. n \in Nat /\ DOMAIN c = 1..n /\ \A i \in 1..n : c[i] \in Tensors
  BY <1>1, LenProperties, ElementOfSeq
<1> HIDE DEF n
<1>3. seqs \in [1..n -> Seq(Tensors)]
  BY <1>2
<1>4. Plan(c) = FlattenSeq(seqs)
  BY <1>2 DEF Plan
<1> HIDE DEF seqs
<1> QED BY <1>2, <1>3, <1>4, FlattenHas

(* Where the tensors of a plan begin, and after them where the last ends. *)
Starts(plan) ==
  RunningTotals([i \in DOMAIN plan |->
    TensorSize(plan[i]) + Padding(TensorSize(plan[i]))])

(* Every tensor begins at a multiple of the alignment. *)
LEMMA StartsAligned ==
  ASSUME NEW plan \in Seq(Tensors)
  PROVE  /\ Starts(plan)[0] = 0
         /\ \A i \in 0..Len(plan) : /\ Starts(plan)[i] \in Nat
                                    /\ Aligned(Starts(plan)[i])
         /\ \A i \in 1..Len(plan) :
              Starts(plan)[i] = Starts(plan)[i - 1]
                + (TensorSize(plan[i]) + Padding(TensorSize(plan[i])))
<1> DEFINE n == Len(plan)
           sizes == [i \in DOMAIN plan |->
                       TensorSize(plan[i]) + Padding(TensorSize(plan[i]))]
           off == RunningTotals(sizes)
<1>1. n \in Nat /\ DOMAIN plan = 1..n
  BY LenProperties
<1>2. ASSUME NEW i \in 1..n
      PROVE  /\ TensorSize(plan[i]) \in Nat
             /\ TensorSize(plan[i]) + Padding(TensorSize(plan[i])) \in Nat
             /\ Aligned(TensorSize(plan[i]) + Padding(TensorSize(plan[i])))
  <2>1. plan[i] \in Tensors
    BY ElementOfSeq
  <2>2. TensorSize(plan[i]) \in Nat
    BY <2>1, SizesAgree
  <2> DEFINE z == TensorSize(plan[i])
  <2>3. z \in Nat
    BY <2>2
  <2> HIDE DEF z
  <2>4. Padding(z) \in Nat /\ Aligned(z + Padding(z))
    BY <2>3, PaddingAligns
  <2>5. z + Padding(z) \in Nat
    BY <2>3, <2>4
  <2> QED BY <2>3, <2>4, <2>5 DEF z
<1>3. /\ sizes \in [1..n -> Nat] /\ \A i \in 1..n : Aligned(sizes[i])
      /\ \A i \in 1..n :
           sizes[i] = TensorSize(plan[i]) + Padding(TensorSize(plan[i]))
  BY <1>1, <1>2
<1>4. Starts(plan) = off
  BY DEF Starts
<1> HIDE DEF n, sizes
<1>5. off \in [0..n -> Nat] /\ Adds(off, sizes, n)
  BY <1>1, <1>3, TotalsAdd
<1> HIDE DEF off
<1> DEFINE P == {i \in Nat : i <= n => Aligned(off[i])}
<1>6. 0 \in P
  <2>1. off[0] = ALIGN * 0
    BY <1>5, BlockSizes DEF Adds
  <2>2. Aligned(off[0])
    BY <2>1 DEF Aligned
  <2> QED BY <2>2
<1>7. ASSUME NEW i \in 1..n, i - 1 \in P PROVE i \in P
  <2>1. i \in Nat /\ Aligned(off[i - 1])
    BY <1>1, <1>7
  <2>2. Aligned(sizes[i]) /\ off[i] = off[i - 1] + sizes[i]
    BY <1>3, <1>5 DEF Adds
  <2>3. Aligned(off[i])
    BY <2>1, <2>2, AlignedSum
  <2> QED BY <2>1, <2>3
<1>8. P \in SUBSET Nat /\ Climbs(P, n)
  BY <1>7 DEF Climbs
<1> HIDE DEF P
<1>9. \A i \in 0..n : i \in P
  BY <1>1, <1>6, <1>8, UptoInduction
<1>10. \A i \in 0..n : Aligned(off[i])
  BY <1>1, <1>9 DEF P
<1> QED BY <1>3, <1>4, <1>5, <1>10 DEF n, Adds

-----------------------------------------------------------------------------
(* The file.                                                                *)

(* Behind the first a bytes of f is row r of t. *)
HoldsRow(f, a, t, r) ==
  \A x \in 1..RowSize(t) : a + x \in 1..Len(f) /\ f[a + x] = RowBytes(t, r)[x]

(* What has been written stays. *)
LEMMA GrowKeeps ==
  ASSUME NEW S, NEW f \in Seq(S), NEW u \in Seq(S), NEW a, NEW t, NEW r,
         HoldsRow(f, a, t, r)
  PROVE  HoldsRow(f \o u, a, t, r)
<1>1. Follows(f \o u, f, u)
  BY ConcatAt
<1>2. ASSUME NEW x \in 1..RowSize(t)
      PROVE  /\ a + x \in 1..Len(f \o u)
             /\ (f \o u)[a + x] = RowBytes(t, r)[x]
  <2> DEFINE z == a + x
             y == RowBytes(t, r)[x]
  <2>1. z \in 1..Len(f) /\ f[z] = y
    BY DEF HoldsRow
  <2> HIDE DEF z, y
  <2>2. z \in 1..Len(f \o u) /\ (f \o u)[z] = f[z]
    BY <1>1, <2>1 DEF Follows
  <2> QED BY <2>1, <2>2 DEF z, y
<1> QED BY <1>2 DEF HoldsRow

(* f holds the rows first..last of t, of which the first belongs at base.   *)
HoldsRows(f, base, t, first, last) ==
  \A r \in first..last : HoldsRow(f, base + (r - 1) * RowSize(t), t, r)

(* The bytes of c rows. *)
RowsFrom(t, first, c) ==
  FlattenSeq([i \in 1..c |-> RowBytes(t, first + i - 1)])

(* Rows appended behind each other. *)
LEMMA AppendedRows ==
  ASSUME NEW t \in Tensors, NEW f \in Seq(GgufBytes), NEW first \in Nat,
         NEW c \in Nat, first >= 1, first + c <= t.rows + 1,
         NEW base \in Nat, Len(f) = base + (first - 1) * RowSize(t)
  PROVE  LET u == RowsFrom(t, first, c)
         IN  /\ u \in Seq(GgufBytes) /\ f \o u \in Seq(GgufBytes)
             /\ Len(f \o u) = base + (first + c - 1) * RowSize(t)
             /\ HoldsRows(f \o u, base, t, first, first + c - 1)
<1> DEFINE u == RowsFrom(t, first, c)
           m == RowSize(t)
           seqs == [i \in 1..c |-> RowBytes(t, first + i - 1)]
<1>1. m \in Nat /\ t.rows \in Nat
  BY SizesAgree, TensorFacts
<1>2. ASSUME NEW i \in 1..c
      PROVE  /\ RowBytes(t, first + i - 1) \in Seq(GgufBytes)
             /\ Len(RowBytes(t, first + i - 1)) = m
  <2>1. first + i - 1 \in 1..t.rows
    BY <1>1
  <2> QED BY <2>1, RowType
<1>3. /\ seqs \in [1..c -> Seq(GgufBytes)]
      /\ \A i \in 1..c : Len(seqs[i]) = m
      /\ \A i \in 1..c : seqs[i] = RowBytes(t, first + i - 1)
  BY <1>2
<1>4. u = FlattenSeq(seqs)
  BY DEF RowsFrom
<1> HIDE DEF m, seqs, u
<1>5. u \in Seq(GgufBytes) /\ Rowed(u, seqs, c, m)
  BY <1>1, <1>3, <1>4, FlattenRows
<1>6. f \o u \in Seq(GgufBytes) /\ Follows(f \o u, f, u)
  BY <1>5, ConcatAt
<1> DEFINE z == (first - 1) * m
<1>7. z \in Nat /\ Len(f) = base + z
  <2>1. first - 1 \in Nat
    OBVIOUS
  <2>2. (first - 1) * m \in Nat
    BY <1>1, <2>1
  <2>3. Len(f) = base + (first - 1) * m
    BY DEF m
  <2> QED BY <2>2, <2>3
<1>8. Len(f \o u) = base + (first + c - 1) * m
  <2>1. (first + c - 1) * m = z + c * m /\ c * m \in Nat
    BY <1>1
  <2> DEFINE y == c * m
  <2>2. Len(f \o u) = (base + z) + y
    BY <1>5, <1>6, <1>7 DEF Rowed, Follows
  <2> HIDE DEF z, y
  <2>3. y \in Nat /\ (first + c - 1) * m = z + y
    BY <2>1 DEF y
  <2> QED BY <1>7, <2>2, <2>3
<1>9. ASSUME NEW r \in first..(first + c - 1)
      PROVE  HoldsRow(f \o u, base + (r - 1) * m, t, r)
  <2> DEFINE i == r - first + 1
             y == (i - 1) * m
  <2>1. i \in 1..c /\ first + i - 1 = r /\ r \in Nat /\ i - 1 = r - first
    OBVIOUS
  <2>2. (r - 1) * m = z + y /\ y \in Nat
    <3>1. i - 1 \in Nat /\ r - 1 = (first - 1) + (i - 1)
      BY <2>1
    <3> DEFINE p == i - 1
               q == first - 1
    <3>2. p \in Nat /\ q \in Nat /\ r - 1 = q + p
      BY <3>1
    <3> HIDE DEF p, q, i
    <3>3. (q + p) * m = q * m + p * m /\ p * m \in Nat
      BY <1>1, <3>2
    <3> QED BY <3>2, <3>3 DEF p, q
  <2> HIDE DEF z, i
  <2>3. ASSUME NEW x \in 1..m
        PROVE  /\ (base + (r - 1) * m) + x \in 1..Len(f \o u)
               /\ (f \o u)[(base + (r - 1) * m) + x] = RowBytes(t, r)[x]
    <3>1. y + x \in 1..Len(u) /\ u[y + x] = seqs[i][x]
      BY <1>5, <2>1 DEF Rowed
    <3> DEFINE w == y + x
    <3>2. (base + (r - 1) * m) + x = (base + z) + w
      <4>1. x \in Nat
        BY <1>1
      <4> HIDE DEF y
      <4> QED BY <1>7, <2>2, <4>1
    <3>3. w \in 1..Len(u) /\ u[w] = seqs[i][x]
      BY <3>1
    <3> HIDE DEF w, y
    <3>4. /\ (base + z) + w \in 1..Len(f \o u)
          /\ (f \o u)[(base + z) + w] = u[w]
      <4>1. (f \o u)[Len(f) + w] = u[w]
        BY <1>6, <3>3 DEF Follows
      <4>2. Len(f) + w \in 1..Len(f \o u)
        BY <1>6, <3>3 DEF Follows
      <4> QED BY <1>7, <4>1, <4>2
    <3>5. seqs[i] = RowBytes(t, r)
      BY <1>3, <2>1
    <3> QED BY <3>2, <3>3, <3>4, <3>5
  <2> QED BY <2>3 DEF HoldsRow, m
<1> QED BY <1>5, <1>6, <1>8, <1>9 DEF m, u, HoldsRows

(* A row that is in the file is what the header leads to. *)
LEMMA RowFound ==
  ASSUME NEW t \in Tensors, NEW f \in Seq(GgufBytes), NEW base \in Nat,
         \A r \in 1..t.rows : HoldsRow(f, base + (r - 1) * RowSize(t), t, r),
         base + TensorSize(t) <= Len(f), NEW r \in 1..t.rows,
         NEW bytes, bytes = SubSeq(f, base + 1, base + TensorSize(t))
  PROVE  SubSeq(bytes, (r - 1) * RowSize(t) + 1, r * RowSize(t))
           = RowBytes(t, r)
<1> DEFINE m == RowSize(t)
           n == TensorSize(t)
           z == (r - 1) * m
<1>1. m \in Nat /\ n \in Nat /\ n = t.rows * m /\ t.rows \in Nat
  BY SizesAgree, TensorFacts
<1>2. z \in Nat /\ z + m <= n /\ r * m = z + m
  <2>1. r - 1 \in 0..(t.rows - 1)
    BY <1>1
  <2>2. (r - 1) * m \in Nat /\ (r - 1) * m + m <= t.rows * m
    <3> HIDE DEF m
    <3> QED BY <1>1, <2>1, Blocks
  <2>3. r * m = (r - 1) * m + m
    <3> HIDE DEF m
    <3> QED BY <1>1
  <2> QED BY <1>1, <2>2, <2>3
<1> HIDE DEF z, n
<1>3. bytes = Stretch(f, base, n)
  <2>1. Slice(f, base, n) = Stretch(f, base, n)
    BY <1>1, SliceIs DEF n
  <2> QED BY <2>1 DEF Slice, n
<1>4. Len(f) \in Nat /\ base + n <= Len(f)
  BY LenProperties DEF n
<1>5. bytes \in Seq(GgufBytes) /\ Len(bytes) = n
      /\ \A i \in 1..n : bytes[i] = f[base + i]
  <2>1. ASSUME NEW i \in 1..n PROVE f[base + i] \in GgufBytes
    <3>1. base + i \in 1..Len(f)
      <4> HIDE DEF m
      <4> QED BY <1>1, <1>4
    <3> QED BY <3>1, ElementOfSeq
  <2>2. bytes = [i \in 1..n |-> f[base + i]]
    BY <1>3 DEF Stretch
  <2>3. n \in Nat
    BY <1>1
  <2> DEFINE s == [i \in 1..n |-> f[base + i]]
  <2>4. s \in [1..n -> GgufBytes]
    BY <2>1
  <2>5. \A i \in 1..n : s[i] = f[base + i]
    OBVIOUS
  <2> HIDE DEF s
  <2>6. s \in Seq(GgufBytes) /\ Len(s) = n
    BY <2>3, <2>4
  <2> QED BY <2>2, <2>5, <2>6 DEF s
<1>6. SubSeq(bytes, z + 1, z + m) = Stretch(bytes, z, m)
  <2> HIDE DEF m
  <2>1. Slice(bytes, z, m) = Stretch(bytes, z, m)
    BY <1>1, <1>2, <1>5, SliceIs
  <2> QED BY <2>1 DEF Slice
<1>7. RowBytes(t, r) \in Seq(GgufBytes) /\ Len(RowBytes(t, r)) = m
  BY RowType
<1>8. ASSUME NEW x \in 1..m
      PROVE  Stretch(bytes, z, m)[x] = RowBytes(t, r)[x]
  <2>1. z + x \in 1..n /\ base + (z + x) = (base + z) + x
    BY <1>1, <1>2
  <2>2. HoldsRow(f, base + z, t, r)
    BY DEF z
  <2>3. f[(base + z) + x] = RowBytes(t, r)[x]
    BY <2>2 DEF HoldsRow
  <2>4. bytes[z + x] = f[base + (z + x)]
    BY <1>5, <2>1
  <2>5. Stretch(bytes, z, m)[x] = bytes[z + x]
    BY DEF Stretch
  <2> QED BY <2>1, <2>3, <2>4, <2>5
<1>9. Stretch(bytes, z, m) = RowBytes(t, r)
  <2> DEFINE s == Stretch(bytes, z, m)
             u == RowBytes(t, r)
  <2>1. s = [x \in 1..m |-> s[x]]
    BY DEF Stretch
  <2>2. u = [x \in 1..m |-> u[x]]
    <3> HIDE DEF u, m
    <3>1. u \in [1..m -> GgufBytes]
      BY <1>1, <1>7, LenProperties DEF u
    <3> QED BY <3>1
  <2> HIDE DEF s, u, m
  <2>3. \A x \in 1..m : s[x] = u[x]
    BY <1>8 DEF s, u
  <2>4. s = u
    BY <2>1, <2>2, <2>3
  <2> QED BY <2>4 DEF s, u
<1> QED BY <1>2, <1>6, <1>9 DEF z, m

-----------------------------------------------------------------------------
(* The run.                                                                 *)

(* Where row r of tensor i belongs. *)
RowStart(plan, i, r) ==
  (dataStart + Starts(plan)[i - 1]) + (r - 1) * RowSize(plan[i])

(* Everything before the next row is in the file at the place the header   *)
(* has recorded, and nothing is behind it.                                 *)
FileInv(plan) ==
  /\ dataStart \in Nat /\ Aligned(dataStart) /\ file \in Seq(GgufBytes)
  /\ cur \in 1..(Len(plan) + 1)
  /\ cur <= Len(plan) => /\ row \in 1..(plan[cur].rows + 1)
                         /\ Len(file) = RowStart(plan, cur, row)
  /\ cur > Len(plan) => Len(file) = dataStart + Starts(plan)[cur - 1]
  /\ \A i \in 1..Len(plan) : \A r \in 1..plan[i].rows :
       i < cur \/ (i = cur /\ r < row) =>
         HoldsRow(file, RowStart(plan, i, r), plan[i], r)

GgufInv ==
  LET plan == Plan(tensors)
  IN  /\ tensors \in Checkpoints /\ errors = 0 /\ gpc # "RED"
      /\ gpc \in {"start", "finalize"} => cur = 1 /\ row = 1
      /\ gpc \in {"finalize", "data", "GREEN"} => recs = Registered(plan)
      /\ gpc \in {"data", "GREEN"} => FileInv(plan)
      /\ gpc = "GREEN" => cur > Len(plan)

(* The records of a plan. *)
LEMMA RecordsAre ==
  ASSUME NEW plan \in Seq(Tensors)
  PROVE  /\ DOMAIN Registered(plan) = 1..Len(plan)
         /\ Len(Registered(plan)) = Len(plan)
         /\ \A i \in 1..Len(plan) :
              /\ Registered(plan)[i].off = Starts(plan)[i - 1]
              /\ Registered(plan)[i].size = TensorSize(plan[i])
<1>1. Len(plan) \in Nat /\ DOMAIN plan = 1..Len(plan)
  BY LenProperties
<1> DEFINE n == Len(plan)
           R == [i \in 1..n |-> [off |-> Starts(plan)[i - 1],
                                 size |-> TensorSize(plan[i])]]
<1>2. Registered(plan) = R
  BY <1>1 DEF Registered, Starts
<1> HIDE DEF n
<1>3. DOMAIN R = 1..n /\ \A i \in 1..n : /\ R[i].off = Starts(plan)[i - 1]
                                         /\ R[i].size = TensorSize(plan[i])
  OBVIOUS
<1>4. Len(R) = n
  BY <1>1 DEF n
<1> HIDE DEF R
<1> QED BY <1>2, <1>3, <1>4 DEF n

(* The invariant implies the property. *)
LEMMA GgufInvIsSound == GgufInv => GgufSound
<1> SUFFICES ASSUME GgufInv, gpc \in {"GREEN", "RED"} PROVE GgufSound
  BY DEF GgufSound
<1> DEFINE plan == Plan(tensors)
<1>1. /\ tensors \in Checkpoints /\ gpc = "GREEN" /\ recs = Registered(plan)
      /\ FileInv(plan) /\ cur > Len(plan)
  BY DEF GgufInv
<1>2. plan \in Seq(Tensors)
  BY <1>1, PlanType
<1> HIDE DEF plan
<1>3. Len(plan) \in Nat /\ \A i \in 1..Len(plan) : plan[i] \in Tensors
  BY <1>2, LenProperties, ElementOfSeq
<1>4. /\ dataStart \in Nat /\ Aligned(dataStart) /\ file \in Seq(GgufBytes)
      /\ cur \in 1..(Len(plan) + 1)
      /\ Len(file) = dataStart + Starts(plan)[cur - 1]
      /\ \A i \in 1..Len(plan) : \A r \in 1..plan[i].rows : i < cur =>
           HoldsRow(file, RowStart(plan, i, r), plan[i], r)
  BY <1>1 DEF FileInv
<1>5. cur = Len(plan) + 1
  BY <1>1, <1>3, <1>4
<1>6. ASSUME NEW i \in 1..Len(plan)
      PROVE  LET t == plan[i]
                 bytes == Recorded(i)
                 rowSize == recs[i].size \div t.rows
                 rowOf(r) == SubSeq(bytes, (r - 1) * rowSize + 1, r * rowSize)
             IN  /\ (dataStart + recs[i].off) % ALIGN = 0
                 /\ \A r \in 1..t.rows : rowOf(r) = RowBytes(t, r)
  <2> DEFINE t == plan[i]
             base == dataStart + Starts(plan)[i - 1]
  <2>1. /\ t \in Tensors /\ i < cur /\ i - 1 \in 0..Len(plan)
        /\ i \in 0..Len(plan)
    BY <1>3, <1>5
  <2>2. recs[i].off = Starts(plan)[i - 1] /\ recs[i].size = TensorSize(t)
    BY <1>1, <1>2, RecordsAre
  <2>3. /\ Starts(plan)[i - 1] \in Nat /\ Aligned(Starts(plan)[i - 1])
        /\ Starts(plan)[i] = Starts(plan)[i - 1]
             + (TensorSize(t) + Padding(TensorSize(t)))
    BY <1>2, <2>1, StartsAligned
  <2>4. base \in Nat /\ base % ALIGN = 0
    <3> DEFINE s == Starts(plan)[i - 1]
    <3>1. Aligned(s) /\ Aligned(dataStart) /\ s \in Nat /\ dataStart \in Nat
      BY <1>4, <2>3
    <3> HIDE DEF s
    <3>2. Aligned(dataStart + s)
      BY <3>1, AlignedSum
    <3>3. (dataStart + s) % ALIGN = 0
      BY <3>2, AlignedSum
    <3>4. dataStart + s \in Nat
      BY <3>1
    <3> QED BY <3>3, <3>4 DEF s
  <2>5. ASSUME NEW r \in 1..t.rows
        PROVE  HoldsRow(file, base + (r - 1) * RowSize(t), t, r)
    BY <1>4, <2>1 DEF RowStart
  <2>6. base + TensorSize(t) <= Len(file)
    <3> DEFINE S == Starts(plan)
               P == {k \in Nat : k <= Len(plan) => (i <= k => S[i] <= S[k])}
    <3>1. S[Len(plan)] >= S[i]
      <4>1. 0 \in P
        BY <2>1
      <4>2. ASSUME NEW k \in 1..Len(plan), k - 1 \in P PROVE k \in P
        <5>1. plan[k] \in Tensors /\ k - 1 \in 0..Len(plan)
              /\ k \in 0..Len(plan)
          BY <1>3
        <5> DEFINE z == TensorSize(plan[k])
        <5>2. z \in Nat
          BY <5>1, SizesAgree
        <5>3. Padding(z) \in Nat
          <6> HIDE DEF z
          <6> QED BY <5>2, PaddingAligns
        <5>4. /\ S[k - 1] \in Nat /\ S[k] \in Nat
              /\ S[k] = S[k - 1] + (z + Padding(z))
          BY <1>2, <5>1, StartsAligned
        <5> HIDE DEF z, S
        <5>5. S[k] >= S[k - 1]
          BY <5>2, <5>3, <5>4
        <5>6. S[i] \in Nat
          BY <1>2, <2>1, StartsAligned DEF S
        <5>7. CASE i = k
          BY <5>4, <5>7
        <5>8. CASE i # k
          <6>1. i <= k => i <= k - 1
            BY <1>3, <5>8
          <6>2. k - 1 \in Nat /\ k - 1 <= Len(plan) /\ k \in Nat
            BY <1>3
          <6>3. i <= k - 1 => S[i] <= S[k - 1]
            BY <4>2, <6>2
          <6>4. i <= k => S[i] <= S[k]
            BY <5>4, <5>5, <5>6, <6>1, <6>3
          <6> QED BY <6>2, <6>4
        <5> QED BY <5>7, <5>8
      <4>3. P \in SUBSET Nat /\ Climbs(P, Len(plan))
        BY <4>2 DEF Climbs
      <4> HIDE DEF P
      <4>4. \A k \in 0..Len(plan) : k \in P
        BY <1>3, <4>1, <4>3, UptoInduction
      <4>5. Len(plan) \in P
        BY <1>3, <4>4
      <4>6. S[i] \in Nat /\ S[Len(plan)] \in Nat
        <5>1. Len(plan) \in 0..Len(plan)
          BY <1>3
        <5> QED BY <1>2, <2>1, <5>1, StartsAligned
      <4> HIDE DEF S
      <4>7. i <= Len(plan)
        BY <1>3
      <4> QED BY <1>3, <4>5, <4>6, <4>7 DEF P
    <3>2. Len(file) = dataStart + S[Len(plan)]
      <4>1. cur - 1 = Len(plan)
        BY <1>3, <1>5
      <4> QED BY <1>4, <4>1
    <3> DEFINE z == TensorSize(t)
    <3>3. z \in Nat
      BY <2>1, SizesAgree
    <3>4. Padding(z) \in Nat
      <4> HIDE DEF z
      <4> QED BY <3>3, PaddingAligns
    <3>5. S[i] = S[i - 1] + (z + Padding(z)) /\ S[i - 1] \in Nat
      BY <2>3
    <3>6. S[Len(plan)] \in Nat
      <4>1. Len(plan) \in 0..Len(plan)
        BY <1>3
      <4> QED BY <1>2, <4>1, StartsAligned
    <3> HIDE DEF S, z
    <3>7. (dataStart + S[i - 1]) + z <= dataStart + S[Len(plan)]
      <4> DEFINE x == S[i - 1]
                 y == S[Len(plan)]
                 p == Padding(z)
      <4>1. dataStart \in Nat
        BY <1>4
      <4>2. x \in Nat /\ y \in Nat /\ p \in Nat /\ z \in Nat
        BY <3>3, <3>4, <3>5, <3>6
      <4>3. x + (z + p) <= y
        BY <3>1, <3>5
      <4> HIDE DEF x, y, p
      <4>4. (dataStart + x) + z <= dataStart + y
        BY <4>1, <4>2, <4>3
      <4> QED BY <4>4 DEF x, y
    <3> QED BY <3>2, <3>7 DEF S, z
  <2> DEFINE bytes == SubSeq(file, base + 1, base + TensorSize(t))
  <2>7. Recorded(i) = bytes
    BY <2>2 DEF Recorded
  <2>8. recs[i].size \div t.rows = RowSize(t)
    BY <2>1, <2>2, SizesAgree
  <2> HIDE DEF t, base
  <2>9. ASSUME NEW r \in 1..t.rows
        PROVE  SubSeq(bytes, (r - 1) * RowSize(t) + 1, r * RowSize(t))
                 = RowBytes(t, r)
    <3> HIDE DEF bytes
    <3>1. bytes = SubSeq(file, base + 1, base + TensorSize(t))
      BY DEF bytes
    <3> QED BY <1>4, <2>1, <2>4, <2>5, <2>6, <3>1, RowFound
  <2>10. (dataStart + recs[i].off) % ALIGN = 0
    BY <2>2, <2>4 DEF base
  <2> QED BY <2>7, <2>8, <2>9, <2>10 DEF t
<1>7. ASSUME NEW t \in Tensors, Kind(t) = "q41", NEW r \in 1..t.rows,
             NEW k \in 0..(RowLen(t) - 1), NEW b, b = RowBytes(t, r)
      PROVE  \/ /\ F16(ScaleOf(t, r, k)) # ScaleOf(t, r, k)
                /\ \E j \in 0..(RowLen(t) - 1) :
                     /\ j \div Group = k \div Group
                     /\ Codes(t, r)[j] # 0
             \/ F16(BiasOf(t, r, k)) # BiasOf(t, r, k)
             \/ DeqGgufSide(b, k) = DeqMlxSide(t, r, k)
  <2>1. b = PackedRow(t, r)
    BY <1>7 DEF RowBytes
  <2> QED BY <1>7, <2>1, DecodesExactly
<1>8. DOMAIN recs = 1..Len(plan)
  BY <1>1, <1>2, RecordsAre
<1>9. ASSUME NEW i \in 1..Len(plan)
      PROVE  LET t == plan[i]
                 bytes == Recorded(i)
                 rowSize == recs[i].size \div t.rows
                 rowOf(r) == SubSeq(bytes, (r - 1) * rowSize + 1, r * rowSize)
             IN  /\ (dataStart + recs[i].off) % ALIGN = 0
                 /\ IF Kind(t) = "q41"
                    THEN \A r \in 1..t.rows, k \in 0..(RowLen(t) - 1) :
                           \/ /\ F16(ScaleOf(t, r, k)) # ScaleOf(t, r, k)
                              /\ \E j \in 0..(RowLen(t) - 1) :
                                   /\ j \div Group = k \div Group
                                   /\ Codes(t, r)[j] # 0
                           \/ F16(BiasOf(t, r, k)) # BiasOf(t, r, k)
                           \/ DeqGgufSide(rowOf(r), k) = DeqMlxSide(t, r, k)
                    ELSE \A r \in 1..t.rows : rowOf(r) = RowBytes(t, r)
  <2> DEFINE t == plan[i]
             rowSize == recs[i].size \div t.rows
             rowOf(r) == SubSeq(Recorded(i), (r - 1) * rowSize + 1,
                                r * rowSize)
  <2>1. /\ (dataStart + recs[i].off) % ALIGN = 0
        /\ \A r \in 1..t.rows : rowOf(r) = RowBytes(t, r)
    BY <1>6
  <2>2. t \in Tensors
    BY <1>3
  <2> HIDE DEF t, rowOf
  <2>3. ASSUME Kind(t) = "q41", NEW r \in 1..t.rows,
               NEW k \in 0..(RowLen(t) - 1)
        PROVE  \/ /\ F16(ScaleOf(t, r, k)) # ScaleOf(t, r, k)
                  /\ \E j \in 0..(RowLen(t) - 1) :
                       /\ j \div Group = k \div Group
                       /\ Codes(t, r)[j] # 0
               \/ F16(BiasOf(t, r, k)) # BiasOf(t, r, k)
               \/ DeqGgufSide(rowOf(r), k) = DeqMlxSide(t, r, k)
    BY <1>7, <2>1, <2>2, <2>3
  <2> QED BY <2>1, <2>3, Zenon DEF t, rowOf
<1> QED BY <1>1, <1>8, <1>9 DEF GgufSound, plan

(* The header is padded up to the next multiple. *)
LEMMA HeaderAligned ==
  ASSUME NEW h \in Nat, NEW ds, ds = ((h + ALIGN - 1) \div ALIGN) * ALIGN
  PROVE  ds \in Nat /\ Aligned(ds) /\ ds >= h
<1> DEFINE A == ALIGN
           a == h + A - 1
           q == a \div A
           e == a % A
<1>1. A \in Nat /\ A >= 1
  BY BlockSizes
<1>2. a \in Nat /\ a = h + A - 1 /\ ds = q * A /\ q = a \div A /\ e = a % A
  BY <1>1
<1> HIDE DEF A, a, q, e
<1>3. q \in Nat /\ e \in 0..(A - 1) /\ e \in Nat
  BY <1>1, <1>2
<1>4. a = A * q + e
  BY <1>1, <1>2, <1>3, DivMod
<1> DEFINE z == A * q
<1>5. z \in Nat /\ ds = z /\ a = z + e
  BY <1>1, <1>2, <1>3, <1>4
<1>6. Aligned(ds)
  BY <1>3, <1>5 DEF Aligned, A
<1> HIDE DEF z
<1>7. ds \in Nat /\ ds >= h
  BY <1>1, <1>2, <1>3, <1>5
<1> QED BY <1>6, <1>7

(* Padding is bytes of the file. *)
LEMMA PadType ==
  ASSUME NEW n \in Nat
  PROVE  /\ [i \in 1..n |-> <<"pad">>] \in Seq(GgufBytes)
         /\ Len([i \in 1..n |-> <<"pad">>]) = n
<1>1. <<"pad">> \in GgufBytes
  BY DEF GgufBytes
<1> QED BY <1>1

(* The invariant holds at first. *)
LEMMA GgufStarts == GgufInit => GgufInv
BY DEF GgufInit, GgufInv

(* The writer starts with an empty data section. *)
LEMMA FinalizeKeeps == ASSUME GgufInv, Finalize PROVE GgufInv'
<1> DEFINE plan == Plan(tensors)
<1>1. PICK h \in HeaderSizes :
        LET ds == ((h + ALIGN - 1) \div ALIGN) * ALIGN
        IN  /\ dataStart' = ds
            /\ file' = Bytes("header", h) \o [i \in 1..(ds - h) |-> <<"pad">>]
  BY DEF Finalize
<1>2. /\ gpc = "finalize" /\ gpc' = "data"
      /\ UNCHANGED <<tensors, recs, cur, row, errors>>
  BY DEF Finalize
<1>3. /\ tensors \in Checkpoints /\ errors = 0 /\ cur = 1 /\ row = 1
      /\ recs = Registered(plan)
  BY <1>2 DEF GgufInv
<1> DEFINE ds == ((h + ALIGN - 1) \div ALIGN) * ALIGN
           a == Bytes("header", h)
           b == [i \in 1..(ds - h) |-> <<"pad">>]
<1>4. dataStart' = ds /\ file' = a \o b
  BY <1>1
<1>5. h \in Nat
  BY BlockAssumption
<1>6. ds \in Nat /\ Aligned(ds) /\ ds >= h
  <2>1. ds = ((h + ALIGN - 1) \div ALIGN) * ALIGN
    OBVIOUS
  <2> HIDE DEF ds
  <2> QED BY <1>5, <2>1, HeaderAligned
<1> HIDE DEF ds
<1>7. a \in Seq(GgufBytes) /\ Len(a) = h
  <2>1. "header" \in Int \cup {"header"}
    OBVIOUS
  <2> QED BY <1>5, <2>1, BytesType
<1>8. b \in Seq(GgufBytes) /\ Len(b) = ds - h
  <2> DEFINE n == ds - h
  <2>1. n \in Nat
    BY <1>5, <1>6
  <2> HIDE DEF n
  <2>2. /\ [i \in 1..n |-> <<"pad">>] \in Seq(GgufBytes)
        /\ Len([i \in 1..n |-> <<"pad">>]) = n
    BY <2>1, PadType
  <2> QED BY <2>2 DEF n
<1> HIDE DEF a, b
<1>9. file' \in Seq(GgufBytes) /\ Len(file') = ds
  <2>1. a \o b \in Seq(GgufBytes) /\ Follows(a \o b, a, b)
    BY <1>7, <1>8, ConcatAt
  <2>2. Len(a \o b) = h + (ds - h)
    BY <1>7, <1>8, <2>1 DEF Follows
  <2> QED BY <1>4, <1>5, <1>6, <2>1, <2>2
<1>10. plan \in Seq(Tensors) /\ plan' = plan
  BY <1>2, <1>3, PlanType
<1> HIDE DEF plan
<1>11. Len(plan) \in Nat /\ \A i \in 1..Len(plan) : plan[i] \in Tensors
  BY <1>10, LenProperties, ElementOfSeq
<1>12. Starts(plan)[0] = 0
  BY <1>10, StartsAligned
<1>13. FileInv(plan)'
  <2>1. /\ dataStart' \in Nat /\ Aligned(dataStart')
        /\ file' \in Seq(GgufBytes)
        /\ cur' = 1 /\ row' = 1
    BY <1>2, <1>3, <1>4, <1>6, <1>9
  <2>2. cur' \in 1..(Len(plan) + 1)
    BY <1>11, <2>1
  <2>3. ASSUME 1 <= Len(plan)
        PROVE  /\ 1 \in 1..(plan[1].rows + 1)
               /\ Len(file') = (dataStart' + Starts(plan)[1 - 1])
                                 + (1 - 1) * RowSize(plan[1])
    <3>1. plan[1] \in Tensors
      BY <1>11, <2>3
    <3>2. plan[1].rows \in Nat /\ RowSize(plan[1]) \in Nat
      BY <3>1, TensorFacts, SizesAgree
    <3> DEFINE m == RowSize(plan[1])
    <3>3. 1 - 1 = 0 /\ (1 - 1) * m = 0
      BY <3>2
    <3> QED BY <1>4, <1>6, <1>9, <1>12, <3>2, <3>3
  <2>4. 1 > Len(plan) => Len(file') = dataStart' + Starts(plan)[1 - 1]
    BY <1>4, <1>6, <1>9, <1>12
  <2>5. \A i \in 1..Len(plan) : \A r \in 1..plan[i].rows :
          ~(i < 1 \/ (i = 1 /\ r < 1))
    BY <1>11, TensorFacts
  <2> QED BY <1>10, <2>1, <2>2, <2>3, <2>4, <2>5 DEF FileInv, RowStart
<1> QED BY <1>2, <1>3, <1>10, <1>13 DEF GgufInv, plan

(* A chunk of rows goes to its place, and the gate finds no difference. *)
LEMMA WriteChunkKeeps == ASSUME GgufInv, WriteChunk PROVE GgufInv'
<1> DEFINE plan == Plan(tensors)
           t == plan[cur]
           last == IF row + CHUNK - 1 < t.rows THEN row + CHUNK - 1 ELSE t.rows
           rows == row..last
           c == last - row + 1
           u == RowsFrom(t, row, c)
           base == dataStart + Starts(plan)[cur - 1]
<1>1. /\ gpc = "data" /\ cur <= Len(recs) /\ row <= t.rows
      /\ UNCHANGED <<gpc, tensors, recs, dataStart, cur>>
      /\ row' = last + 1
      /\ file' = file \o FlattenSeq([i \in 1..Cardinality(rows) |->
                                       RowBytes(t, row + i - 1)])
      /\ errors' = errors \/ (Kind(t) = "q41" /\ ~GateHolds(t, rows))
  BY DEF WriteChunk
<1>2. /\ tensors \in Checkpoints /\ errors = 0 /\ recs = Registered(plan)
      /\ FileInv(plan)
  BY <1>1 DEF GgufInv
<1>3. plan \in Seq(Tensors) /\ plan' = plan
  BY <1>1, <1>2, PlanType
<1> HIDE DEF plan
<1>4. Len(plan) \in Nat /\ \A i \in 1..Len(plan) : plan[i] \in Tensors
  BY <1>3, LenProperties, ElementOfSeq
<1>5. cur <= Len(plan)
  BY <1>1, <1>2, <1>3, RecordsAre
<1>6. /\ dataStart \in Nat /\ Aligned(dataStart) /\ file \in Seq(GgufBytes)
      /\ cur \in 1..(Len(plan) + 1) /\ row \in 1..(t.rows + 1)
      /\ Len(file) = base + (row - 1) * RowSize(t)
      /\ \A i \in 1..Len(plan) : \A r \in 1..plan[i].rows :
           i < cur \/ (i = cur /\ r < row) =>
             HoldsRow(file, RowStart(plan, i, r), plan[i], r)
  BY <1>2, <1>5 DEF FileInv, RowStart
<1>7. cur \in 1..Len(plan) /\ t \in Tensors /\ cur - 1 \in 0..Len(plan)
  BY <1>4, <1>5, <1>6
<1>8. base \in Nat
  <2>1. Starts(plan)[cur - 1] \in Nat
    BY <1>3, <1>7, StartsAligned
  <2> QED BY <1>6, <2>1
<1> HIDE DEF base, t
<1>9. /\ t.rows \in Nat /\ row \in Nat /\ row >= 1 /\ CHUNK \in Nat
      /\ CHUNK >= 1
  BY <1>6, <1>7, TensorFacts, BlockSizes
<1>10. last \in Nat /\ last >= row /\ last <= t.rows
  BY <1>1, <1>9
<1> HIDE DEF last
<1>11. c \in Nat /\ row + c = last + 1 /\ row + c <= t.rows + 1
       /\ row + c - 1 = last /\ Cardinality(rows) = c
  <2>1. Cardinality(rows) = IF row > last THEN 0 ELSE last - row + 1
    BY <1>9, <1>10, FS_Interval
  <2> QED BY <1>9, <1>10, <2>1
<1> HIDE DEF c
<1>12. file' = file \o u
  BY <1>1, <1>11 DEF RowsFrom
<1>13. /\ u \in Seq(GgufBytes) /\ file' \in Seq(GgufBytes)
       /\ Len(file') = base + last * RowSize(t)
       /\ HoldsRows(file', base, t, row, last)
  BY <1>6, <1>7, <1>8, <1>9, <1>11, <1>12, AppendedRows
<1> HIDE DEF u
<1>15. ASSUME NEW i \in 1..Len(plan), NEW r \in 1..plan[i].rows,
              i < cur \/ (i = cur /\ r < last + 1)
       PROVE  HoldsRow(file', RowStart(plan, i, r), plan[i], r)
  <2>1. CASE i < cur \/ (i = cur /\ r < row)
    <3>1. HoldsRow(file, RowStart(plan, i, r), plan[i], r)
      BY <1>6, <2>1
    <3> QED BY <1>6, <1>12, <1>13, <3>1, GrowKeeps
  <2>2. CASE ~(i < cur \/ (i = cur /\ r < row))
    <3>1. i = cur /\ plan[i] = t
      BY <1>15, <2>2 DEF t
    <3>2. r \in row..last
      BY <1>7, <1>9, <1>10, <1>15, <2>2, <3>1
    <3>3. RowStart(plan, i, r) = base + (r - 1) * RowSize(t)
      BY <3>1 DEF RowStart, base
    <3> QED BY <1>13, <3>1, <3>2, <3>3 DEF HoldsRows
  <2> QED BY <2>1, <2>2
<1>16. /\ row' \in 1..(t.rows + 1) /\ (last + 1) - 1 = last
  BY <1>1, <1>9, <1>10
<1>17. FileInv(plan)'
  <2>1. Len(file') = base + (row' - 1) * RowSize(t)
    BY <1>1, <1>13, <1>16
  <2>2. ~(cur > Len(plan))
    BY <1>4, <1>7
  <2> QED BY <1>1, <1>3, <1>6, <1>13, <1>15, <1>16, <2>1, <2>2
          DEF FileInv, RowStart, base, t
<1>18. errors' = 0
  <2>1. ASSUME Kind(t) = "q41" PROVE GateHolds(t, rows)
    <3>1. rows \in SUBSET (1..t.rows)
      BY <1>9, <1>10
    <3> QED BY <1>7, <2>1, <3>1, GateAlways
  <2> QED BY <1>1, <1>2, <2>1
<1> QED BY <1>1, <1>2, <1>3, <1>17, <1>18 DEF GgufInv, plan

(* The padding ends where the next tensor begins. *)
LEMMA AlignPadKeeps == ASSUME GgufInv, AlignPad PROVE GgufInv'
<1> DEFINE plan == Plan(tensors)
           t == plan[cur]
           base == dataStart + Starts(plan)[cur - 1]
           u == Pad(Len(file))
<1>1. /\ gpc = "data" /\ cur <= Len(recs) /\ row > t.rows
      /\ UNCHANGED <<gpc, tensors, recs, dataStart, errors>>
      /\ cur' = cur + 1 /\ row' = 1 /\ file' = file \o u
  BY DEF AlignPad
<1>2. /\ tensors \in Checkpoints /\ errors = 0 /\ recs = Registered(plan)
      /\ FileInv(plan)
  BY <1>1 DEF GgufInv
<1>3. plan \in Seq(Tensors) /\ plan' = plan
  BY <1>1, <1>2, PlanType
<1> HIDE DEF plan
<1>4. Len(plan) \in Nat /\ \A i \in 1..Len(plan) : plan[i] \in Tensors
  BY <1>3, LenProperties, ElementOfSeq
<1>5. cur <= Len(plan)
  BY <1>1, <1>2, <1>3, RecordsAre
<1>6. /\ dataStart \in Nat /\ Aligned(dataStart) /\ file \in Seq(GgufBytes)
      /\ cur \in 1..(Len(plan) + 1) /\ row \in 1..(t.rows + 1)
      /\ Len(file) = base + (row - 1) * RowSize(t)
      /\ \A i \in 1..Len(plan) : \A r \in 1..plan[i].rows :
           i < cur \/ (i = cur /\ r < row) =>
             HoldsRow(file, RowStart(plan, i, r), plan[i], r)
  BY <1>2, <1>5 DEF FileInv, RowStart
<1>7. /\ cur \in 1..Len(plan) /\ t \in Tensors /\ cur - 1 \in 0..Len(plan)
      /\ cur \in 0..Len(plan)
  BY <1>4, <1>5, <1>6
<1> DEFINE z == TensorSize(t)
           s == Starts(plan)[cur - 1]
           s2 == Starts(plan)[cur]
<1>8. /\ s \in Nat /\ Aligned(s) /\ s2 \in Nat /\ s2 = s + (z + Padding(z))
  BY <1>3, <1>7, StartsAligned
<1> HIDE DEF t
<1>9. row - 1 = t.rows /\ z \in Nat /\ z = t.rows * RowSize(t)
  <2>1. t.rows \in Nat
    BY <1>7, TensorFacts
  <2>2. row - 1 = t.rows
    BY <1>1, <1>6, <2>1
  <2> QED BY <1>7, <2>2, SizesAgree
<1> HIDE DEF s, s2, z
<1>10. Len(file) = (dataStart + s) + z
  BY <1>6, <1>9 DEF s
<1>11. Padding(Len(file)) = Padding(z) /\ Padding(z) \in Nat
  <2>1. Aligned(dataStart + s)
    BY <1>6, <1>8, AlignedSum
  <2>2. Padding((dataStart + s) + z) = Padding(z) /\ Padding(z) \in Nat
    BY <1>9, <2>1, PaddingAligns
  <2> QED BY <1>10, <2>2
<1>12. u \in Seq(GgufBytes) /\ Len(u) = Padding(z)
  <2> DEFINE n == Padding(z)
  <2>1. u = [i \in 1..n |-> <<"pad">>] /\ n \in Nat
    BY <1>11 DEF Pad
  <2> HIDE DEF n, u
  <2> QED BY <2>1, PadType DEF n
<1> HIDE DEF u
<1>13. file' \in Seq(GgufBytes) /\ Len(file') = dataStart + s2
  <2>1. file \o u \in Seq(GgufBytes) /\ Follows(file \o u, file, u)
    BY <1>6, <1>12, ConcatAt
  <2>2. Len(file \o u) = ((dataStart + s) + z) + Padding(z)
    BY <1>10, <1>12, <2>1 DEF Follows
  <2> DEFINE n == Padding(z)
  <2> HIDE DEF n
  <2>3. /\ n \in Nat /\ s2 = s + (z + n)
        /\ Len(file \o u) = ((dataStart + s) + z) + n
    BY <1>8, <1>11, <2>2 DEF n
  <2>4. ((dataStart + s) + z) + n = dataStart + (s + (z + n))
    <3>1. dataStart \in Nat /\ s \in Nat /\ z \in Nat /\ n \in Nat
      BY <1>6, <1>8, <1>9, <2>3
    <3> QED BY <3>1
  <2>5. Len(file \o u) = dataStart + s2
    BY <2>3, <2>4
  <2> QED BY <1>1, <2>1, <2>5
<1>14. ASSUME NEW i \in 1..Len(plan), NEW r \in 1..plan[i].rows,
              i < cur + 1 \/ (i = cur + 1 /\ r < 1)
       PROVE  HoldsRow(file', RowStart(plan, i, r), plan[i], r)
  <2>1. plan[i].rows \in Nat /\ r >= 1
    BY <1>4, TensorFacts
  <2>2. i < cur \/ (i = cur /\ r < row)
    <3>1. i < cur \/ i = cur
      BY <1>4, <1>7, <1>14, <2>1
    <3>2. CASE i = cur
      <4>1. r \in 1..t.rows
        BY <3>2 DEF t
      <4>2. r < row
        <5>1. t.rows \in Nat
          BY <1>7, TensorFacts
        <5> QED BY <1>1, <1>6, <4>1, <5>1
      <4> QED BY <3>2, <4>2
    <3> QED BY <3>1, <3>2
  <2>3. HoldsRow(file, RowStart(plan, i, r), plan[i], r)
    BY <1>6, <2>2
  <2> QED BY <1>1, <1>6, <1>12, <2>3, GrowKeeps
<1>15. FileInv(plan)'
  <2>1. cur + 1 \in 1..(Len(plan) + 1) /\ (cur + 1) - 1 = cur
    BY <1>4, <1>7
  <2>2. ASSUME cur + 1 <= Len(plan)
        PROVE  /\ 1 \in 1..(plan[cur + 1].rows + 1)
               /\ Len(file') = (dataStart + Starts(plan)[(cur + 1) - 1])
                                 + (1 - 1) * RowSize(plan[cur + 1])
    <3>1. plan[cur + 1] \in Tensors
      BY <1>4, <1>7, <2>2
    <3>2. plan[cur + 1].rows \in Nat /\ RowSize(plan[cur + 1]) \in Nat
      BY <3>1, TensorFacts, SizesAgree
    <3> DEFINE m == RowSize(plan[cur + 1])
    <3>3. (1 - 1) * m = 0
      BY <3>2
    <3>4. (dataStart + s2) + 0 = dataStart + s2
      BY <1>6, <1>8
    <3> QED BY <1>13, <2>1, <3>2, <3>3, <3>4 DEF s2
  <2>3. Len(file') = dataStart + Starts(plan)[(cur + 1) - 1]
    BY <1>13, <2>1 DEF s2
  <2> QED BY <1>1, <1>3, <1>6, <1>13, <1>14, <2>1, <2>2, <2>3
          DEF FileInv, RowStart
<1> QED BY <1>1, <1>2, <1>3, <1>15 DEF GgufInv, plan

(* Registration, the verdict and a kill leave the file alone. *)
LEMMA RunKeeps ==
  ASSUME GgufInv, Register \/ Verdict \/ Killed \/ UNCHANGED ggufVars
  PROVE  GgufInv'
<1> DEFINE plan == Plan(tensors)
<1>1. UNCHANGED <<tensors, errors, dataStart, file, cur, row>> /\ plan' = plan
  BY DEF Register, Verdict, Killed, ggufVars
<1>2. FileInv(plan) => FileInv(plan)'
  <2> HIDE DEF plan
  <2> QED BY <1>1 DEF FileInv, RowStart
<1>3. tensors \in Checkpoints /\ errors = 0 /\ plan \in Seq(Tensors)
  BY PlanType DEF GgufInv
<1> HIDE DEF plan
<1>4. CASE Register
  <2>1. /\ gpc = "start"
        /\ gpc' = "stopped" \/ (gpc' = "finalize" /\ recs' = Registered(plan))
    BY <1>4 DEF Register, plan
  <2> QED BY <1>1, <1>3, <2>1 DEF GgufInv, plan
<1>5. CASE Verdict
  <2>1. gpc = "data" /\ gpc' = "GREEN" /\ cur > Len(recs) /\ UNCHANGED recs
    BY <1>3, <1>5 DEF Verdict
  <2>2. recs = Registered(plan) /\ FileInv(plan)
    BY <2>1 DEF GgufInv, plan
  <2>3. cur > Len(plan)
    BY <1>3, <2>1, <2>2, RecordsAre
  <2> QED BY <1>1, <1>2, <1>3, <2>1, <2>2, <2>3 DEF GgufInv, plan
<1>6. CASE Killed
  BY <1>1, <1>3, <1>6 DEF Killed, GgufInv, plan
<1>7. CASE UNCHANGED ggufVars
  BY <1>1, <1>2, <1>7 DEF ggufVars, GgufInv, plan
<1> QED BY <1>4, <1>5, <1>6, <1>7

(* Every step of either tool keeps the invariant. *)
LEMMA GgufKept == ASSUME GgufInv, [Next]_vars PROVE GgufInv'
<1>1. CASE GgufNext
  BY <1>1, FinalizeKeeps, WriteChunkKeeps, AlignPadKeeps, RunKeeps DEF GgufNext
<1>2. CASE UNCHANGED ggufVars
  BY <1>2, RunKeeps
<1> QED BY <1>1, <1>2 DEF Next, vars

(* Whatever the checkpoint, block and chunk sizes: a run of the GGUF tool  *)
(* that is not killed ends green, every offset in the header is aligned,   *)
(* and what it points at is the tensor: bit for bit, or, for a 4-bit one,  *)
(* blocks that decode to the checkpoint's values wherever fp16 can hold    *)
(* the group's scale and bias or the scale does not matter.                *)
THEOREM GgufIsSound == Spec => []GgufSound
<1>1. Init => GgufInv
  BY GgufStarts DEF Init
<1>2. GgufInv /\ [Next]_vars => GgufInv'
  BY GgufKept
<1> QED BY <1>1, <1>2, GgufInvIsSound, PTL DEF Spec

=============================================================================
