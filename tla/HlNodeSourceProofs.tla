--------------------------- MODULE HlNodeSourceProofs --------------------------
(***************************************************************************)
(* Proofs about HlNodeSource, for any hours, files, thresholds, cache size *)
(* and number of requesters: the ingest loop skips no block, and a block   *)
(* that is known is served from its file.                                  *)
(***************************************************************************)
EXTENDS HlNodeSource, WellFoundedInduction, TLAPS

--------------------------------------------------------------------------------
\* Induction, and functions that a loop over a sequence computes.

\* A set of natural numbers that is not empty has a least element.
LEMMA LeastNatural ==
  ASSUME NEW T \in SUBSET Nat, T # {}
  PROVE  \E m \in T : \A k \in T : m <= k
<1> DEFINE R == OpToRel(<, Nat)
<1>1. IsWellFoundedOn(R, Nat)
  BY NatLessThanWellFounded, Zenon
<1> HIDE DEF R
<1>2. PICK m \in T : \A k \in T : ~ (<<k, m>> \in R)
  BY <1>1, WFMin, Zenon
<1>3. \A k \in T : ~ (k < m)
  BY <1>2, Zenon DEF R, OpToRel
<1> QED
  BY <1>3

\* A set that holds 0, and every i up to n whose predecessor it holds, holds all.
LEMMA UpTo ==
  ASSUME NEW n \in Nat, NEW T, 0 \in T, \A i \in 1..n : i - 1 \in T => i \in T
  PROVE  0..n \subseteq T
<1> SUFFICES ASSUME NEW x \in 0..n, x \notin T PROVE FALSE
  BY Zenon
<1> DEFINE M == {i \in 0..n : i \notin T}
<1>1. PICK m \in M : \A k \in M : m <= k
  <2>1. M \in SUBSET Nat /\ M # {}
    OBVIOUS
  <2> HIDE DEF M
  <2> QED
    BY <2>1, LeastNatural, Zenon
<1>2. m \in 1..n /\ m - 1 \in 0..n /\ ~ (m <= m - 1)
  OBVIOUS
<1>3. m - 1 \in T
  BY <1>1, <1>2, Zenon
<1> QED
  BY <1>1, <1>2, <1>3, Zenon

\* f has the results of a loop of n steps that starts from a.
LoopOf(n, S, a, step, f) ==
  /\ f \in [0..n -> S]
  /\ f = [i \in 0..n |-> IF i = 0 THEN a ELSE step[i][f[i - 1]]]

\* A loop of n steps, each of which takes a member of S to a member of S, has a
\* function of its results.
LEMMA LoopExists ==
  ASSUME NEW n \in Nat, NEW S, NEW a \in S, NEW step \in [1..n -> [S -> S]]
  PROVE  \E f : LoopOf(n, S, a, step, f)
<1> DEFINE Good(m, f) ==
      f = [i \in 0..m |-> IF i = 0 THEN a ELSE step[i][f[i - 1]]]
           T == {m \in 0..n : \E f \in [0..m -> S] : Good(m, f)}
<1>1. 0 \in T
  <2> DEFINE f == [i \in 0..0 |-> a]
  <2>1. f \in [0..0 -> S] /\ Good(0, f)
    OBVIOUS
  <2>2. 0 \in 0..n
    OBVIOUS
  <2> HIDE DEF f, Good
  <2> QED
    BY <2>1, <2>2, Zenon
<1>2. ASSUME NEW m \in 1..n, m - 1 \in T
      PROVE  m \in T
  <2>1. PICK f \in [0..(m - 1) -> S] : Good(m - 1, f)
    BY <1>2, Zenon
  <2> DEFINE g == [i \in 0..m |-> IF i = m THEN step[m][f[m - 1]] ELSE f[i]]
  <2>2. step[m][f[m - 1]] \in S
    BY <2>1
  <2>3. g \in [0..m -> S]
    BY <2>1, <2>2
  <2>4. \A i \in 0..m : g[i] = IF i = 0 THEN a ELSE step[i][g[i - 1]]
    <3> TAKE i \in 0..m
    <3>1. CASE i = m
      <4>1. g[m] = step[m][f[m - 1]] /\ g[m - 1] = f[m - 1] /\ m # 0
        OBVIOUS
      <4> HIDE DEF g
      <4> QED
        BY <3>1, <4>1, Zenon
    <3>2. CASE i # m
      <4>1. i \in 0..(m - 1) /\ g[i] = f[i]
        BY <3>2
      <4>2. f[i] = IF i = 0 THEN a ELSE step[i][f[i - 1]]
        BY <2>1, <4>1, Zenon
      <4>3. i # 0 => g[i - 1] = f[i - 1]
        BY <3>2
      <4> HIDE DEF g
      <4> QED
        BY <4>1, <4>2, <4>3, Zenon
    <3> QED
      BY <3>1, <3>2, Zenon
  <2>5. Good(m, g)
    <3> HIDE DEF g
    <3> QED
      BY <2>3, <2>4, Zenon
  <2> HIDE DEF g, Good
  <2> QED
    BY <2>3, <2>5
<1>3. n \in T
  <2> HIDE DEF T
  <2>1. 0..n \subseteq T
    BY <1>1, <1>2, UpTo, Zenon
  <2> QED
    BY <2>1
<1> QED
  BY <1>3, Zenon DEF LoopOf

\* What holds before a loop and is kept by its steps holds throughout.
LEMMA LoopKeeps ==
  ASSUME NEW n \in Nat, NEW S, NEW f, f[0] \in S,
         \A i \in 1..n : f[i - 1] \in S => f[i] \in S
  PROVE  \A i \in 0..n : f[i] \in S
<1> DEFINE T == {i \in 0..n : f[i] \in S}
<1>1. 0 \in T /\ \A i \in 1..n : i - 1 \in T => i \in T
  OBVIOUS
<1>2. 0..n \subseteq T
  <2> HIDE DEF T
  <2> QED
    BY <1>1, UpTo, Zenon
<1> QED
  BY <1>2, Zenon

--------------------------------------------------------------------------------

\* The lines and the blocks of a file.

\* t has what the first m elements of s leave when those in drop are left out.
SiftOf(S, s, drop, m, t) ==
  /\ t \in Seq(S) /\ Len(t) <= m
  /\ \A x : x \in Range(t) <=> x \notin drop /\ \E i \in 1..m : s[i] = x

\* The next element is appended unless it is to be left out.
LEMMA SiftStep ==
  ASSUME NEW S, NEW s \in Seq(S), NEW drop, NEW m \in 1..Len(s), NEW t,
         SiftOf(S, s, drop, m - 1, t),
         NEW u, u = IF s[m] \in drop THEN t ELSE Append(t, s[m])
  PROVE  SiftOf(S, s, drop, m, u)
<1>1. t \in Seq(S) /\ Len(t) <= m - 1
      /\ \A x : x \in Range(t) <=> x \notin drop /\ \E i \in 1..(m - 1) : s[i] = x
  BY Zenon DEF SiftOf
<1>2. \A x : (\E i \in 1..m : s[i] = x) <=> (\E i \in 1..(m - 1) : s[i] = x) \/ s[m] = x
  <2>1. \A i \in 1..m : i \in 1..(m - 1) \/ i = m
    OBVIOUS
  <2>2. m \in 1..m /\ \A i \in 1..(m - 1) : i \in 1..m
    OBVIOUS
  <2> QED
    BY <2>1, <2>2, Zenon
<1>3. CASE s[m] \in drop
  <2>1. Len(u) <= m
    BY <1>1, <1>3
  <2> QED
    BY <1>1, <1>2, <1>3, <2>1, Zenon DEF SiftOf
<1>4. CASE s[m] \notin drop
  <2>1. u \in Seq(S) /\ Len(u) = Len(t) + 1 /\ Len(u) <= m
    BY <1>1, <1>4
  <2>2. \A x : x \in Range(u) <=> x \in Range(t) \/ x = s[m]
    <3>1. u[Len(t) + 1] = s[m] /\ \A i \in 1..Len(t) : u[i] = t[i]
      BY <1>1, <1>4
    <3>2. DOMAIN t = 1..Len(t) /\ DOMAIN u = 1..(Len(t) + 1)
      BY <1>1, <2>1
    <3>3. /\ \A i \in 1..(Len(t) + 1) : i \in 1..Len(t) \/ i = Len(t) + 1
          /\ \A i \in 1..Len(t) : i \in 1..(Len(t) + 1)
          /\ Len(t) + 1 \in 1..(Len(t) + 1)
      BY <1>1
    <3>4. \A x : x \in Range(u) <=> \E i \in 1..(Len(t) + 1) : u[i] = x
      BY <3>2, Zenon DEF Range
    <3>5. \A x : x \in Range(t) <=> \E i \in 1..Len(t) : t[i] = x
      BY <3>2, Zenon DEF Range
    <3> QED
      BY <3>1, <3>3, <3>4, <3>5, ZenonT(30)
  <2>3. \A x : x \in Range(u) <=> x \notin drop /\ \E i \in 1..m : s[i] = x
    BY <1>1, <1>2, <1>4, <2>2, Zenon
  <2> QED
    BY <2>1, <2>3, Zenon DEF SiftOf
<1> QED
  BY <1>3, <1>4, Zenon

\* Sifting a sequence leaves out the elements in drop and keeps the others.
LEMMA SiftedFacts ==
  ASSUME NEW S, NEW s \in Seq(S), NEW drop
  PROVE  /\ Sifted(s, drop) \in Seq(S) /\ Len(Sifted(s, drop)) <= Len(s)
         /\ Range(Sifted(s, drop)) = Range(s) \ drop
<1> DEFINE n == Len(s)
           step == [i \in 1..n |-> [t \in Seq(S) |-> IF s[i] \in drop THEN t ELSE Append(t, s[i])]]
           E(f) == [i \in 0..n |-> IF i = 0 THEN <<>>
                      ELSE IF s[i] \in drop THEN f[i - 1] ELSE Append(f[i - 1], s[i])]
           kept == CHOOSE f : f = E(f)
<1>1. n \in Nat /\ step \in [1..n -> [Seq(S) -> Seq(S)]] /\ <<>> \in Seq(S)
  OBVIOUS
<1>2. \E f : f = E(f)
  <2>1. PICK f : LoopOf(n, Seq(S), <<>>, step, f)
    <3> HIDE DEF n, step
    <3> QED
      BY <1>1, LoopExists, Zenon
  <2>2. f \in [0..n -> Seq(S)]
        /\ f = [i \in 0..n |-> IF i = 0 THEN <<>> ELSE step[i][f[i - 1]]]
    BY <2>1, Zenon DEF LoopOf
  <2>3. \A i \in 0..n : i # 0 =>
          step[i][f[i - 1]] = IF s[i] \in drop THEN f[i - 1] ELSE Append(f[i - 1], s[i])
    <3> SUFFICES ASSUME NEW i \in 0..n, i # 0
                 PROVE  step[i][f[i - 1]] = IF s[i] \in drop THEN f[i - 1] ELSE Append(f[i - 1], s[i])
      BY Zenon
    <3>1. i \in 1..n /\ i - 1 \in 0..n
      BY <1>1, SMTT(30)
    <3>2. f[i - 1] \in Seq(S)
      BY <2>2, <3>1, Zenon
    <3> QED
      BY <3>1, <3>2, Zenon
  <2>4. f = E(f)
    <3> HIDE DEF step
    <3> QED
      BY <2>2, <2>3, Zenon
  <2> QED
    BY <2>4, Zenon
<1>3. kept = E(kept)
  BY <1>2, Zenon
<1>4. Sifted(s, drop) = kept[n]
  BY Zenon DEF Sifted
<1>5. kept[0] = <<>> /\ \A i \in 1..n :
        kept[i] = IF s[i] \in drop THEN kept[i - 1] ELSE Append(kept[i - 1], s[i])
  <2> HIDE DEF kept
  <2>1. \A i \in 0..n : kept[i] = IF i = 0 THEN <<>>
          ELSE IF s[i] \in drop THEN kept[i - 1] ELSE Append(kept[i - 1], s[i])
    BY <1>3, Zenon
  <2> HIDE DEF n, E
  <2>2. 0 \in 0..n /\ \A i \in 1..n : i \in 0..n /\ i # 0
    BY <1>1
  <2> QED
    BY <2>1, <2>2, Zenon
<1> HIDE DEF kept, n, E, step
<1> DEFINE T == {i \in 0..n : SiftOf(S, s, drop, i, kept[i])}
<1>6. 0 \in T
  <2>1. SiftOf(S, s, drop, 0, <<>>)
    BY DEF SiftOf, Range
  <2> QED
    BY <1>1, <1>5, <2>1
<1>7. ASSUME NEW m \in 1..n, m - 1 \in T
      PROVE  m \in T
  <2>1. SiftOf(S, s, drop, m - 1, kept[m - 1])
    BY <1>7, Zenon
  <2>2. kept[m] = IF s[m] \in drop THEN kept[m - 1] ELSE Append(kept[m - 1], s[m])
    BY <1>5, <1>7, Zenon
  <2>3. m \in 1..Len(s)
    BY <1>7, Zenon DEF n
  <2>4. SiftOf(S, s, drop, m, kept[m])
    BY <2>1, <2>2, <2>3, SiftStep, Zenon
  <2> QED
    BY <1>1, <1>7, <2>4
<1>8. SiftOf(S, s, drop, n, kept[n])
  <2> HIDE DEF T
  <2>1. 0..n \subseteq T
    BY <1>1, <1>6, <1>7, UpTo, Zenon
  <2> QED
    BY <1>1, <2>1 DEF T
<1>9. \A x : x \in Range(s) <=> \E i \in 1..n : s[i] = x
  BY DEF Range, n
<1> QED
  BY <1>4, <1>8, <1>9, Zenon DEF SiftOf, n

\* A line is the height of a block or does not parse.
Line == Heights \union {Garbled}

\* A block is in lines at some place.
LEMMA BlocksFacts ==
  ASSUME NEW lines \in Seq(Line)
  PROVE  /\ DOMAIN lines = 1..Len(lines)
         /\ \A n : n \in Blocks(lines) <=> n # Garbled /\ \E i \in 1..Len(lines) : lines[i] = n
         /\ Blocks(lines) \subseteq Heights
<1>1. DOMAIN lines = 1..Len(lines) /\ \A i \in 1..Len(lines) : lines[i] \in Line
  OBVIOUS
<1>2. \A n : n \in Blocks(lines) <=> n # Garbled /\ \E i \in 1..Len(lines) : lines[i] = n
  BY <1>1, Zenon DEF Blocks, Range
<1>3. Blocks(lines) \subseteq Heights
  BY <1>1, <1>2, Zenon DEF Line
<1> QED
  BY <1>1, <1>2, <1>3, Zenon

\* A sequence of lines that are all heights.
LEMMA SeqOfHeights ==
  ASSUME NEW s \in Seq(Line), Range(s) \subseteq Heights
  PROVE  s \in Seq(Heights)
<1>1. DOMAIN s = 1..Len(s) /\ Len(s) \in Nat
  OBVIOUS
<1>2. \A i \in 1..Len(s) : s[i] \in Heights
  BY <1>1, Zenon DEF Range
<1> QED
  BY <1>1, <1>2

\* The lines that parse are those of the blocks.
LEMMA ParsedFacts ==
  ASSUME NEW lines \in Seq(Line)
  PROVE  /\ Parsed(lines) \in Seq(Heights) /\ Len(Parsed(lines)) <= Len(lines)
         /\ Range(Parsed(lines)) = Blocks(lines)
<1>1. /\ Parsed(lines) \in Seq(Line) /\ Len(Parsed(lines)) <= Len(lines)
      /\ Range(Parsed(lines)) = Range(lines) \ {Garbled}
  BY SiftedFacts, Zenon DEF Parsed
<1>2. Range(Parsed(lines)) = Blocks(lines)
  BY <1>1, Zenon DEF Blocks
<1> QED
  BY <1>1, <1>2, BlocksFacts, SeqOfHeights, Zenon

\* So are the new ones.
LEMMA NewBlocksType ==
  ASSUME NEW lines \in Seq(Line), NEW start
  PROVE  new_blocks(lines, start) \in Seq(Heights)
BY ParsedFacts, SiftedFacts, Zenon DEF new_blocks

\* Blocks that fit in the cache are all in it once they are loaded.
LEMMA LoadFacts ==
  ASSUME NEW lru \in Seq(Heights), NEW bs \in Seq(Heights)
  PROVE  /\ load_blocks[lru][bs] \in Seq(Heights)
         /\ Len(bs) <= CacheSize => Range(bs) \subseteq Range(load_blocks[lru][bs])
<1> DEFINE older == Sifted(lru, Range(bs))
           used == older \o bs
           loaded == load_blocks[lru][bs]
<1>1. loaded = IF Len(used) <= CacheSize THEN used
               ELSE SubSeq(used, Len(used) - CacheSize + 1, Len(used))
  BY Zenon DEF load_blocks
<1>2. older \in Seq(Heights)
  BY SiftedFacts, Zenon
<1>3. CacheSize \in Nat \ {0}
  BY SourceAssumption, Zenon
<1> HIDE DEF older, loaded
<1>4. /\ used \in Seq(Heights) /\ Len(used) = Len(older) + Len(bs)
      /\ \A i \in 1..Len(bs) : used[Len(older) + i] = bs[i]
  BY <1>2
<1> HIDE DEF used
<1>5. CASE Len(used) <= CacheSize
  <2>1. loaded = used
    BY <1>1, <1>5, Zenon
  <2>2. \A i \in 1..Len(bs) : Len(older) + i \in 1..Len(used)
    BY <1>2, <1>4
  <2>3. DOMAIN bs = 1..Len(bs) /\ DOMAIN used = 1..Len(used)
    BY <1>4
  <2>4. Range(bs) \subseteq Range(used)
    BY <1>4, <2>2, <2>3, Zenon DEF Range
  <2> QED
    BY <1>4, <2>1, <2>4, Zenon DEF loaded
<1>6. CASE ~ (Len(used) <= CacheSize)
  <2> DEFINE k == Len(used) - CacheSize
  <2>1. k \in Nat /\ k <= Len(used)
    BY <1>3, <1>4, <1>6
  <2>2. loaded = SubSeq(used, k + 1, Len(used))
    BY <1>1, <1>6, Zenon
  <2>3. /\ loaded \in Seq(Heights) /\ Len(loaded) = Len(used) - k
        /\ \A i \in 1..(Len(used) - k) : loaded[i] = used[k + i]
    <3> HIDE DEF k
    <3> QED
      BY <1>4, <2>1, <2>2, SMTT(30)
  <2>4. ASSUME Len(bs) <= CacheSize, NEW i \in 1..Len(bs)
        PROVE  bs[i] \in Range(loaded)
    <3>1. Len(older) + i - k \in 1..Len(loaded) /\ k + (Len(older) + i - k) = Len(older) + i
      BY <1>2, <1>3, <1>4, <2>1, <2>3, <2>4
    <3>2. loaded[Len(older) + i - k] = bs[i]
      BY <1>4, <2>3, <3>1, Zenon
    <3> QED
      BY <2>3, <3>1, <3>2 DEF Range
  <2>5. Len(bs) <= CacheSize => Range(bs) \subseteq Range(loaded)
    BY <2>4 DEF Range
  <2> QED
    BY <2>3, <2>5, Zenon DEF loaded
<1> QED
  BY <1>5, <1>6, Zenon

\* Using a key keeps the list a sequence of keys.
LEMMA TouchType ==
  ASSUME NEW S, NEW lru \in Seq(S), NEW key \in S
  PROVE  Touch(lru, key) \in Seq(S)
<1> DEFINE at == CHOOSE i \in DOMAIN lru : lru[i] = key
<1>1. CASE Contains(lru, key)
  <2>1. at \in 1..Len(lru)
    BY <1>1 DEF Contains
  <2> HIDE DEF at
  <2>2. RemoveAt(lru, at) \in Seq(S)
    BY <2>1 DEF RemoveAt
  <2> QED
    BY <1>1, <2>2 DEF Touch, at
<1>2. CASE ~ Contains(lru, key)
  BY <1>2 DEF Touch
<1> QED
  BY <1>1, <1>2, Zenon

--------------------------------------------------------------------------------
\* The inductive invariant.

\* hl-node writes each block once, in increasing order, and never to a file before
\* the one it is at.
FilesInv ==
  /\ files \in [Hours -> Seq(Line) \union {Absent}]
  /\ height \in 0..MaxHeight /\ writing \in Hours
  /\ \A h \in Hours : \A n \in Blocks(Lines(h)) : n <= height /\ h <= writing
  /\ \A h \in Hours : \A i, j \in DOMAIN Lines(h) :
       i < j /\ Lines(h)[i] # Garbled /\ Lines(h)[j] # Garbled => Lines(h)[i] < Lines(h)[j]
  /\ \A g, h \in Hours : Blocks(Lines(g)) \cap Blocks(Lines(h)) # {} => g = h

\* Block n of file h is in the ranges or was written where the loop does not look.
Known(h, n) == n >= FirstHeight => n \in DOMAIN ranges \union unseen

\* The loop has read at most what is in its file; it has left a file only for one
\* that hl-node writes to already; and it leaves no block in the file it leaves.
LoopInv ==
  /\ ingest \in {"backfill", "finding", "scanning", "switching", "moving"}
  /\ dt \in Hours /\ started_at \in Hours /\ started_at <= dt
  /\ cursor \in Int /\ cursor <= Len(Lines(dt))
  /\ dt # started_at => dt <= writing
  /\ ingest = "moving" =>
       /\ dt + 1 \in Hours /\ dt + 1 <= writing
       /\ \A n \in Blocks(Lines(dt)) : Known(dt, n)

\* The ranges name the file that has the block, and the cache holds heights.
CacheInv ==
  /\ DOMAIN ranges \subseteq Heights
  /\ \A n \in DOMAIN ranges : ranges[n] \in Hours /\ n \in Blocks(Lines(ranges[n]))
  /\ cache \in Seq(Heights)

Inv == FilesInv /\ LoopInv /\ CacheInv /\ IngestSkipsNothing

\* What the invariant reads.
tracked == <<files, writing, height, ingest, dt, started_at, cursor, ranges, cache, unseen>>

\* What hl-node has written is lines.
LEMMA LinesType ==
  ASSUME FilesInv
  PROVE  \A h \in Hours : Lines(h) \in Seq(Line)
BY DEF FilesInv, Lines

\* The invariant holds when the node starts.
LEMMA InitInv == Init => Inv
<1> SUFFICES ASSUME Init PROVE Inv
  BY Zenon
<1>1. /\ WrittenBefore \in Seq(Line) /\ Len(WrittenBefore) <= MaxHeight
      /\ \A i \in DOMAIN WrittenBefore : WrittenBefore[i] \in {i, Garbled}
      /\ Absent \notin Seq(Line)
      /\ MaxHour \in Nat /\ MaxHeight \in Nat
  BY SourceAssumption, Zenon DEF Line
<1>2. \A h \in Hours : Lines(h) = IF h = 0 THEN WrittenBefore ELSE <<>>
  BY <1>1, Zenon DEF Init, Lines
<1>3. Blocks(<<>>) = {} /\ DOMAIN <<>> = {}
  BY DEF Blocks, Range
<1>4. 0 \in Hours /\ Hours \subseteq Nat
  BY <1>1 DEF Hours
<1>5. FilesInv
  <2>1. files \in [Hours -> Seq(Line) \union {Absent}]
    BY <1>1, Zenon DEF Init
  <2>2. height \in 0..MaxHeight /\ writing \in Hours
    BY <1>1, <1>4 DEF Init
  <2>3. \A n \in Blocks(WrittenBefore) : n <= height
    <3> TAKE n \in Blocks(WrittenBefore)
    <3>1. PICK i \in 1..Len(WrittenBefore) : WrittenBefore[i] = n /\ n # Garbled
      BY <1>1, BlocksFacts, Zenon
    <3>2. n = i
      BY <1>1, <3>1
    <3> QED
      BY <1>1, <3>2 DEF Init
  <2>4. \A h \in Hours : \A n \in Blocks(Lines(h)) : n <= height /\ h <= writing
    BY <1>2, <1>3, <1>4, <2>3 DEF Init
  <2>5. \A i, j \in DOMAIN WrittenBefore :
          i < j /\ WrittenBefore[i] # Garbled /\ WrittenBefore[j] # Garbled =>
            WrittenBefore[i] < WrittenBefore[j]
    BY <1>1, Zenon
  <2>6. \A h \in Hours : \A i, j \in DOMAIN Lines(h) :
          i < j /\ Lines(h)[i] # Garbled /\ Lines(h)[j] # Garbled => Lines(h)[i] < Lines(h)[j]
    BY <1>2, <1>3, <2>5, Zenon
  <2>7. \A g, h \in Hours : Blocks(Lines(g)) \cap Blocks(Lines(h)) # {} => g = h
    BY <1>2, <1>3, Zenon
  <2> QED
    BY <2>1, <2>2, <2>4, <2>6, <2>7, Zenon DEF FilesInv
<1>6. LoopInv
  BY <1>1, <1>2, <1>4 DEF Init, LoopInv
<1>7. CacheInv
  BY DEF Init, CacheInv, EmptyFunction
<1>8. IngestSkipsNothing
  BY Zenon DEF Init, IngestSkipsNothing, Ahead
<1> QED
  BY <1>5, <1>6, <1>7, <1>8, Zenon DEF Inv

\* A step that leaves alone what the invariant reads keeps it.
LEMMA StutterStep ==
  ASSUME Inv, UNCHANGED tracked
  PROVE  Inv'
BY ZenonT(30) DEF Inv, FilesInv, LoopInv, CacheInv, IngestSkipsNothing, Ahead, Known, Lines, tracked

\* A file that is created has no lines.
LEMMA CreateStep ==
  ASSUME Inv, CreateFile
  PROVE  Inv'
<1>1. <<>> \in Seq(Line) /\ Absent \notin Seq(Line)
  BY SourceAssumption DEF Line
<1>2. files \in [Hours -> Seq(Line) \union {Absent}]
  BY Zenon DEF Inv, FilesInv
<1>3. files' \in [Hours -> Seq(Line) \union {Absent}]
  BY <1>1, <1>2, Zenon DEF CreateFile
<1>4. \A h \in Hours : Lines(h)' = Lines(h)
  BY <1>1, <1>2, Zenon DEF CreateFile, Lines
<1>5. UNCHANGED <<writing, height, ingest, dt, started_at, cursor, ranges, cache, unseen>>
  BY Zenon DEF CreateFile, loop, local
<1>6. FilesInv'
  BY <1>3, <1>4, <1>5, Zenon DEF Inv, FilesInv
<1>7. LoopInv'
  BY <1>4, <1>5, Zenon DEF Inv, LoopInv, Known
<1>8. CacheInv'
  BY <1>4, <1>5, Zenon DEF Inv, CacheInv
<1>9. IngestSkipsNothing'
  BY <1>4, <1>5, Zenon DEF Inv, IngestSkipsNothing, Ahead
<1> QED
  BY <1>6, <1>7, <1>8, <1>9, Zenon DEF Inv

\* The blocks in lines to which one is appended.
LEMMA AppendedLine ==
  ASSUME NEW lines \in Seq(Line), NEW line \in Line
  PROVE  /\ Append(lines, line) \in Seq(Line)
         /\ Len(Append(lines, line)) = Len(lines) + 1
         /\ \A i \in 1..Len(lines) : Append(lines, line)[i] = lines[i]
         /\ Append(lines, line)[Len(lines) + 1] = line
         /\ Blocks(Append(lines, line)) = Blocks(lines) \union ({line} \ {Garbled})
<1> DEFINE all == Append(lines, line)
<1>1. /\ all \in Seq(Line) /\ Len(all) = Len(lines) + 1 /\ Len(lines) \in Nat
      /\ \A i \in 1..Len(lines) : all[i] = lines[i]
      /\ all[Len(lines) + 1] = line
  OBVIOUS
<1> HIDE DEF all
<1>2. \A n : (\E i \in 1..Len(all) : all[i] = n) <=> (\E i \in 1..Len(lines) : lines[i] = n) \/ n = line
  BY <1>1
<1>3. \A n : n \in Blocks(all) <=> n # Garbled /\ \E i \in 1..Len(all) : all[i] = n
  BY <1>1, BlocksFacts, Zenon
<1>4. \A n : n \in Blocks(lines) <=> n # Garbled /\ \E i \in 1..Len(lines) : lines[i] = n
  BY BlocksFacts, Zenon
<1>5. Blocks(all) = Blocks(lines) \union ({line} \ {Garbled})
  BY <1>2, <1>3, <1>4, Zenon
<1> QED
  BY <1>1, <1>5, Zenon DEF all

\* What the lines before the cursor contain.
LEMMA BeforeCursor ==
  ASSUME NEW lines \in Seq(Line), NEW c \in 0..Len(lines), NEW n
  PROVE  Contains(SubSeq(lines, 1, c), n) <=> \E i \in 1..c : lines[i] = n
<1>1. Len(SubSeq(lines, 1, c)) = c /\ \A i \in 1..c : SubSeq(lines, 1, c)[i] = lines[i]
  OBVIOUS
<1> QED
  BY <1>1, Zenon DEF Contains

\* What the lines from the cursor on contain.
LEMMA FromCursor ==
  ASSUME NEW lines \in Seq(Line), NEW c \in 0..Len(lines)
  PROVE  /\ SubSeq(lines, c + 1, Len(lines)) \in Seq(Line)
         /\ \A n : n \in Blocks(SubSeq(lines, c + 1, Len(lines))) <=>
                     n # Garbled /\ \E i \in (c + 1)..Len(lines) : lines[i] = n
         /\ Blocks(SubSeq(lines, c + 1, Len(lines))) \subseteq Blocks(lines)
<1> DEFINE rest == SubSeq(lines, c + 1, Len(lines))
<1>1. /\ rest \in Seq(Line) /\ Len(rest) = Len(lines) - c /\ Len(lines) \in Nat
      /\ \A i \in 1..(Len(lines) - c) : rest[i] = lines[c + i]
  OBVIOUS
<1> HIDE DEF rest
<1>2. \A n : (\E i \in 1..Len(rest) : rest[i] = n) <=> \E i \in (c + 1)..Len(lines) : lines[i] = n
  <2> SUFFICES ASSUME NEW n
               PROVE  (\E i \in 1..Len(rest) : rest[i] = n)
                      <=> \E i \in (c + 1)..Len(lines) : lines[i] = n
    BY Zenon
  <2>1. ASSUME NEW i \in 1..Len(rest), rest[i] = n PROVE \E j \in (c + 1)..Len(lines) : lines[j] = n
    <3>1. c + i \in (c + 1)..Len(lines) /\ lines[c + i] = n
      BY <1>1, <2>1, SMTT(30)
    <3> QED
      BY <3>1, Zenon
  <2>2. ASSUME NEW i \in (c + 1)..Len(lines), lines[i] = n PROVE \E j \in 1..Len(rest) : rest[j] = n
    <3>1. i - c \in 1..Len(rest) /\ rest[i - c] = lines[c + (i - c)] /\ c + (i - c) = i
      BY <1>1
    <3> QED
      BY <2>2, <3>1, Zenon
  <2> QED
    BY <2>1, <2>2, Zenon
<1>3. \A n : n \in Blocks(rest) <=> n # Garbled /\ \E i \in 1..Len(rest) : rest[i] = n
  BY <1>1, BlocksFacts, Zenon
<1>4. \A n : n \in Blocks(lines) <=> n # Garbled /\ \E i \in 1..Len(lines) : lines[i] = n
  BY BlocksFacts, Zenon
<1>5. (c + 1)..Len(lines) \subseteq 1..Len(lines)
  OBVIOUS
<1>6. \A n : n \in Blocks(rest) <=> n # Garbled /\ \E i \in (c + 1)..Len(lines) : lines[i] = n
  BY <1>2, <1>3, Zenon
<1>7. Blocks(rest) \subseteq Blocks(lines)
  BY <1>4, <1>5, <1>6, Zenon
<1> QED
  BY <1>1, <1>6, <1>7, Zenon DEF rest

\* A bounded set of natural numbers that is not empty has a greatest element.
LEMMA GreatestNatural ==
  ASSUME NEW N \in Nat, NEW T \in SUBSET (0..N), T # {}
  PROVE  \E m \in T : \A k \in T : m >= k
<1> DEFINE U == {N - k : k \in T}
<1>0. \A k \in T : k \in Nat /\ N - k \in Nat
  <2> TAKE k \in T
  <2>1. k \in 0..N
    BY Zenon
  <2> QED
    BY <2>1
<1>1. U \in SUBSET Nat /\ U # {}
  BY <1>0, Zenon
<1>2. PICK u \in U : \A v \in U : u <= v
  <2> HIDE DEF U
  <2> QED
    BY <1>1, LeastNatural, Zenon
<1>3. PICK m \in T : u = N - m
  BY <1>2, Zenon
<1>4. \A k \in T : N - m <= N - k
  BY <1>2, <1>3, Zenon
<1>5. \A k \in T : m >= k
  BY <1>0, <1>4
<1> QED
  BY <1>5, Zenon

\* read_last_block_from_file gives the highest block of the file.
LEMMA LastBlock ==
  ASSUME FilesInv, NEW h \in Hours, NEW last \in last_block(h), last # None
  PROVE  last \in Heights /\ \A n \in Blocks(Lines(h)) : n <= last
<1> DEFINE L == Lines(h)
           valid == {i \in DOMAIN L : L[i] # Garbled}
           at == CHOOSE i \in valid : \A j \in valid : i >= j
<1>1. L \in Seq(Line)
  BY LinesType, Zenon
<1>2. /\ DOMAIN L = 1..Len(L) /\ Len(L) \in Nat
      /\ \A n : n \in Blocks(L) <=> n # Garbled /\ \E i \in 1..Len(L) : L[i] = n
      /\ Blocks(L) \subseteq Heights
  <2> HIDE DEF L
  <2> QED
    BY <1>1, BlocksFacts
<1>3. \A i, j \in DOMAIN L : i < j /\ L[i] # Garbled /\ L[j] # Garbled => L[i] < L[j]
  BY Zenon DEF FilesInv
<1>4. valid # {} /\ last = L[at]
  BY Zenon DEF last_block
<1> HIDE DEF L
<1>5. at \in valid /\ \A j \in valid : at >= j
  <2>1. valid \in SUBSET (0..Len(L))
    BY <1>2
  <2> HIDE DEF valid
  <2>2. \E m \in valid : \A k \in valid : m >= k
    BY <1>2, <1>4, <2>1, GreatestNatural, Zenon
  <2> QED
    BY <2>2, Zenon
<1> HIDE DEF at
<1>6. at \in 1..Len(L) /\ L[at] \in Blocks(L)
  BY <1>2, <1>5, Zenon
<1>7. ASSUME NEW n \in Blocks(L) PROVE n <= last
  <2>1. PICK i \in 1..Len(L) : L[i] = n /\ n # Garbled
    BY <1>2, Zenon
  <2>2. i \in valid /\ i <= at
    BY <1>2, <1>5, <2>1, Zenon
  <2>3. n < L[at] \/ n = L[at]
    BY <1>2, <1>3, <1>5, <1>6, <2>1, <2>2
  <2> QED
    BY <1>2, <1>4, <1>6, <1>7, <2>3 DEF Heights
<1> QED
  BY <1>2, <1>4, <1>6, <1>7, Zenon DEF L

\* hl-node writes to a file that the loop has not left, unless it is older than the
\* one the loop started with; what it writes is not among the lines read.
LEMMA WriteStep ==
  ASSUME Inv, NEW h \in Hours, NEW line \in {height + 1, Garbled}, WriteLine(h, line)
  PROVE  Inv'
<1> DEFINE L == Lines(h)
           new == {line} \ {Garbled}
<1>1. /\ FilesInv /\ LoopInv /\ CacheInv /\ IngestSkipsNothing
      /\ files \in [Hours -> Seq(Line) \union {Absent}]
      /\ height \in Nat /\ height + 1 \in 0..MaxHeight /\ writing \in Nat /\ h \in Nat
      /\ writing <= h
      /\ Hours \subseteq Nat /\ Heights \subseteq Nat /\ Absent \notin Seq(Line)
  <2>1. Hours \subseteq Nat /\ Heights \subseteq Nat /\ Absent \notin Seq(Line) /\ MaxHeight \in Nat
    BY SourceAssumption, SMTT(30) DEF Hours, Heights, Line
  <2>2. FilesInv /\ LoopInv /\ CacheInv /\ IngestSkipsNothing
    BY Zenon DEF Inv
  <2>3. files \in [Hours -> Seq(Line) \union {Absent}] /\ height \in 0..MaxHeight /\ writing \in Hours
    BY <2>2, Zenon DEF FilesInv
  <2>4. height < MaxHeight /\ h \in writing..Hour(now)
    BY Zenon DEF WriteLine
  <2>5. height \in Nat /\ height + 1 \in 0..MaxHeight /\ writing \in Nat /\ h \in Nat
    BY <2>1, <2>3, <2>4
  <2>6. writing <= h
    BY <2>4, <2>5
  <2> QED
    BY <2>1, <2>2, <2>3, <2>5, <2>6, ZenonT(30)
<1>2. L \in Seq(Line) /\ files[h] = L /\ line \in Line /\ L # Absent
  BY <1>1, LinesType DEF WriteLine, Lines, Line, Heights
<1>3. /\ writing' = h /\ height' = height + 1
      /\ unseen' = unseen \union
           IF ingest = "finding" \/ (ingest # "backfill" /\ h < started_at) THEN new ELSE {}
      /\ UNCHANGED <<ingest, dt, started_at, cursor, ranges, cache>>
  BY Zenon DEF WriteLine, loop, local
<1> DEFINE all == Append(L, line)
<1> HIDE DEF L
<1>4. /\ all \in Seq(Line) /\ Len(all) = Len(L) + 1
      /\ \A i \in 1..Len(L) : all[i] = L[i]
      /\ all[Len(L) + 1] = line
      /\ Blocks(all) = Blocks(L) \union new
  BY <1>2, AppendedLine, ZenonT(30)
<1>5. files' \in [Hours -> Seq(Line) \union {Absent}]
  BY <1>1, <1>2, <1>4, Zenon DEF WriteLine
<1>6. Lines(h)' = all /\ \A g \in Hours \ {h} : Lines(g)' = Lines(g)
  BY <1>1, <1>2, <1>4, Zenon DEF WriteLine, Lines
<1> HIDE DEF all
<1>7. \A g \in Hours : \A n : n \in Blocks(Lines(g)') <=> n \in Blocks(Lines(g)) \/ (g = h /\ n \in new)
  BY <1>4, <1>6, Zenon DEF L
<1>8. \A n \in new : n = height + 1
  BY Zenon
<1>9. \A g \in Hours : \A n \in Blocks(Lines(g)) :
        n \in Nat /\ n <= height /\ n # height + 1 /\ g <= writing /\ g \in Nat
  <2>1. \A g \in Hours : Blocks(Lines(g)) \subseteq Nat
    BY <1>1, LinesType, BlocksFacts, Zenon
  <2> QED
    BY <1>1, <2>1 DEF FilesInv
<1>10. FilesInv'
  <2>1. \A g \in Hours : \A n \in Blocks(Lines(g)') : n <= height + 1 /\ g <= h
    BY <1>1, <1>7, <1>8, <1>9
  <2>2. \A g \in Hours : \A i, j \in DOMAIN Lines(g)' :
          i < j /\ Lines(g)'[i] # Garbled /\ Lines(g)'[j] # Garbled => Lines(g)'[i] < Lines(g)'[j]
    <3>1. \A g \in Hours : \A i, j \in DOMAIN Lines(g) :
            i < j /\ Lines(g)[i] # Garbled /\ Lines(g)[j] # Garbled => Lines(g)[i] < Lines(g)[j]
      BY <1>1, Zenon DEF FilesInv
    <3>2. SUFFICES ASSUME NEW i \in DOMAIN all, NEW j \in DOMAIN all,
                          i < j, all[i] # Garbled, all[j] # Garbled
                   PROVE  all[i] < all[j]
      BY <1>6, <3>1, Zenon
    <3>3. /\ DOMAIN all = 1..(Len(L) + 1) /\ DOMAIN L = 1..Len(L) /\ Len(L) \in Nat
          /\ i \in 1..Len(L)
      BY <1>2, <1>4, <3>2
    <3>4. CASE j \in 1..Len(L)
      BY <1>4, <3>1, <3>2, <3>3, <3>4, ZenonT(30) DEF L
    <3>5. CASE j = Len(L) + 1
      <4>1. all[j] = height + 1
        BY <1>4, <3>2, <3>5, Zenon
      <4>2. all[i] = L[i] /\ L[i] \in Blocks(L)
        BY <1>2, <1>4, <3>2, <3>3, BlocksFacts, Zenon
      <4> QED
        BY <1>1, <1>9, <4>1, <4>2 DEF L
    <3> QED
      BY <3>3, <3>4, <3>5
  <2>3. \A g, k \in Hours : Blocks(Lines(g)') \cap Blocks(Lines(k)') # {} => g = k
    <3>1. SUFFICES ASSUME NEW g \in Hours, NEW k \in Hours, NEW n,
                          n \in Blocks(Lines(g)'), n \in Blocks(Lines(k)')
                   PROVE  g = k
      BY Zenon
    <3>2. CASE n \in new
      BY <1>7, <1>8, <1>9, <3>1, <3>2, Zenon
    <3>3. CASE n \notin new
      <4>1. n \in Blocks(Lines(g)) \cap Blocks(Lines(k))
        BY <1>7, <3>1, <3>3, Zenon
      <4> QED
        BY <1>1, <4>1, Zenon DEF FilesInv
    <3> QED
      BY <3>2, <3>3, Zenon
  <2> QED
    BY <1>1, <1>3, <1>5, <2>1, <2>2, <2>3, ZenonT(30) DEF FilesInv
<1>11. LoopInv'
  <2>1. \A g \in Hours : Len(Lines(g)) \in Nat /\ Len(Lines(g)') \in Nat /\ Len(Lines(g)) <= Len(Lines(g)')
    <3>1. \A g \in Hours : Len(Lines(g)) \in Nat
      BY <1>1, LinesType
    <3> QED
      BY <1>4, <1>6, <3>1 DEF L
  <2>2. dt \in Hours /\ cursor \in Int /\ cursor <= Len(Lines(dt))
    BY <1>1, Zenon DEF LoopInv
  <2>3. cursor <= Len(Lines(dt)')
    <3>1. dt' = dt /\ Len(Lines(dt)) \in Nat /\ Len(Lines(dt)') \in Nat
          /\ Len(Lines(dt)) <= Len(Lines(dt)')
      BY <1>3, <2>1, <2>2, ZenonT(30)
    <3> QED
      BY <2>2, <3>1
  <2>4. dt # started_at => dt <= h
    BY <1>1, <2>2 DEF LoopInv
  <2>5. ASSUME ingest = "moving"
        PROVE  /\ dt + 1 \in Hours /\ dt + 1 <= h
               /\ \A n \in Blocks(Lines(dt)') : n >= FirstHeight => n \in DOMAIN ranges \union unseen'
    <3>1. /\ dt + 1 \in Hours /\ dt + 1 <= writing
          /\ \A n \in Blocks(Lines(dt)) : n >= FirstHeight => n \in DOMAIN ranges \union unseen
      BY <1>1, <2>5, ZenonT(30) DEF LoopInv, Known
    <3>2. dt + 1 <= h /\ dt # h
      BY <1>1, <2>2, <3>1
    <3>3. Lines(dt)' = Lines(dt) /\ unseen \subseteq unseen'
      BY <1>3, <1>6, <2>2, <3>2, Zenon
    <3> QED
      BY <3>1, <3>2, <3>3, Zenon
  <2> QED
    BY <1>1, <1>3, <2>2, <2>3, <2>4, <2>5, Zenon DEF LoopInv, Known
<1>12. CacheInv'
  BY <1>1, <1>3, <1>7, Zenon DEF CacheInv
<1>13. IngestSkipsNothing'
  <2>1. SUFFICES ASSUME NEW g \in Hours, NEW n \in Blocks(Lines(g)'), n >= FirstHeight,
                        n \notin DOMAIN ranges
                 PROVE  Ahead(g, n)' \/ n \in unseen'
    BY <1>3, Zenon DEF IngestSkipsNothing
  <2>2. g \in Nat /\ dt \in Nat /\ started_at \in Nat /\ cursor \in Int /\ started_at <= dt
        /\ dt \in Hours /\ (dt # started_at => dt <= writing) /\ cursor <= Len(Lines(dt))
    BY <1>1, <2>1, Zenon DEF LoopInv
  <2>3. (dt = h /\ cursor >= 0) =>
          /\ Contains(SubSeq(Lines(h), 1, cursor), n) <=> \E i \in 1..cursor : L[i] = n
          /\ Contains(SubSeq(Lines(h)', 1, cursor), n) <=> \E i \in 1..cursor : L[i] = n
    <3> SUFFICES ASSUME dt = h, cursor >= 0
                 PROVE  /\ Contains(SubSeq(Lines(h), 1, cursor), n) <=> \E i \in 1..cursor : L[i] = n
                        /\ Contains(SubSeq(Lines(h)', 1, cursor), n) <=> \E i \in 1..cursor : L[i] = n
      BY Zenon
    <3>1. Len(L) \in Nat /\ cursor \in 0..Len(L) /\ cursor \in 0..Len(all) /\ 1..cursor \subseteq 1..Len(L)
      BY <1>2, <1>4, <2>2 DEF L
    <3>2. Contains(SubSeq(L, 1, cursor), n) <=> \E i \in 1..cursor : L[i] = n
      BY <1>2, <3>1, BeforeCursor, Zenon
    <3>3. Contains(SubSeq(all, 1, cursor), n) <=> \E i \in 1..cursor : all[i] = n
      BY <1>4, <3>1, BeforeCursor, ZenonT(30)
    <3>4. \A i \in 1..cursor : all[i] = L[i]
      BY <1>4, <3>1, Zenon
    <3>5. Contains(SubSeq(all, 1, cursor), n) <=> \E i \in 1..cursor : L[i] = n
      BY <3>3, <3>4, Zenon
    <3> QED
      BY <1>6, <3>2, <3>5, Zenon DEF L
  <2>4. CASE n \in Blocks(Lines(g))
    <3>1. Ahead(g, n) \/ n \in unseen
      BY <1>1, <2>1, <2>4, Zenon DEF IngestSkipsNothing
    <3>2. CASE g # h
      BY <1>3, <1>6, <2>1, <3>1, <3>2, Zenon DEF Ahead
    <3>3. CASE g = h
      BY <1>3, <2>2, <2>3, <3>1, <3>3 DEF Ahead
    <3> QED
      BY <3>2, <3>3, Zenon
  <2>5. CASE n \notin Blocks(Lines(g))
    <3>1. g = h /\ n \in new /\ n = height + 1
      BY <1>7, <1>8, <2>1, <2>5, Zenon
    <3>2. CASE ingest = "backfill"
      BY <1>3, <3>2, Zenon DEF Ahead
    <3>3. CASE ingest = "finding" \/ (ingest # "backfill" /\ h < started_at)
      BY <1>3, <3>1, <3>3, Zenon
    <3>4. CASE ingest \notin {"backfill", "finding"} /\ ~ (h < started_at)
      <4>1. h >= dt
        BY <1>1, <2>2, <3>4
      <4>2. CASE h > dt
        BY <1>3, <3>1, <3>4, <4>2, ZenonT(30) DEF Ahead
      <4>3. CASE h = dt
        <5>1. cursor >= 0 => ~ \E i \in 1..cursor : L[i] = n
          <6> SUFFICES ASSUME cursor >= 0, NEW i \in 1..cursor, L[i] = n PROVE FALSE
            BY Zenon
          <6>1. i \in 1..Len(L)
            BY <1>2, <2>2, <4>3, SMTT(30) DEF L
          <6>2. n \in Blocks(L)
            BY <1>2, <3>1, <6>1, BlocksFacts, Zenon
          <6> QED
            BY <2>5, <3>1, <6>2, Zenon DEF L
        <5> QED
          BY <1>3, <2>2, <2>3, <3>1, <3>4, <4>3, <5>1, SMTT(30) DEF Ahead
      <4> QED
        BY <1>1, <2>2, <4>1, <4>2, <4>3
    <3> QED
      BY <3>2, <3>3, <3>4, Zenon
  <2> QED
    BY <2>4, <2>5, Zenon
<1> QED
  BY <1>10, <1>11, <1>12, <1>13, Zenon DEF Inv

\* After a scan every block of the file is in the ranges, except those the loop
\* never looks for.
LEMMA ScanStep ==
  ASSUME Inv, ingest \in {"scanning", "switching"}, ScanFile,
         UNCHANGED <<hl_node, dt, started_at>>,
         ingest' = "switching" \/ (ingest' = "moving" /\ CanSwitch)
  PROVE  Inv'
<1> DEFINE L == Lines(dt)
           c == IF cursor < 0 THEN 0 ELSE cursor
           rest == SubSeq(L, c + 1, Len(L))
<1>1. /\ FilesInv /\ LoopInv /\ CacheInv /\ IngestSkipsNothing
      /\ dt \in Hours /\ cursor \in Int /\ cursor <= Len(L)
      /\ Hours \subseteq Nat
  <2>1. Hours \subseteq Nat
    BY SourceAssumption DEF Hours
  <2> QED
    BY <2>1, Zenon DEF Inv, LoopInv
<1>2. UNCHANGED <<files, writing, height, unseen, dt, started_at>>
  BY Zenon DEF hl_node
<1>3. \A g \in Hours : Lines(g)' = Lines(g)
  BY <1>2, Zenon DEF Lines
<1>4. L \in Seq(Line) /\ Len(L) \in Nat
  BY <1>1, LinesType
<1>5. /\ cursor' = IF files[dt] = Absent THEN cursor ELSE Len(L)
      /\ cache' = load_blocks[cache][new_blocks(rest, next_height)]
      /\ ranges' = load_ranges(ranges, rest, dt)
  BY Zenon DEF ScanFile
<1>6. c \in 0..Len(L)
  BY <1>1, <1>4
<1> HIDE DEF L, c, rest
<1>7. /\ rest \in Seq(Line)
      /\ \A n : n \in Blocks(rest) <=> n # Garbled /\ \E i \in (c + 1)..Len(L) : L[i] = n
      /\ Blocks(rest) \subseteq Blocks(L)
  BY <1>4, <1>6, FromCursor, ZenonT(30) DEF rest
<1>8. /\ DOMAIN ranges' = DOMAIN ranges \union Blocks(rest)
      /\ \A n \in Blocks(rest) : ranges'[n] = dt
      /\ \A n \in DOMAIN ranges \ Blocks(rest) : ranges'[n] = ranges[n]
  BY <1>5, Zenon DEF load_ranges
<1>9. /\ \A n : n \in Blocks(L) <=> n # Garbled /\ \E i \in 1..Len(L) : L[i] = n
      /\ Blocks(L) \subseteq Heights
  BY <1>4, BlocksFacts, Zenon
<1>10. \A n \in Blocks(L) : n >= FirstHeight => n \in DOMAIN ranges' \union unseen
  <2>1. SUFFICES ASSUME NEW n \in Blocks(L), n >= FirstHeight, n \notin DOMAIN ranges,
                        n \notin Blocks(rest)
                 PROVE  n \in unseen
    BY <1>8, Zenon
  <2>2. PICK i \in 1..Len(L) : L[i] = n /\ n # Garbled
    BY <1>9, <2>1, Zenon
  <2>3. i \notin (c + 1)..Len(L)
    BY <1>7, <2>1, <2>2, Zenon
  <2>4. i \in 1..c
    BY <1>4, <1>6, <2>2, <2>3
  <2>5. c = cursor /\ cursor > 0
    BY <1>1, <2>4 DEF c
  <2>6. Contains(SubSeq(L, 1, c), n)
    BY <1>4, <1>6, <2>2, <2>4, BeforeCursor, Zenon
  <2>7. Ahead(dt, n) \/ n \in unseen
    BY <1>1, <2>1, Zenon DEF IngestSkipsNothing, L
  <2> QED
    BY <1>1, <2>5, <2>6, <2>7 DEF Ahead, L
<1>11. FilesInv'
  BY <1>1, <1>2, <1>3, Zenon DEF FilesInv
<1>12. LoopInv'
  <2>1. Lines(dt)' = L
    BY <1>1, <1>2, <1>3, Zenon DEF L
  <2>2. cursor' \in Int /\ cursor' <= Len(L)
    BY <1>1, <1>4, <1>5
  <2>3. ASSUME CanSwitch PROVE dt + 1 \in Hours /\ dt + 1 <= writing
    <3>1. dt + 1 \in Hours /\ Blocks(Lines(dt + 1)) # {}
      BY <2>3, Zenon DEF CanSwitch, file_has_blocks
    <3> QED
      BY <1>1, <3>1, Zenon DEF FilesInv
  <2>4. \A n \in Blocks(L) : Known(dt, n)'
    BY <1>2, <1>10, Zenon DEF Known
  <2>5. ingest' = "moving" => /\ dt' + 1 \in Hours /\ dt' + 1 <= writing'
                              /\ \A n \in Blocks(Lines(dt)') : Known(dt, n)'
    BY <1>2, <2>1, <2>3, <2>4, Zenon
  <2> QED
    BY <1>1, <1>2, <2>1, <2>2, <2>5, Zenon DEF LoopInv
<1>13. CacheInv'
  <2>1. cache' \in Seq(Heights)
    BY <1>1, <1>5, <1>7, NewBlocksType, LoadFacts, Zenon DEF CacheInv
  <2>2. DOMAIN ranges' \subseteq Heights
    BY <1>1, <1>7, <1>8, <1>9, Zenon DEF CacheInv
  <2>3. \A n \in DOMAIN ranges' : ranges'[n] \in Hours /\ n \in Blocks(Lines(ranges'[n]))
    BY <1>1, <1>7, <1>8, Zenon DEF CacheInv, L
  <2>4. \A n \in DOMAIN ranges' : Lines(ranges[n])' = Lines(ranges'[n])
    BY <1>2, Zenon DEF Lines
  <2> QED
    BY <2>1, <2>2, <2>3, <2>4, Zenon DEF CacheInv
<1>14. IngestSkipsNothing'
  <2>1. SUFFICES ASSUME NEW g \in Hours, NEW n \in Blocks(Lines(g)), n >= FirstHeight,
                        n \notin DOMAIN ranges'
                 PROVE  Ahead(g, n)' \/ n \in unseen
    BY <1>2, <1>3, Zenon DEF IngestSkipsNothing
  <2>2. CASE g = dt
    BY <1>10, <2>1, <2>2, Zenon DEF L
  <2>3. CASE g # dt
    BY <1>1, <1>2, <1>8, <2>1, <2>3, Zenon DEF IngestSkipsNothing, Ahead
  <2> QED
    BY <2>2, <2>3, Zenon
<1> QED
  BY <1>11, <1>12, <1>13, <1>14, Zenon DEF Inv

\* The backfill leaves out only files whose blocks are all below the start.
LEMMA BackfillStep ==
  ASSUME Inv, Backfill
  PROVE  Inv'
<1>1. /\ FilesInv /\ LoopInv /\ CacheInv /\ IngestSkipsNothing
      /\ \A g \in Hours : Lines(g) \in Seq(Line) /\ Blocks(Lines(g)) \subseteq Heights
  BY LinesType, BlocksFacts, Zenon DEF Inv
<1>2. /\ UNCHANGED <<files, writing, height, unseen, dt, started_at, cursor, cache>>
      /\ ingest' = "finding"
  BY Zenon DEF Backfill, hl_node
<1>3. \A g \in Hours : Lines(g)' = Lines(g)
  BY <1>2, Zenon DEF Lines
<1>4. PICK wanted \in SUBSET Existing :
        /\ \A h \in Existing \ wanted : \E last \in last_block(h) : last # None /\ last < FirstHeight
        /\ ranges' = [n \in UNION {Blocks(Lines(h)) : h \in wanted} |->
                        CHOOSE h \in wanted : n \in Blocks(Lines(h))]
  BY Zenon DEF Backfill
<1>5. wanted \subseteq Hours
  BY Zenon DEF Existing
<1>6. \A n \in DOMAIN ranges' : ranges'[n] \in wanted /\ n \in Blocks(Lines(ranges'[n]))
  BY <1>4, Zenon
<1>7. \A h \in wanted : Blocks(Lines(h)) \subseteq DOMAIN ranges'
  BY <1>4, Zenon
<1>8. ASSUME NEW h \in Hours, NEW n \in Blocks(Lines(h)), n >= FirstHeight
      PROVE  n \in DOMAIN ranges'
  <2>1. h \in Existing
    <3>1. Blocks(<<>>) = {}
      BY DEF Blocks, Range
    <3> QED
      BY <1>8, <3>1, Zenon DEF Existing, Lines
  <2>2. SUFFICES ASSUME h \notin wanted PROVE FALSE
    BY <1>7, <1>8, Zenon
  <2>3. PICK last \in last_block(h) : last # None /\ last < FirstHeight
    BY <1>4, <2>1, <2>2, Zenon
  <2>4. n <= last /\ last \in Heights
    BY <1>1, <1>8, <2>3, LastBlock, Zenon
  <2>5. n \in Heights
    BY <1>1, <1>8, Zenon
  <2> QED
    BY <1>8, <2>3, <2>4, <2>5, SourceAssumption, SMTT(30) DEF Heights
<1>9. FilesInv'
  BY <1>1, <1>2, <1>3, Zenon DEF FilesInv
<1>10. LoopInv'
  <2>1. Lines(dt)' = Lines(dt)
    BY <1>1, <1>2, <1>3, Zenon DEF LoopInv
  <2> QED
    BY <1>1, <1>2, <2>1, Zenon DEF LoopInv
<1>11. CacheInv'
  <2>1. DOMAIN ranges' \subseteq Heights
    BY <1>1, <1>5, <1>6, Zenon
  <2>2. \A n \in DOMAIN ranges' : Lines(ranges[n])' = Lines(ranges'[n])
    BY <1>2, Zenon DEF Lines
  <2> QED
    BY <1>1, <1>2, <1>5, <1>6, <2>1, <2>2, ZenonT(30) DEF CacheInv
<1>12. IngestSkipsNothing'
  BY <1>3, <1>8, Zenon DEF IngestSkipsNothing
<1> QED
  BY <1>9, <1>10, <1>11, <1>12, Zenon DEF Inv

\* The loop starts with the latest file, which it reads from its beginning.
LEMMA FindStep ==
  ASSUME Inv, FindFile
  PROVE  Inv'
<1>1. FilesInv /\ LoopInv /\ CacheInv /\ IngestSkipsNothing
  BY Zenon DEF Inv
<1>2. /\ UNCHANGED <<files, writing, height, cache, ranges>>
      /\ ingest = "finding" /\ ingest' = "scanning" /\ cursor' = -1
      /\ dt' = latest_file /\ started_at' = latest_file
      /\ unseen' = unseen \ Range(Lines(latest_file))
  BY Zenon DEF FindFile, local
<1>3. latest_file \in Hours
  <2>1. Existing \in SUBSET (0..MaxHour) /\ Existing # {} /\ MaxHour \in Nat
    BY SourceAssumption, Zenon DEF Existing, Hours, FindFile
  <2>2. \E h \in Existing : \A g \in Existing : h >= g
    BY <2>1, GreatestNatural, Zenon
  <2>3. latest_file \in Existing
    BY <2>2, Zenon DEF latest_file
  <2> QED
    BY <2>3, Zenon DEF Existing
<1>4. \A g \in Hours : Lines(g)' = Lines(g)
  BY <1>2, Zenon DEF Lines
<1>5. FilesInv'
  BY <1>1, <1>2, <1>4, Zenon DEF FilesInv
<1>6. LoopInv'
  <2>1. Lines(dt)' = Lines(latest_file)
    BY <1>2, Zenon DEF Lines
  <2>2. Len(Lines(latest_file)) \in Nat /\ latest_file \in Nat
    BY <1>1, <1>3, LinesType, SourceAssumption DEF Hours
  <2> QED
    BY <1>2, <1>3, <2>1, <2>2 DEF LoopInv
<1>7. CacheInv'
  <2>1. \A n \in DOMAIN ranges : Lines(ranges[n])' = Lines(ranges[n])
    BY <1>2, Zenon DEF Lines
  <2> QED
    BY <1>1, <1>2, <2>1, Zenon DEF CacheInv
<1>8. IngestSkipsNothing'
  <2>1. SUFFICES ASSUME NEW g \in Hours, NEW n \in Blocks(Lines(g)), n >= FirstHeight,
                        n \notin DOMAIN ranges
                 PROVE  Ahead(g, n)' \/ n \in unseen'
    BY <1>2, <1>4, Zenon DEF IngestSkipsNothing
  <2>2. n \in unseen
    BY <1>1, <1>2, <2>1, Zenon DEF IngestSkipsNothing, Ahead
  <2>3. CASE n \in Range(Lines(latest_file))
    <3>1. n \in Blocks(Lines(latest_file)) \cap Blocks(Lines(g))
      BY <2>1, <2>3, Zenon DEF Blocks
    <3>2. g = latest_file
      BY <1>1, <1>3, <3>1, ZenonT(30) DEF FilesInv
    <3> QED
      BY <1>2, <3>2 DEF Ahead
  <2> QED
    BY <1>2, <2>2, <2>3, Zenon
<1> QED
  BY <1>5, <1>6, <1>7, <1>8, Zenon DEF Inv

\* The loop moves on to a file that hl-node writes to already.
LEMMA SwitchStep ==
  ASSUME Inv, SwitchFile
  PROVE  Inv'
<1>1. FilesInv /\ LoopInv /\ CacheInv /\ IngestSkipsNothing
  BY Zenon DEF Inv
<1>2. /\ UNCHANGED <<files, writing, height, unseen, started_at, cache, ranges>>
      /\ ingest = "moving" /\ ingest' = "scanning" /\ cursor' = -1 /\ dt' = dt + 1
  BY Zenon DEF SwitchFile, local, hl_node
<1>3. /\ dt + 1 \in Hours /\ dt + 1 <= writing /\ dt \in Hours /\ started_at \in Hours
      /\ started_at <= dt /\ Hours \subseteq Nat
      /\ \A n \in Blocks(Lines(dt)) : n >= FirstHeight => n \in DOMAIN ranges \union unseen
  <2>1. Hours \subseteq Nat
    BY SourceAssumption DEF Hours
  <2> QED
    BY <1>1, <1>2, <2>1, Zenon DEF LoopInv, Known
<1>4. \A g \in Hours : Lines(g)' = Lines(g)
  BY <1>2, Zenon DEF Lines
<1>5. FilesInv'
  BY <1>1, <1>2, <1>4, Zenon DEF FilesInv
<1>6. LoopInv'
  <2>1. Lines(dt)' = Lines(dt + 1)
    BY <1>2, Zenon DEF Lines
  <2>2. Len(Lines(dt + 1)) \in Nat
    BY <1>1, <1>3, LinesType
  <2> QED
    BY <1>2, <1>3, <2>1, <2>2 DEF LoopInv
<1>7. CacheInv'
  <2>1. \A n \in DOMAIN ranges : Lines(ranges[n])' = Lines(ranges[n])
    BY <1>2, Zenon DEF Lines
  <2> QED
    BY <1>1, <1>2, <2>1, Zenon DEF CacheInv
<1>8. IngestSkipsNothing'
  <2>1. SUFFICES ASSUME NEW g \in Hours, NEW n \in Blocks(Lines(g)), n >= FirstHeight,
                        n \notin DOMAIN ranges
                 PROVE  Ahead(g, n)' \/ n \in unseen
    BY <1>2, <1>4, Zenon DEF IngestSkipsNothing
  <2>2. CASE g = dt
    BY <1>3, <2>1, <2>2, Zenon
  <2>3. CASE g < dt
    BY <1>1, <1>2, <1>3, <2>1, <2>3 DEF IngestSkipsNothing, Ahead
  <2>4. CASE g = dt + 1 \/ g > dt + 1
    BY <1>2, <2>4 DEF Ahead
  <2> QED
    BY <1>3, <2>1, <2>2, <2>3, <2>4
<1> QED
  BY <1>5, <1>6, <1>7, <1>8, Zenon DEF Inv

\* What a look in the cache finds, after loading the file of the block.
Loaded(n) == IF Contains(cache, n) THEN cache ELSE after_reload(n)

\* It is heights, and the block is among them when its file fits in the cache.
LEMMA LoadedFacts ==
  ASSUME Inv, NEW n
  PROVE  /\ Loaded(n) \in Seq(Heights)
         /\ n \in DOMAIN ranges /\ Len(Lines(ranges[n])) <= CacheSize => Contains(Loaded(n), n)
<1>1. cache \in Seq(Heights)
  BY Zenon DEF Inv, CacheInv
<1>2. CASE Contains(cache, n) \/ n \notin DOMAIN ranges
  BY <1>1, <1>2, Zenon DEF Loaded, after_reload
<1>3. CASE ~ Contains(cache, n) /\ n \in DOMAIN ranges
  <2> DEFINE lines == Lines(ranges[n])
             bs == Parsed(lines)
  <2>1. Loaded(n) = load_blocks[cache][bs]
    BY <1>3, Zenon DEF Loaded, after_reload
  <2>2. lines \in Seq(Line) /\ n \in Blocks(lines)
    BY <1>3, LinesType, Zenon DEF Inv, CacheInv
  <2> HIDE DEF lines
  <2>3. bs \in Seq(Heights) /\ Len(bs) <= Len(lines) /\ Range(bs) = Blocks(lines)
    BY <2>2, ParsedFacts, ZenonT(30)
  <2> HIDE DEF bs
  <2>4. Loaded(n) \in Seq(Heights) /\ (Len(bs) <= CacheSize => n \in Range(Loaded(n)))
    BY <1>1, <2>1, <2>2, <2>3, LoadFacts, Zenon
  <2>5. DOMAIN Loaded(n) = 1..Len(Loaded(n))
    BY <2>4
  <2>6. n \in Range(Loaded(n)) => Contains(Loaded(n), n)
    BY <2>5, Zenon DEF Range, Contains
  <2>7. Len(lines) \in Nat /\ Len(bs) \in Nat /\ CacheSize \in Nat
    BY <2>2, <2>3, SourceAssumption
  <2>8. Len(lines) <= CacheSize => Contains(Loaded(n), n)
    BY <2>3, <2>4, <2>6, <2>7
  <2> QED
    BY <2>4, <2>8, Zenon DEF lines
<1> QED
  BY <1>2, <1>3, Zenon

\* A requester's look loads blocks of one file.
LEMMA LookStep ==
  ASSUME Inv, NEW r, LookLocally(r)
  PROVE  Inv'
<1> DEFINE n == asked[r]
           found == Loaded(n)
<1>1. FilesInv /\ LoopInv /\ CacheInv /\ IngestSkipsNothing
  BY Zenon DEF Inv
<1>2. UNCHANGED <<files, writing, height, unseen, ingest, dt, started_at, cursor>>
  BY Zenon DEF LookLocally, hl_node, loop
<1>3. /\ cache' = IF Contains(found, n) THEN Touch(found, n) ELSE found
      /\ ranges' = IF Contains(cache, n) \/ n \notin DOMAIN ranges THEN ranges
                   ELSE load_ranges(ranges, Lines(ranges[n]), ranges[n])
  BY Zenon DEF LookLocally, Loaded
<1>4. found \in Seq(Heights)
  BY LoadedFacts, Zenon
<1> HIDE DEF found
<1>5. cache' \in Seq(Heights)
  <2>1. CASE Contains(found, n)
    <3>1. n \in Heights
      BY <1>4, <2>1 DEF Contains
    <3> QED
      BY <1>3, <1>4, <2>1, <3>1, TouchType, Zenon
  <2> QED
    BY <1>3, <1>4, <2>1, ZenonT(30)
<1>6. \A g \in Hours : Blocks(Lines(g)) \subseteq Heights
  BY <1>1, LinesType, BlocksFacts, Zenon
<1>7. /\ DOMAIN ranges \subseteq DOMAIN ranges' /\ DOMAIN ranges' \subseteq Heights
      /\ \A m \in DOMAIN ranges' : ranges'[m] \in Hours /\ m \in Blocks(Lines(ranges'[m]))
  <2>1. CASE Contains(cache, n) \/ n \notin DOMAIN ranges
    BY <1>1, <1>3, <2>1, Zenon DEF CacheInv
  <2>2. CASE ~ Contains(cache, n) /\ n \in DOMAIN ranges
    <3> DEFINE h == ranges[n]
    <3>1. h \in Hours
      BY <1>1, <2>2, Zenon DEF CacheInv
    <3>2. ranges' = [m \in DOMAIN ranges \union Blocks(Lines(h)) |->
                       IF m \in Blocks(Lines(h)) THEN h ELSE ranges[m]]
      BY <1>3, <2>2, Zenon DEF load_ranges
    <3> HIDE DEF h
    <3> QED
      BY <1>1, <1>6, <3>1, <3>2, Zenon DEF CacheInv
  <2> QED
    BY <2>1, <2>2, Zenon
<1>8. \A g \in Hours : Lines(g)' = Lines(g)
  BY <1>2, Zenon DEF Lines
<1>9. FilesInv'
  BY <1>1, <1>2, <1>8, Zenon DEF FilesInv
<1>10. LoopInv'
  <2>1. Lines(dt)' = Lines(dt)
    BY <1>2, Zenon DEF Lines
  <2> QED
    BY <1>1, <1>2, <1>7, <2>1, Zenon DEF LoopInv, Known
<1>11. CacheInv'
  <2>1. \A m \in DOMAIN ranges' : Lines(ranges[m])' = Lines(ranges'[m])
    BY <1>2, Zenon DEF Lines
  <2> QED
    BY <1>5, <1>7, <2>1, Zenon DEF CacheInv
<1>12. IngestSkipsNothing'
  <2>1. SUFFICES ASSUME NEW g \in Hours, NEW m \in Blocks(Lines(g)), m >= FirstHeight,
                        m \notin DOMAIN ranges'
                 PROVE  Ahead(g, m)' \/ m \in unseen
    BY <1>2, <1>8, Zenon DEF IngestSkipsNothing
  <2>2. Ahead(g, m) \/ m \in unseen
    BY <1>1, <1>7, <2>1, Zenon DEF IngestSkipsNothing
  <2> QED
    BY <1>2, <1>8, <2>1, <2>2, Zenon DEF Ahead
<1> QED
  BY <1>9, <1>10, <1>11, <1>12, Zenon DEF Inv

\* Every step keeps the invariant.
LEMMA NextInv ==
  ASSUME Inv, [Next]_vars
  PROVE  Inv'
<1>1. CASE Tick
  BY <1>1, StutterStep, Zenon DEF Tick, tracked, loop, local
<1>2. CASE CreateFile
  BY <1>2, CreateStep, Zenon
<1>3. CASE \E h \in Hours : WriteBlock(h) \/ WriteGarbled(h)
  BY <1>3, WriteStep, Zenon DEF WriteBlock, WriteGarbled
<1>4. CASE Ingest
  <2>1. CASE Backfill
    BY <2>1, BackfillStep, Zenon
  <2>2. CASE FindFile
    BY <2>2, FindStep, Zenon
  <2>3. CASE Scan
    BY <2>3, ScanStep, Zenon DEF Scan
  <2>4. CASE Sleep
    <3>1. ingest' = "scanning" /\ UNCHANGED <<hl_node, dt, started_at, cursor, local>> /\ ingest = "switching"
      BY <2>4, Zenon DEF Sleep
    <3>2. UNCHANGED <<files, writing, height, unseen, dt, started_at, cursor, cache, ranges>>
      BY <3>1, Zenon DEF hl_node, local
    <3>3. FilesInv' /\ CacheInv'
      BY <3>2, ZenonT(30) DEF Inv, FilesInv, CacheInv, Lines
    <3>4. LoopInv'
      BY <3>1, <3>2, Zenon DEF Inv, LoopInv, Lines
    <3>5. IngestSkipsNothing'
      BY <3>1, <3>2, Zenon DEF Inv, IngestSkipsNothing, Ahead, Lines
    <3> QED
      BY <3>3, <3>4, <3>5, Zenon DEF Inv
  <2>5. CASE FinallyScan
    BY <2>5, ScanStep, Zenon DEF FinallyScan
  <2>6. CASE SwitchFile
    BY <2>6, SwitchStep, Zenon
  <2> QED
    BY <1>4, <2>1, <2>2, <2>3, <2>4, <2>5, <2>6, ZenonT(30) DEF Ingest
<1>5. ASSUME NEW r \in Requesters, Step(r) \/ AskLatest(r) \/ \E n \in AskedFor : Ask(r, n)
      PROVE  Inv'
  <2>1. CASE LookLocally(r)
    BY <2>1, LookStep, Zenon
  <2>2. CASE Missed(r) \/ FallBack(r) \/ Return(r)
    <3>1. UNCHANGED <<hl_node, loop, local>>
      BY <2>2, Zenon DEF Missed, FallBack, Return
    <3> QED
      BY <3>1, StutterStep, Zenon DEF hl_node, loop, local, tracked
  <2>3. CASE AskLatest(r) \/ \E n \in AskedFor : Ask(r, n)
    <3>1. UNCHANGED <<hl_node, loop, local>>
      BY <2>3, Zenon DEF AskLatest, Ask
    <3> QED
      BY <3>1, StutterStep, Zenon DEF hl_node, loop, local, tracked
  <2> QED
    BY <1>5, <2>1, <2>2, <2>3, Zenon DEF Step
<1>6. CASE UNCHANGED vars
  BY <1>6, StutterStep, Zenon DEF vars, tracked
<1> QED
  BY <1>1, <1>2, <1>3, <1>4, <1>5, <1>6, ZenonT(30) DEF Next

\* The inductive invariant holds in every state.
LEMMA AlwaysInv == Spec => []Inv
BY InitInv, NextInv, PTL DEF Spec

\* try_backfill_local_blocks and start_local_ingest_loop together leave no block of a
\* local file behind, however hl-node's writes, its changes of file and the steps of
\* the loop and of the requesters interleave, for any number of files, lines and
\* requesters.
THEOREM IngestLeavesNothing == Spec => []IngestSkipsNothing
<1>1. Inv => IngestSkipsNothing
  BY Zenon DEF Inv
<1> QED
  BY <1>1, AlwaysInv, PTL

--------------------------------------------------------------------------------
\* Where the requesters can be.
CallersInv == pc \in [Requesters -> {"idle", "looking", "missed", "falling back", "found"}]

\* It is kept by every step.
LEMMA NextCallers ==
  ASSUME CallersInv, [Next]_vars
  PROVE  CallersInv'
<1>1. CASE Tick \/ CreateFile \/ Ingest \/ \E h \in Hours : WriteBlock(h) \/ WriteGarbled(h)
  <2>1. UNCHANGED pc
    BY <1>1, Zenon DEF Tick, CreateFile, WriteBlock, WriteGarbled, WriteLine, Ingest, Backfill, FindFile,
       Scan, Sleep, FinallyScan, SwitchFile, callers
  <2> QED
    BY <2>1, ZenonT(30) DEF CallersInv
<1>2. CASE \E r \in Requesters : Step(r)
  BY <1>2, ZenonT(30) DEF CallersInv, Step, LookLocally, Missed, FallBack, Return, Leave
<1>3. CASE \E r \in Requesters : AskLatest(r) \/ \E n \in AskedFor : Ask(r, n)
  BY <1>3, Zenon DEF CallersInv, AskLatest, Ask
<1>4. CASE UNCHANGED vars
  BY <1>4, ZenonT(30) DEF CallersInv, vars
<1> QED
  BY <1>1, <1>2, <1>3, <1>4, Zenon DEF Next

\* A look that misses a block in the ranges has met a file that does not fit.
LEMMA MissStep ==
  ASSUME Inv, CallersInv, [Next]_vars, NEW r \in Requesters, pc[r] = "looking",
         pc'[r] = "missed", asked[r] \in DOMAIN ranges
  PROVE  Len(Lines(ranges[asked[r]])) > CacheSize
<1>1. CASE UNCHANGED pc
  BY <1>1, Zenon
<1>2. ASSUME NEW q \in Requesters,
             Missed(q) \/ FallBack(q) \/ Return(q) \/ AskLatest(q) \/ \E n \in AskedFor : Ask(q, n)
      PROVE  FALSE
  <2>1. pc' = [pc EXCEPT ![q] = "idle"] \/ pc' = [pc EXCEPT ![q] = "falling back"]
        \/ pc' = [pc EXCEPT ![q] = "found"] \/ pc' = [pc EXCEPT ![q] = "looking"]
    BY <1>2, Zenon DEF Missed, FallBack, Return, Leave, AskLatest, Ask
  <2> QED
    BY <2>1, ZenonT(30) DEF CallersInv
<1>3. ASSUME NEW q \in Requesters, LookLocally(q)
      PROVE  Len(Lines(ranges[asked[r]])) > CacheSize
  <2>1. pc' = [pc EXCEPT ![q] = IF Contains(Loaded(asked[q]), asked[q]) THEN "found" ELSE "missed"]
    BY <1>3, ZenonT(30) DEF LookLocally, Loaded
  <2>2. q = r /\ ~ Contains(Loaded(asked[r]), asked[r])
    BY <2>1, Zenon DEF CallersInv
  <2>3. ~ (Len(Lines(ranges[asked[r]])) <= CacheSize)
    BY <2>2, LoadedFacts, ZenonT(30)
  <2>4. Len(Lines(ranges[asked[r]])) \in Nat /\ CacheSize \in Nat
    BY LinesType, SourceAssumption DEF Inv, CacheInv
  <2> QED
    BY <2>3, <2>4, SMTT(30)
<1>4. CASE Tick \/ CreateFile \/ Ingest \/ \E h \in Hours : WriteBlock(h) \/ WriteGarbled(h)
  <2>1. UNCHANGED pc
    BY <1>4, ZenonT(30) DEF Tick, CreateFile, WriteBlock, WriteGarbled, WriteLine, Ingest, Backfill, FindFile,
       Scan, Sleep, FinallyScan, SwitchFile, callers
  <2> QED
    BY <1>1, <2>1, Zenon
<1>5. CASE UNCHANGED vars
  BY <1>1, <1>5, Zenon DEF vars
<1> QED
  BY <1>2, <1>3, <1>4, <1>5, Zenon DEF Next, Step

\* try_collect_local_block finds a block that the ranges name whenever the lines of
\* its file fit in the cache: load_scan_result evicts older keys only, whatever was
\* in the cache and wherever the ingest loop is.
THEOREM KnownBlocksAreServed == Spec => KnownBlockIsServedLocally
<1>1. Init => CallersInv
  BY Zenon DEF Init, CallersInv
<1>2. CallersInv /\ [Next]_vars => CallersInv'
  BY NextCallers, Zenon
<1>3. Inv /\ CallersInv /\ [Next]_vars =>
        [\A r \in Requesters :
           pc[r] = "looking" /\ pc'[r] = "missed" /\ asked[r] \in DOMAIN ranges =>
             Len(Lines(ranges[asked[r]])) > CacheSize]_vars
  BY MissStep, Zenon
<1> QED
  BY <1>1, <1>2, <1>3, AlwaysInv, PTL DEF Spec, KnownBlockIsServedLocally
================================================================================
