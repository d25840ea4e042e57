---------------------------- MODULE PseudoPeerProofs ---------------------------
(***************************************************************************)
(* Proofs about PseudoPeer, for any limits, chain and requests: the store  *)
(* its two tasks share, what the poller announces, and what the event loop *)
(* replies.                                                                *)
(***************************************************************************)
EXTENDS PseudoPeer, FiniteSetTheorems, TLAPS

--------------------------------------------------------------------------------
\* Induction, and functions that a loop over a sequence computes.

\* A set of natural numbers that is not empty has a least element.
LEMMA LeastNatural ==
  ASSUME NEW T \in SUBSET Nat, T # {}
  PROVE  \E m \in T : \A k \in T : m <= k
<1> DEFINE R == OpToRel(<, Nat)
<1>1. IsWellFoundedOn(R, Nat)
  BY NatLessThanWellFounded, Zenon
<1> HIDE DEF R
<1>2. PICK m \in T : \A k \in T : ~ (<<k, m>> \in R)
  BY <1>1, WFMin, Zenon
<1>3. \A k \in T : ~ (k < m)
  BY <1>2, Zenon DEF R, OpToRel
<1> QED
  BY <1>3

\* A set that holds 0, and every i up to n whose predecessor it holds, holds all.
LEMMA UpTo ==
  ASSUME NEW n \in Nat, NEW T, 0 \in T, \A i \in 1..n : i - 1 \in T => i \in T
  PROVE  0..n \subseteq T
<1> SUFFICES ASSUME NEW x \in 0..n, x \notin T PROVE FALSE
  BY Zenon
<1> DEFINE M == {i \in 0..n : i \notin T}
<1>1. PICK m \in M : \A k \in M : m <= k
  <2>1. M \in SUBSET Nat /\ M # {}
    OBVIOUS
  <2> HIDE DEF M
  <2> QED
    BY <2>1, LeastNatural, Zenon
<1>2. m \in 1..n /\ m - 1 \in 0..n /\ ~ (m <= m - 1)
  OBVIOUS
<1>3. m - 1 \in T
  BY <1>1, <1>2, Zenon
<1> QED
  BY <1>1, <1>2, <1>3, Zenon

\* f has the results of a loop of n steps that starts from a.
LoopOf(n, S, a, step, f) ==
  /\ f \in [0..n -> S]
  /\ f = [i \in 0..n |-> IF i = 0 THEN a ELSE step[i][f[i - 1]]]

\* A loop of n steps, each of which takes a member of S to a member of S, has a
\* function of its results.
LEMMA LoopExists ==
  ASSUME NEW n \in Nat, NEW S, NEW a \in S, NEW step \in [1..n -> [S -> S]]
  PROVE  \E f : LoopOf(n, S, a, step, f)
<1> DEFINE Good(m, f) ==
      f = [i \in 0..m |-> IF i = 0 THEN a ELSE step[i][f[i - 1]]]
           T == {m \in 0..n : \E f \in [0..m -> S] : Good(m, f)}
<1>1. 0 \in T
  <2> DEFINE f == [i \in 0..0 |-> a]
  <2>1. f \in [0..0 -> S] /\ Good(0, f)
    OBVIOUS
  <2>2. 0 \in 0..n
    OBVIOUS
  <2> HIDE DEF f, Good
  <2> QED
    BY <2>1, <2>2, Zenon
<1>2. ASSUME NEW m \in 1..n, m - 1 \in T
      PROVE  m \in T
  <2>1. PICK f \in [0..(m - 1) -> S] : Good(m - 1, f)
    BY <1>2, Zenon
  <2> DEFINE g == [i \in 0..m |-> IF i = m THEN step[m][f[m - 1]] ELSE f[i]]
  <2>2. step[m][f[m - 1]] \in S
    BY <2>1
  <2>3. g \in [0..m -> S]
    BY <2>1, <2>2
  <2>4. \A i \in 0..m : g[i] = IF i = 0 THEN a ELSE step[i][g[i - 1]]
    <3> TAKE i \in 0..m
    <3>1. CASE i = m
      <4>1. g[m] = step[m][f[m - 1]] /\ g[m - 1] = f[m - 1] /\ m # 0
        OBVIOUS
      <4> HIDE DEF g
      <4> QED
        BY <3>1, <4>1, Zenon
    <3>2. CASE i # m
      <4>1. i \in 0..(m - 1) /\ g[i] = f[i]
        BY <3>2
      <4>2. f[i] = IF i = 0 THEN a ELSE step[i][f[i - 1]]
        BY <2>1, <4>1, Zenon
      <4>3. i # 0 => g[i - 1] = f[i - 1]
        BY <3>2
      <4> HIDE DEF g
      <4> QED
        BY <4>1, <4>2, <4>3, Zenon
    <3> QED
      BY <3>1, <3>2, ZenonT(30)
  <2>5. Good(m, g)
    <3> HIDE DEF g
    <3> QED
      BY <2>3, <2>4, Zenon
  <2> HIDE DEF g, Good
  <2> QED
    BY <2>3, <2>5
<1>3. n \in T
  <2> HIDE DEF T
  <2>1. 0..n \subseteq T
    BY <1>1, <1>2, UpTo, Zenon
  <2> QED
    BY <2>1
<1> QED
  BY <1>3, Zenon DEF LoopOf

\* What holds before a loop and is kept by its steps holds throughout.
LEMMA LoopKeeps ==
  ASSUME NEW n \in Nat, NEW S, NEW f, f[0] \in S,
         \A i \in 1..n : f[i - 1] \in S => f[i] \in S
  PROVE  \A i \in 0..n : f[i] \in S
<1> DEFINE T == {i \in 0..n : f[i] \in S}
<1>1. 0 \in T /\ \A i \in 1..n : i - 1 \in T => i \in T
  OBVIOUS
<1>2. 0..n \subseteq T
  <2> HIDE DEF T
  <2> QED
    BY <1>1, UpTo, Zenon
<1> QED
  BY <1>2, Zenon

--------------------------------------------------------------------------------
\* Least recently used first.

\* The states of an LRU list of distinct keys that keeps its limit.
Lrus(S, limit) == {s \in Seq(S) : IsInjective(s) /\ Len(s) <= limit}

\* Removing an element moves the later ones up.
LEMMA RemoveAtFacts ==
  ASSUME NEW S, NEW s \in Seq(S), NEW at \in 1..Len(s)
  PROVE  /\ RemoveAt(s, at) \in Seq(S) /\ Len(RemoveAt(s, at)) = Len(s) - 1
         /\ \A i \in 1..(Len(s) - 1) :
              RemoveAt(s, at)[i] = IF i < at THEN s[i] ELSE s[i + 1]
<1> DEFINE x == SubSeq(s, 1, at - 1)
           y == SubSeq(s, at + 1, Len(s))
<1>1. x \in Seq(S) /\ Len(x) = at - 1 /\ \A i \in 1..(at - 1) : x[i] = s[i]
  OBVIOUS
<1>2. y \in Seq(S) /\ Len(y) = Len(s) - at /\ \A i \in 1..(Len(s) - at) : y[i] = s[at + i]
  OBVIOUS
<1> HIDE DEF x, y
<1>3. x \o y \in Seq(S) /\ Len(x \o y) = Len(s) - 1
  <2>1. x \in Seq(S) /\ y \in Seq(S)
    BY <1>1, <1>2, Zenon
  <2>2. x \o y \in Seq(S) /\ Len(x \o y) = Len(x) + Len(y)
    BY <2>1
  <2>3. Len(s) \in Nat /\ at \in Nat
    OBVIOUS
  <2> QED
    BY <1>1, <1>2, <2>2, <2>3
<1>4. \A i \in 1..(Len(s) - 1) : (x \o y)[i] = IF i < at THEN s[i] ELSE s[i + 1]
  BY <1>1, <1>2
<1> QED
  BY <1>3, <1>4, Zenon DEF x, y, RemoveAt

\* What t is when lru's key is used: the key is the last one of t, and the one
\* that was last comes right before it.
Touched(S, lru, key, t) ==
  /\ t \in Seq(S) /\ IsInjective(t) /\ t # <<>> /\ t[Len(t)] = key
  /\ Range(t) = Range(lru) \union {key}
  /\ Len(t) = IF Contains(lru, key) THEN Len(lru) ELSE Len(lru) + 1
  /\ lru # <<>> /\ lru[Len(lru)] # key => Len(t) > 1 /\ t[Len(t) - 1] = lru[Len(lru)]

\* Using a key moves it to the end of the list, and nothing else.
LEMMA TouchFacts ==
  ASSUME NEW S, NEW lru \in Seq(S), IsInjective(lru), NEW key \in S
  PROVE  Touched(S, lru, key, Touch(lru, key))
<1> DEFINE t == Touch(lru, key)
           at == CHOOSE i \in DOMAIN lru : lru[i] = key
<1>1. CASE ~ Contains(lru, key)
  <2>1. t = Append(lru, key)
    BY <1>1, Zenon DEF Touch
  <2>2. \A i \in 1..Len(lru) : lru[i] # key
    BY <1>1, Zenon DEF Contains
  <2> QED
    BY <1>1, <2>1, <2>2 DEF IsInjective, Range, Touched
<1>2. CASE Contains(lru, key)
  <2>1. at \in 1..Len(lru) /\ lru[at] = key
    BY <1>2 DEF Contains
  <2> DEFINE r == RemoveAt(lru, at)
  <2>2. t = Append(r, key)
    BY <1>2, Zenon DEF Touch
  <2> HIDE DEF at
  <2>4. r \in Seq(S) /\ Len(r) = Len(lru) - 1
        /\ \A i \in 1..(Len(lru) - 1) : r[i] = IF i < at THEN lru[i] ELSE lru[i + 1]
    BY <2>1, RemoveAtFacts, Zenon
  <2> HIDE DEF r
  <2>6. t \in Seq(S) /\ Len(t) = Len(lru) /\ t[Len(lru)] = key
    BY <2>1, <2>2, <2>4
  <2>7. \A i \in 1..(Len(lru) - 1) : t[i] = IF i < at THEN lru[i] ELSE lru[i + 1]
    BY <2>2, <2>4
  <2> HIDE DEF t
  <2>8. IsInjective(t)
    <3>1. \A i, j \in 1..Len(lru) : lru[i] = lru[j] => i = j
      BY DEF IsInjective
    <3>2. \A i \in 1..(Len(lru) - 1) : t[i] # key
      BY <2>1, <2>7, <3>1
    <3>3. \A i, j \in 1..(Len(lru) - 1) : t[i] = t[j] => i = j
      BY <2>1, <2>7, <3>1
    <3>4. \A i, j \in 1..Len(t) : t[i] = t[j] => i = j
      BY <2>6, <3>2, <3>3
    <3> QED
      BY <2>6, <3>4 DEF IsInjective
  <2>9. Range(t) = Range(lru) \union {key}
    <3>1. \A i \in 1..Len(lru) : t[i] \in Range(lru)
      BY <2>1, <2>6, <2>7, SMTT(30) DEF Range
    <3>2. \A i \in 1..Len(lru) : \E j \in 1..Len(t) : t[j] = lru[i]
      <4> TAKE i \in 1..Len(lru)
      <4>1. CASE i = at
        BY <2>1, <2>6, <4>1
      <4>2. CASE i < at
        BY <2>1, <2>6, <2>7, <4>2
      <4>3. CASE i > at
        <5>1. i - 1 \in 1..(Len(lru) - 1) /\ ~ (i - 1 < at) /\ (i - 1) + 1 = i
          BY <2>1, <4>3
        <5>2. t[i - 1] = lru[i]
          BY <2>7, <5>1, Zenon
        <5> QED
          BY <2>6, <5>1, <5>2
      <4> QED
        BY <2>1, <4>1, <4>2, <4>3
    <3>3. key \in Range(lru)
      BY <2>1 DEF Range
    <3>4. Range(t) \subseteq Range(lru)
      BY <2>6, <3>1 DEF Range
    <3>5. Range(lru) \subseteq Range(t)
      BY <3>2 DEF Range
    <3> QED
      BY <3>3, <3>4, <3>5, Zenon
  <2>10. ASSUME lru[Len(lru)] # key
         PROVE  Len(lru) > 1 /\ t[Len(lru) - 1] = lru[Len(lru)]
    BY <2>1, <2>7, <2>10
  <2>11. t # <<>>
    BY <2>1, <2>6
  <2> QED
    BY <1>2, <2>6, <2>8, <2>9, <2>10, <2>11, Zenon DEF t, Touched
<1> QED
  BY <1>1, <1>2, Zenon

\* What u is when key is inserted into lru: within the limit, with the key as the
\* last one; what was last before stays when there is room for two.
Inserted(S, limit, lru, key, u) ==
  /\ u \in Lrus(S, limit) /\ u # <<>> /\ u[Len(u)] = key /\ key \in Range(u)
  /\ Range(u) \subseteq Range(lru) \union {key}
  /\ lru # <<>> /\ limit > 1 => lru[Len(lru)] \in Range(u)

\* Inserting a key does that, evicting or not.
LEMMA LruInsertFacts ==
  ASSUME NEW S, NEW limit \in Nat \ {0}, NEW lru \in Lrus(S, limit), NEW key \in S
  PROVE  Inserted(S, limit, lru, key, LruInsert(lru, limit, key))
<1> DEFINE t == Touch(lru, key)
           u == LruInsert(lru, limit, key)
<1>1. lru \in Seq(S) /\ IsInjective(lru) /\ Len(lru) <= limit
  BY Zenon DEF Lrus
<1>2. Touched(S, lru, key, t)
  BY <1>1, TouchFacts, Zenon
<1>3. u = IF Len(t) > limit THEN Tail(t) ELSE t
  BY Zenon DEF LruInsert
<1> HIDE DEF t, u
<1>6. /\ t \in Seq(S) /\ t # <<>> /\ t[Len(t)] = key
      /\ Len(t) <= Len(lru) + 1
      /\ lru # <<>> /\ lru[Len(lru)] # key => Len(t) > 1 /\ t[Len(t) - 1] = lru[Len(lru)]
  BY <1>1, <1>2 DEF Touched
<1>7. IsInjective(t) /\ Range(t) = Range(lru) \union {key}
  BY <1>2, Zenon DEF Touched
<1>4. CASE Len(t) > limit
  <2>1. u \in Seq(S) /\ Len(u) = Len(t) - 1 /\ \A i \in 1..Len(u) : u[i] = t[i + 1]
    BY <1>6, <1>3, <1>4
  <2>2. Len(u) \in Nat \ {0} /\ Len(u) <= limit /\ u[Len(u)] = key
    BY <1>1, <1>6, <1>4, <2>1
  <2>3. IsInjective(u)
    <3>1. \A i, j \in 1..Len(t) : t[i] = t[j] => i = j
      BY <1>6, <1>7 DEF IsInjective
    <3>2. \A i \in 1..Len(u) : i + 1 \in 1..Len(t) /\ u[i] = t[i + 1]
      BY <1>6, <2>1
    <3>3. \A i, j \in 1..Len(u) : u[i] = u[j] => i = j
      BY <2>1, <3>1, <3>2
    <3> QED
      BY <2>1, <3>3 DEF IsInjective
  <2>4. Range(u) \subseteq Range(t) /\ key \in Range(u)
    <3>1. \A i \in 1..Len(u) : \E j \in 1..Len(t) : u[i] = t[j]
      BY <1>6, <2>1
    <3>3. DOMAIN u = 1..Len(u) /\ DOMAIN t = 1..Len(t)
      BY <1>6, <2>1
    <3>4. Range(u) \subseteq Range(t)
      BY <3>1, <3>3, Zenon DEF Range
    <3>5. Len(u) \in DOMAIN u
      BY <2>2, <3>3
    <3> QED
      BY <2>2, <3>4, <3>5, Zenon DEF Range
  <2>5. ASSUME lru # <<>>, limit > 1 PROVE lru[Len(lru)] \in Range(u)
    <3>1. CASE lru[Len(lru)] = key
      BY <2>4, <3>1, Zenon
    <3>2. CASE lru[Len(lru)] # key
      <4>1. t[Len(t) - 1] = lru[Len(lru)] /\ Len(u) - 1 \in 1..Len(u)
            /\ (Len(u) - 1) + 1 = Len(t) - 1
        BY <1>6, <1>4, <2>1, <2>5, <3>2, SMTT(30)
      <4>2. u[Len(u) - 1] = lru[Len(lru)]
        BY <2>1, <4>1, Zenon
      <4> QED
        BY <2>1, <4>1, <4>2 DEF Range
    <3> QED
      BY <3>1, <3>2, Zenon
  <2>6. u # <<>>
    BY <2>2
  <2> QED
    BY <1>7, <2>1, <2>2, <2>3, <2>4, <2>5, <2>6, Zenon DEF Lrus, Inserted, u
<1>5. CASE ~ (Len(t) > limit)
  <2>1. u = t /\ Len(t) <= limit
    BY <1>6, <1>3, <1>5
  <2>2. key \in Range(t)
    BY <1>7, Zenon
  <2>3. lru # <<>> => lru[Len(lru)] \in Range(t)
    <3>1. lru # <<>> => Len(lru) \in DOMAIN lru
      BY <1>1
    <3> QED
      BY <1>7, <3>1, Zenon DEF Range
  <2> QED
    BY <1>6, <1>7, <2>1, <2>2, <2>3, Zenon DEF Lrus, Inserted, u
<1> QED
  BY <1>4, <1>5, Zenon

--------------------------------------------------------------------------------
\* The hash index.

Hashes == [hash : Nat]

\* The functions from some of S to T.
PartialMaps(S, T) == UNION {[D -> T] : D \in SUBSET S}

Sound(m) ==
  /\ WellFormed(m, HashLimit)
  /\ IsInjective(m.lru_keys)
  /\ \A hash \in DOMAIN m.left_to_right : m.left_to_right[hash] = hash.hash

\* The states the hash index can be in.
Indexes ==
  {m \in [left_to_right : PartialMaps(Hashes, Nat),
          right_to_left : PartialMaps(Nat, Hashes),
          lru_keys : Seq(Hashes)] : Sound(m)}

\* g is f without keys, and with key mapped to value.
Replaced(S, T, f, keys, key, value, g) ==
  /\ g \in PartialMaps(S, T)
  /\ DOMAIN g = (DOMAIN f \ keys) \union {key}
  /\ g[key] = value
  /\ \A x \in DOMAIN f \ keys : x # key => g[x] = f[x]

\* That is what removing keys and putting one into a function make of it.
LEMMA PutFacts ==
  ASSUME NEW S, NEW T, NEW f \in PartialMaps(S, T), NEW keys, NEW key \in S, NEW value \in T
  PROVE  Replaced(S, T, f, keys, key, value, Put(Without(f, keys), key, value))
<1> DEFINE D == (DOMAIN f \ keys) \union {key}
           g == Put(Without(f, keys), key, value)
<1>1. DOMAIN f \subseteq S /\ \A x \in DOMAIN f : f[x] \in T
  BY Zenon DEF PartialMaps
<1>2. g = [x \in D |-> IF x = key THEN value ELSE f[x]]
  BY Zenon DEF Put, Without
<1>3. D \in SUBSET S /\ g \in [D -> T]
  BY <1>1, <1>2, Zenon
<1>4. g \in PartialMaps(S, T)
  BY <1>3, Zenon DEF PartialMaps
<1> QED
  BY <1>2, <1>4, Zenon DEF Replaced

\* insert keeps the index sound, makes its key the last one, and evicts neither
\* that key nor the one inserted before it.
LEMMA InsertKeeps ==
  ASSUME NEW m \in Indexes, NEW n \in Nat
  PROVE  LET i == insert(m, HashLimit, Hash(n), n) IN
         /\ i \in Indexes
         /\ i.lru_keys # <<>> /\ i.lru_keys[Len(i.lru_keys)] = Hash(n)
         /\ Hash(n) \in DOMAIN i.left_to_right
         /\ m.lru_keys # <<>> => m.lru_keys[Len(m.lru_keys)] \in DOMAIN i.left_to_right
<1> DEFINE ltr == m.left_to_right
           rtl == m.right_to_left
           old == m.lru_keys
           key == Hash(n)
           new == LruInsert(old, HashLimit, key)
           gone == Range(old) \ Range(new)
           values == {ltr[x] : x \in gone \cap DOMAIN ltr}
           L == Put(Without(ltr, gone), key, n)
           R == Put(Without(rtl, values), n, key)
           i == insert(m, HashLimit, key, n)
<1>1. /\ ltr \in PartialMaps(Hashes, Nat) /\ rtl \in PartialMaps(Nat, Hashes)
      /\ old \in Seq(Hashes) /\ Sound(m)
      /\ m \in [left_to_right : PartialMaps(Hashes, Nat),
                right_to_left : PartialMaps(Nat, Hashes), lru_keys : Seq(Hashes)]
  BY Zenon DEF Indexes
<1>2. key \in Hashes /\ key.hash = n
  BY Zenon DEF Hashes, Hash
<1>3. i = [left_to_right |-> L, right_to_left |-> R, lru_keys |-> new]
  <2>1. DOMAIN m = {"left_to_right", "right_to_left", "lru_keys"}
    BY <1>1, Zenon
  <2>2. evict(m, gone).left_to_right = Without(ltr, gone)
        /\ evict(m, gone).right_to_left = Without(rtl, values)
    <3> HIDE DEF gone
    <3> QED
      BY <2>1, Zenon DEF evict
  <2>3. Evicted(old, HashLimit, key) = gone
    BY Zenon DEF Evicted
  <2> QED
    BY <2>2, <2>3, Zenon DEF insert
<1>4. /\ DOMAIN ltr = Range(old) /\ Len(old) <= HashLimit /\ IsInjective(old)
      /\ \A v \in DOMAIN rtl : rtl[v] \in DOMAIN ltr /\ ltr[rtl[v]] = v
      /\ \A hash \in DOMAIN ltr : ltr[hash] = hash.hash
  BY <1>1, Zenon DEF Sound, WellFormed
<1>5. HashLimit \in Nat \ {0} /\ HashLimit > 1
  BY LimitAssumption, Zenon
<1>6. /\ new \in Seq(Hashes) /\ IsInjective(new) /\ Len(new) <= HashLimit
      /\ new # <<>> /\ new[Len(new)] = key /\ key \in Range(new)
      /\ Range(new) \subseteq Range(old) \union {key}
      /\ old # <<>> => old[Len(old)] \in Range(new)
  <2> HIDE DEF key, old
  <2>1. old \in Lrus(Hashes, HashLimit)
    BY <1>1, <1>4, Zenon DEF Lrus
  <2>2. Inserted(Hashes, HashLimit, old, key, new)
    BY <1>2, <1>5, <2>1, LruInsertFacts, Zenon
  <2> HIDE DEF new
  <2> QED
    BY <1>5, <2>2, Zenon DEF Lrus, Inserted
<1> HIDE DEF ltr, rtl, old, key, new, i
<1>7. /\ L \in PartialMaps(Hashes, Nat)
      /\ DOMAIN L = (DOMAIN ltr \ gone) \union {key}
      /\ L[key] = n
      /\ \A x \in DOMAIN ltr \ gone : x # key => L[x] = ltr[x]
  <2>1. Replaced(Hashes, Nat, ltr, gone, key, n, L)
    BY <1>1, <1>2, PutFacts, Zenon
  <2> HIDE DEF L, gone
  <2> QED
    BY <2>1, Zenon DEF Replaced
<1>8. /\ R \in PartialMaps(Nat, Hashes)
      /\ DOMAIN R = (DOMAIN rtl \ values) \union {n}
      /\ R[n] = key
      /\ \A x \in DOMAIN rtl \ values : x # n => R[x] = rtl[x]
  <2>1. Replaced(Nat, Hashes, rtl, values, n, key, R)
    BY <1>1, <1>2, PutFacts, Zenon
  <2> HIDE DEF R, values
  <2> QED
    BY <2>1, Zenon DEF Replaced
<1> HIDE DEF L, R
<1>9. DOMAIN L = Range(new)
  BY <1>4, <1>6, <1>7, Zenon
<1>10. \A hash \in DOMAIN L : L[hash] = hash.hash
  BY <1>2, <1>4, <1>7, Zenon
<1>11. ASSUME NEW v \in DOMAIN R PROVE R[v] \in DOMAIN L /\ L[R[v]] = v
  <2>1. CASE v = n
    BY <1>7, <1>8, <2>1, Zenon
  <2>2. CASE v # n
    <3>1. v \in DOMAIN rtl /\ v \notin values /\ R[v] = rtl[v]
      BY <1>8, <1>11, <2>2, Zenon
    <3>2. rtl[v] \in DOMAIN ltr /\ ltr[rtl[v]] = v
      BY <1>4, <3>1, Zenon
    <3>3. rtl[v] \notin gone
      <4> HIDE DEF gone
      <4> QED
        BY <3>1, <3>2, Zenon
    <3>4. rtl[v] # key
      BY <1>2, <1>4, <2>2, <3>2, Zenon
    <3> QED
      BY <1>7, <3>1, <3>2, <3>3, <3>4, ZenonT(30)
  <2> QED
    BY <2>1, <2>2, Zenon
<1>12. i.left_to_right = L /\ i.right_to_left = R /\ i.lru_keys = new
  BY <1>3, Zenon
<1>13. Sound(i)
  BY <1>6, <1>9, <1>10, <1>11, <1>12, ZenonT(30) DEF Sound, WellFormed
<1>14. i \in Indexes
  <2>1. i \in [left_to_right : PartialMaps(Hashes, Nat),
               right_to_left : PartialMaps(Nat, Hashes), lru_keys : Seq(Hashes)]
    BY <1>3, <1>6, <1>7, <1>8, ZenonT(30)
  <2> QED
    BY <1>13, <2>1, ZenonT(30) DEF Indexes
<1> QED
  BY <1>6, <1>7, <1>9, <1>12, <1>14, Zenon DEF i, key, old

\* Indexing a block keeps the index sound, and the block's hash is in it.
LEMMA IndexBlockKeeps ==
  ASSUME NEW m \in Indexes, NEW n \in Nat
  PROVE  /\ index_block(m, n) \in Indexes
         /\ Hash(n) \in DOMAIN index_block(m, n).left_to_right
<1> DEFINE own == insert(m, HashLimit, Hash(n), n)
<1>1. /\ own \in Indexes /\ own.lru_keys # <<>>
      /\ own.lru_keys[Len(own.lru_keys)] = Hash(n)
      /\ Hash(n) \in DOMAIN own.left_to_right
  BY InsertKeeps, Zenon
<1> HIDE DEF own
<1>2. CASE n > 0
  <2>1. n - 1 \in Nat
    BY <1>2
  <2>2. /\ insert(own, HashLimit, Hash(n - 1), n - 1) \in Indexes
        /\ Hash(n) \in DOMAIN insert(own, HashLimit, Hash(n - 1), n - 1).left_to_right
    BY <1>1, <2>1, InsertKeeps, Zenon
  <2> QED
    BY <1>2, <2>2, Zenon DEF index_block, own
<1>3. CASE ~ (n > 0)
  BY <1>1, <1>3, Zenon DEF index_block, own
<1> QED
  BY <1>2, <1>3, Zenon

\* So does indexing one block after another.
LEMMA IndexBlocksKeep ==
  ASSUME NEW m \in Indexes, NEW ns \in Seq(Nat)
  PROVE  index_blocks(m, ns) \in Indexes
<1> DEFINE n == Len(ns)
           E(f) == [i \in 0..Len(ns) |-> IF i = 0 THEN m ELSE index_block(f[i - 1], ns[i])]
           indexed == CHOOSE f : f = E(f)
           step == [i \in 1..n |-> [x \in Indexes |-> index_block(x, ns[i])]]
<1>1. index_blocks(m, ns) = indexed[Len(ns)]
  BY Zenon DEF index_blocks
<1>2. n \in Nat /\ \A i \in 1..n : ns[i] \in Nat
  OBVIOUS
<1>3. \A x \in Indexes : \A i \in 1..n : index_block(x, ns[i]) \in Indexes
  BY <1>2, IndexBlockKeeps, Zenon
<1>4. step \in [1..n -> [Indexes -> Indexes]]
  BY <1>3, Zenon
<1> HIDE DEF step, n
<1>5. PICK f : LoopOf(n, Indexes, m, step, f)
  BY <1>2, <1>4, LoopExists, Zenon
<1>6. f = E(f)
  <2>1. \A i \in 1..n : f[i - 1] \in Indexes
    <3>1. f \in [0..n -> Indexes]
      BY <1>5, Zenon DEF LoopOf
    <3>2. \A i \in 1..n : i - 1 \in 0..n
      BY <1>2
    <3> QED
      BY <3>1, <3>2, Zenon
  <2>2. \A i \in 1..n : step[i][f[i - 1]] = index_block(f[i - 1], ns[i])
    BY <2>1, Zenon DEF step
  <2>3. \A i \in 0..n : i = 0 \/ i \in 1..n
    BY <1>2
  <2>4. [i \in 0..n |-> IF i = 0 THEN m ELSE step[i][f[i - 1]]] = E(f)
    BY <2>2, <2>3, Zenon DEF n
  <2> QED
    BY <1>5, <2>4, Zenon DEF LoopOf
<1>7. indexed = E(indexed)
  <2> HIDE DEF E
  <2> QED
    BY <1>6, Zenon
<1> HIDE DEF indexed
<1>8. indexed[0] = m /\ \A i \in 1..n : indexed[i] = index_block(indexed[i - 1], ns[i])
  BY <1>2, <1>7, SMTT(30) DEF n
<1>9. \A i \in 1..n : indexed[i - 1] \in Indexes => indexed[i] \in Indexes
  BY <1>3, <1>8, Zenon
<1>10. \A i \in 0..n : indexed[i] \in Indexes
  BY <1>2, <1>8, <1>9, LoopKeeps, Zenon
<1> QED
  BY <1>1, <1>2, <1>10 DEF n

--------------------------------------------------------------------------------
\* The cache of blocks.

\* Using a block that is cached keeps the cache within its limit.
LEMMA TouchKeeps ==
  ASSUME NEW S, NEW limit \in Nat, NEW lru \in Lrus(S, limit), NEW key \in S,
         Contains(lru, key)
  PROVE  Touch(lru, key) \in Lrus(S, limit)
<1>1. lru \in Seq(S) /\ IsInjective(lru) /\ Len(lru) <= limit
  BY Zenon DEF Lrus
<1>2. Touched(S, lru, key, Touch(lru, key))
  BY <1>1, TouchFacts, Zenon
<1> QED
  BY <1>1, <1>2, Zenon DEF Lrus, Touched

\* So does inserting one.
LEMMA CacheKeeps ==
  ASSUME NEW lru \in Lrus(Nat, BlockLimit), NEW n \in Nat
  PROVE  LruInsert(lru, BlockLimit, n) \in Lrus(Nat, BlockLimit)
<1>1. BlockLimit \in Nat \ {0}
  BY LimitAssumption, Zenon
<1>2. Inserted(Nat, BlockLimit, lru, n, LruInsert(lru, BlockLimit, n))
  BY <1>1, LruInsertFacts, Zenon
<1> QED
  BY <1>2, Zenon DEF Inserted

\* get_by_numbers keeps the cache within its limit, and neither takes nor misses a
\* block that was not asked for.
LEMMA ScanKeeps ==
  ASSUME NEW hs \in Seq(Nat), blocks \in Lrus(Nat, BlockLimit)
  PROVE  /\ scan(hs).lru \in Lrus(Nat, BlockLimit)
         /\ scan(hs).taken \subseteq Range(hs) /\ scan(hs).missing \in Seq(Range(hs))
<1> DEFINE n == Len(hs)
           G(acc, h) ==
             IF Contains(acc.lru, h)
             THEN [acc EXCEPT !.lru = Touch(@, h), !.taken = @ \union {h}]
             ELSE IF h \in GapBlocks
             THEN [acc EXCEPT !.lru = LruInsert(@, BlockLimit, h), !.taken = @ \union {h}]
             ELSE [acc EXCEPT !.missing = Append(@, h)]
           a == [lru |-> blocks, taken |-> {}, missing |-> <<>>]
           E(f) == [i \in 0..Len(hs) |-> IF i = 0 THEN a ELSE G(f[i - 1], hs[i])]
           scanned == CHOOSE f : f = E(f)
           Scans == [lru : Lrus(Nat, BlockLimit), taken : SUBSET Range(hs),
                     missing : Seq(Range(hs))]
           step == [i \in 1..n |-> [x \in Scans |-> G(x, hs[i])]]
<1>1. scan(hs) = scanned[Len(hs)]
  BY Zenon DEF scan
<1>2. n \in Nat /\ \A i \in 1..n : hs[i] \in Nat /\ hs[i] \in Range(hs)
  BY DEF Range
<1>3. \A x \in Scans : \A i \in 1..n : G(x, hs[i]) \in Scans
  <2> SUFFICES ASSUME NEW x \in Scans, NEW i \in 1..n PROVE G(x, hs[i]) \in Scans
    BY Zenon
  <2>1. /\ x.lru \in Lrus(Nat, BlockLimit)
        /\ x.taken \subseteq Range(hs) /\ x.missing \in Seq(Range(hs))
    BY Zenon
  <2>2. BlockLimit \in Nat
    BY LimitAssumption, Zenon
  <2>3. LruInsert(x.lru, BlockLimit, hs[i]) \in Lrus(Nat, BlockLimit)
    BY <1>2, <2>1, CacheKeeps, Zenon
  <2>4. Contains(x.lru, hs[i]) => Touch(x.lru, hs[i]) \in Lrus(Nat, BlockLimit)
    BY <1>2, <2>1, <2>2, TouchKeeps, Zenon
  <2>5. x.taken \union {hs[i]} \subseteq Range(hs)
    BY <1>2, <2>1, Zenon
  <2>6. Append(x.missing, hs[i]) \in Seq(Range(hs))
    BY <1>2, <2>1
  <2> QED
    BY <2>1, <2>3, <2>4, <2>5, <2>6, ZenonT(30)
<1>4. step \in [1..n -> [Scans -> Scans]]
  <2> HIDE DEF Scans, G
  <2> QED
    BY <1>3, Zenon
<1>5. a \in Scans
  OBVIOUS
<1> HIDE DEF step, n, Scans, G
<1>6. PICK f : LoopOf(n, Scans, a, step, f)
  BY <1>2, <1>4, <1>5, LoopExists, Zenon
<1>7. f = E(f)
  <2>1. \A i \in 1..n : f[i - 1] \in Scans
    <3>1. f \in [0..n -> Scans]
      BY <1>6, Zenon DEF LoopOf
    <3> HIDE DEF a, E
    <3> QED
      BY <1>2, <3>1
  <2>2. \A i \in 1..n : step[i][f[i - 1]] = G(f[i - 1], hs[i])
    BY <2>1, Zenon DEF step
  <2>3. \A i \in 0..n : i = 0 \/ i \in 1..n
    BY <1>2
  <2>4. [i \in 0..n |-> IF i = 0 THEN a ELSE step[i][f[i - 1]]] = E(f)
    BY <2>2, <2>3, Zenon DEF n
  <2> QED
    BY <1>6, <2>4, Zenon DEF LoopOf
<1>8. scanned = E(scanned)
  <2> HIDE DEF E
  <2> QED
    BY <1>7, Zenon
<1> HIDE DEF scanned
<1>9. scanned[0] = a /\ \A i \in 1..n : scanned[i] = G(scanned[i - 1], hs[i])
  <2>1. \A i \in 0..n : scanned[i] = IF i = 0 THEN a ELSE G(scanned[i - 1], hs[i])
    BY <1>8, Zenon DEF n
  <2>2. 0 \in 0..n /\ \A i \in 1..n : i \in 0..n /\ i # 0
    BY <1>2
  <2> QED
    BY <2>1, <2>2, Zenon
<1>10. \A i \in 1..n : scanned[i - 1] \in Scans => scanned[i] \in Scans
  BY <1>3, <1>9, Zenon
<1>11. \A i \in 0..n : scanned[i] \in Scans
  BY <1>2, <1>5, <1>9, <1>10, LoopKeeps, Zenon
<1>12. scan(hs) \in Scans
  BY <1>1, <1>2, <1>11 DEF n
<1> QED
  BY <1>12, Zenon DEF Scans

\* The blocks that were missing leave the cache within its limit.
LEMMA FetchedKeeps ==
  ASSUME uncached \in Seq(Nat), blocks \in Lrus(Nat, BlockLimit)
  PROVE  fetched \in Lrus(Nat, BlockLimit)
<1> DEFINE n == Len(uncached)
           S == Lrus(Nat, BlockLimit)
           E(f) == [i \in 0..Len(uncached) |->
                      IF i = 0 THEN blocks
                      ELSE LruInsert(f[i - 1], BlockLimit, uncached[i])]
           inserted == CHOOSE f : f = E(f)
           step == [i \in 1..n |-> [x \in S |-> LruInsert(x, BlockLimit, uncached[i])]]
<1>1. fetched = inserted[Len(uncached)]
  BY Zenon DEF fetched
<1>2. n \in Nat /\ \A i \in 1..n : uncached[i] \in Nat
  OBVIOUS
<1>3. \A x \in S : \A i \in 1..n : LruInsert(x, BlockLimit, uncached[i]) \in S
  BY <1>2, CacheKeeps, Zenon
<1> HIDE DEF S
<1>4. step \in [1..n -> [S -> S]]
  BY <1>3, Zenon
<1> HIDE DEF step, n
<1>5. blocks \in S
  BY Zenon DEF S
<1>6. PICK f : LoopOf(n, S, blocks, step, f)
  BY <1>2, <1>4, <1>5, LoopExists, Zenon
<1>7. f = E(f)
  <2>1. \A i \in 1..n : f[i - 1] \in S
    BY <1>2, <1>6 DEF LoopOf
  <2>2. \A i \in 1..n : step[i][f[i - 1]] = LruInsert(f[i - 1], BlockLimit, uncached[i])
    BY <2>1, Zenon DEF step
  <2>3. \A i \in 0..n : i = 0 \/ i \in 1..n
    BY <1>2
  <2>4. [i \in 0..n |-> IF i = 0 THEN blocks ELSE step[i][f[i - 1]]] = E(f)
    BY <2>2, <2>3, Zenon DEF n
  <2> QED
    BY <1>6, <2>4, ZenonT(30) DEF LoopOf
<1>8. inserted = E(inserted)
  <2> HIDE DEF E
  <2> QED
    BY <1>7, Zenon
<1> HIDE DEF inserted
<1>9. /\ inserted[0] = blocks
      /\ \A i \in 1..n : inserted[i] = LruInsert(inserted[i - 1], BlockLimit, uncached[i])
  <2>1. \A i \in 0..n : inserted[i] = IF i = 0 THEN blocks
                                       ELSE LruInsert(inserted[i - 1], BlockLimit, uncached[i])
    BY <1>8, Zenon DEF n
  <2>2. 0 \in 0..n /\ \A i \in 1..n : i \in 0..n /\ i # 0
    BY <1>2
  <2> QED
    BY <2>1, <2>2, Zenon
<1>10. \A i \in 1..n : inserted[i - 1] \in S => inserted[i] \in S
  BY <1>3, <1>9, Zenon
<1>11. \A i \in 0..n : inserted[i] \in S
  BY <1>2, <1>5, <1>9, <1>10, LoopKeeps, Zenon
<1> QED
  BY <1>1, <1>2, <1>11 DEF n, S

--------------------------------------------------------------------------------
\* The heights a request comes to.

\* s has the heights h[k] of the k up to m that are known, in their order.
Filtered(h, known, m, s) ==
  /\ s \in Seq(Nat)
  /\ \A x \in 1..Len(s) : \E k \in 1..m : k \in known /\ h[k] = s[x]
  /\ \A k \in 1..m : k \in known => \E x \in 1..Len(s) : s[x] = h[k]
  /\ (\A x, y \in 1..Len(s) : s[x] = s[y] => x = y) =>
       \A i, j \in 1..Len(s), k, l \in 1..m :
         s[i] = h[k] /\ s[j] = h[l] /\ k < l => i < j

\* Whether a height is known depends on the height alone.
KnownByHeight(n, h, known) == \A k, l \in 1..n : h[k] = h[l] /\ k \in known => l \in known

\* The next height is appended when it is known, and skipped when it is not.
LEMMA FilterStep ==
  ASSUME NEW n \in Nat, NEW h \in [1..n -> Nat], NEW known \in SUBSET (1..n),
         KnownByHeight(n, h, known),
         NEW m \in 1..n, NEW s, Filtered(h, known, m - 1, s),
         NEW u, u = IF m \in known THEN Append(s, h[m]) ELSE s
  PROVE  Filtered(h, known, m, u)
<1>1. /\ s \in Seq(Nat)
      /\ \A x \in 1..Len(s) : \E k \in 1..(m - 1) : k \in known /\ h[k] = s[x]
      /\ \A k \in 1..(m - 1) : k \in known => \E x \in 1..Len(s) : s[x] = h[k]
  BY Zenon DEF Filtered
<1>2. (\A x, y \in 1..Len(s) : s[x] = s[y] => x = y) =>
        \A i, j \in 1..Len(s), k, l \in 1..(m - 1) :
          s[i] = h[k] /\ s[j] = h[l] /\ k < l => i < j
  BY Zenon DEF Filtered
<1>3. \A k \in 1..m : k \in 1..(m - 1) \/ k = m
  OBVIOUS
<1>4. \A k, l \in 1..n : h[k] = h[l] /\ k \in known => l \in known
  BY Zenon DEF KnownByHeight
<1>5. CASE m \in known
  <2> DEFINE t == Append(s, h[m])
  <2>1. /\ t \in Seq(Nat) /\ Len(t) = Len(s) + 1 /\ t[Len(s) + 1] = h[m]
        /\ \A x \in 1..Len(s) : t[x] = s[x]
    BY <1>1
  <2>2. \A x \in 1..Len(t) : x \in 1..Len(s) \/ x = Len(s) + 1
    BY <1>1, <2>1, SMTT(30)
  <2> HIDE DEF t
  <2>3. \A x \in 1..Len(t) : \E k \in 1..m : k \in known /\ h[k] = t[x]
    <3> TAKE x \in 1..Len(t)
    <3>1. CASE x = Len(s) + 1
      BY <1>5, <2>1, <3>1
    <3>2. CASE x \in 1..Len(s)
      BY <1>1, <2>1, <3>2
    <3> QED
      BY <2>2, <3>1, <3>2, Zenon
  <2>4. \A k \in 1..m : k \in known => \E x \in 1..Len(t) : t[x] = h[k]
    <3> TAKE k \in 1..m
    <3> HAVE k \in known
    <3>1. CASE k = m
      <4>1. Len(s) + 1 \in 1..Len(t)
        BY <1>1, <2>1
      <4> QED
        BY <2>1, <3>1, <4>1, ZenonT(30)
    <3>2. CASE k \in 1..(m - 1)
      <4>1. PICK x \in 1..Len(s) : s[x] = h[k]
        BY <1>1, <3>2, Zenon
      <4>2. x \in 1..Len(t)
        BY <1>1, <2>1
      <4> QED
        BY <2>1, <4>1, <4>2, Zenon
    <3> QED
      BY <1>3, <3>1, <3>2, Zenon
  <2>5. ASSUME \A x, y \in 1..Len(t) : t[x] = t[y] => x = y,
               NEW i \in 1..Len(t), NEW j \in 1..Len(t), NEW k \in 1..m, NEW l \in 1..m,
               t[i] = h[k], t[j] = h[l], k < l
        PROVE  i < j
    <3>1. \A x \in 1..Len(s) : x \in 1..Len(t) /\ x # Len(s) + 1 /\ Len(s) + 1 \in 1..Len(t)
      <4>1. Len(s) \in Nat /\ Len(t) = Len(s) + 1
        BY <1>1, <2>1
      <4> QED
        BY <4>1, SMTT(30)
    <3>2. \A x \in 1..Len(s) : s[x] # h[m]
      BY <2>1, <2>5, <3>1, Zenon
    <3>3. k \in 1..(m - 1)
      BY <2>5
    <3>4. i \in 1..Len(s)
      <4> SUFFICES ASSUME i = Len(s) + 1 PROVE FALSE
        BY <2>2, Zenon
      <4>1. h[k] = h[m]
        BY <2>1, <2>5, Zenon
      <4>2. k \in known /\ m \in 1..n /\ k \in 1..n
        BY <1>5, <1>4, <3>3, <4>1
      <4>3. PICK x \in 1..Len(s) : s[x] = h[k]
        BY <1>1, <3>3, <4>2, Zenon
      <4> QED
        BY <3>2, <4>1, <4>3, Zenon
    <3>5. CASE j = Len(s) + 1
      BY <1>1, <3>4, <3>5
    <3>6. CASE j \in 1..Len(s)
      <4>1. l \in 1..(m - 1)
        BY <1>3, <2>1, <2>5, <3>2, <3>6, Zenon
      <4>2. \A x, y \in 1..Len(s) : s[x] = s[y] => x = y
        BY <2>1, <2>5, <3>1, Zenon
      <4> QED
        BY <1>2, <2>1, <2>5, <3>3, <3>4, <3>6, <4>1, <4>2, SMTT(30)
    <3> QED
      BY <2>2, <3>5, <3>6, Zenon
  <2>6. (\A x, y \in 1..Len(t) : t[x] = t[y] => x = y) =>
          \A i, j \in 1..Len(t), k, l \in 1..m : t[i] = h[k] /\ t[j] = h[l] /\ k < l => i < j
    BY <2>5, Zenon
  <2>7. u = t
    BY <1>5, Zenon DEF t
  <2>8. t \in Seq(Nat)
    BY <2>1, Zenon
  <2>9. Filtered(h, known, m, t)
    BY <2>3, <2>4, <2>6, <2>8, Zenon DEF Filtered
  <2> QED
    BY <2>7, <2>9, Zenon
<1>6. CASE m \notin known
  <2>1. \A x \in 1..Len(s) : \E k \in 1..m : k \in known /\ h[k] = s[x]
    BY <1>1
  <2>2. \A k \in 1..m : k \in known => \E x \in 1..Len(s) : s[x] = h[k]
    BY <1>1, <1>3, <1>6, Zenon
  <2>3. \A x \in 1..Len(s) : s[x] # h[m]
    <3> SUFFICES ASSUME NEW x \in 1..Len(s), s[x] = h[m] PROVE FALSE
      BY Zenon
    <3>1. PICK k \in 1..(m - 1) : k \in known /\ h[k] = s[x]
      BY <1>1, Zenon
    <3>2. k \in 1..n
      BY <3>1, Zenon
    <3> QED
      BY <1>6, <1>4, <3>1, <3>2, Zenon
  <2>4. ASSUME \A x, y \in 1..Len(s) : s[x] = s[y] => x = y,
               NEW i \in 1..Len(s), NEW j \in 1..Len(s), NEW k \in 1..m, NEW l \in 1..m,
               s[i] = h[k], s[j] = h[l], k < l
        PROVE  i < j
    <3>1. k \in 1..(m - 1) /\ l \in 1..(m - 1)
      BY <1>3, <2>3, <2>4, Zenon
    <3> QED
      BY <1>2, <2>4, <3>1, Zenon
  <2>5. Filtered(h, known, m, s)
    BY <1>1, <2>1, <2>2, <2>4, Zenon DEF Filtered
  <2> QED
    BY <1>6, <2>5, Zenon
<1> QED
  BY <1>5, <1>6, Zenon

\* hs has heights of the hashes asked for, and in their order when none is asked
\* for twice.
AskedBodies(hashes, hs) ==
  /\ \A i \in DOMAIN hs : \E k \in DOMAIN hashes : hashes[k].hash = hs[i]
  /\ IsInjective(hs) =>
       \A i, j \in DOMAIN hs, k, l \in DOMAIN hashes :
         hs[i] = hashes[k].hash /\ hs[j] = hashes[l].hash /\ k < l => i < j

\* The index and the database resolve a hash to the height of its block.
LEMMA ResolvedHeight ==
  ASSUME hash_index \in Indexes, NEW hash \in Hashes
  PROVE  hash_to_number(hash) = hash.hash
<1>1. \A h \in DOMAIN hash_index.left_to_right : hash_index.left_to_right[h] = h.hash
  BY Zenon DEF Indexes, Sound
<1> QED
  BY <1>1, Zenon DEF hash_to_number

\* A request for bodies comes to heights of the hashes asked for, in their order.
LEMMA BodyHeights ==
  ASSUME hash_index \in Indexes, NEW hashes \in Seq(Hashes)
  PROVE  body_heights(hashes) \in Seq(Nat) /\ AskedBodies(hashes, body_heights(hashes))
<1> DEFINE n == Len(hashes)
           E(f) == [i \in 0..Len(hashes) |->
                      IF i = 0 THEN <<>>
                      ELSE IF resolves(hashes[i])
                      THEN Append(f[i - 1], hash_to_number(hashes[i]))
                      ELSE f[i - 1]]
           found == CHOOSE f : f = E(f)
           h == [i \in 1..n |-> hashes[i].hash]
           known == {i \in 1..n : resolves(hashes[i])}
           S == Seq(Nat)
           step == [i \in 1..n |-> [x \in S |-> IF i \in known THEN Append(x, h[i]) ELSE x]]
<1>1. body_heights(hashes) = found[Len(hashes)]
  BY Zenon DEF body_heights
<1>2. n \in Nat /\ \A i \in 1..n : hashes[i] \in Hashes
  OBVIOUS
<1>3. h \in [1..n -> Nat] /\ \A i \in 1..n : hash_to_number(hashes[i]) = h[i]
  BY <1>2, ResolvedHeight, Zenon DEF Hashes
<1>4. KnownByHeight(n, h, known)
  <2> SUFFICES ASSUME NEW k \in 1..n, NEW l \in 1..n, h[k] = h[l], k \in known
               PROVE  l \in known
    BY Zenon DEF KnownByHeight
  <2>1. hashes[k] = hashes[l]
    BY <1>2 DEF Hashes
  <2> QED
    BY <2>1, Zenon
<1>5. known \in SUBSET (1..n) /\ \A i \in 1..n : resolves(hashes[i]) <=> i \in known
  BY Zenon
<1> HIDE DEF h, known, n
<1>6. step \in [1..n -> [S -> S]] /\ <<>> \in S
  BY <1>3
<1> HIDE DEF S
<1>7. PICK f : LoopOf(n, S, <<>>, step, f)
  <2> HIDE DEF step
  <2> QED
    BY <1>2, <1>6, LoopExists, Zenon
<1>8. f = E(f)
  <2>1. \A i \in 1..n : f[i - 1] \in S
    <3>1. f \in [0..n -> S]
      BY <1>7, Zenon DEF LoopOf
    <3> HIDE DEF E, step
    <3> QED
      BY <1>2, <3>1
  <2>2. \A i \in 1..n : step[i][f[i - 1]] = IF resolves(hashes[i])
                                           THEN Append(f[i - 1], hash_to_number(hashes[i]))
                                           ELSE f[i - 1]
    BY <1>3, <1>5, <2>1, Zenon
  <2> HIDE DEF step
  <2>3. \A i \in 0..n : i = 0 \/ i \in 1..n
    BY <1>2
  <2>4. [i \in 0..n |-> IF i = 0 THEN <<>> ELSE step[i][f[i - 1]]] = E(f)
    BY <2>2, <2>3, Zenon DEF n
  <2> QED
    BY <1>7, <2>4, Zenon DEF LoopOf
<1>9. found = E(found)
  <2> HIDE DEF E
  <2> QED
    BY <1>8, Zenon
<1> HIDE DEF found
<1>10. /\ found[0] = <<>>
       /\ \A i \in 1..n : found[i] = IF i \in known THEN Append(found[i - 1], h[i])
                                     ELSE found[i - 1]
  <2>1. \A i \in 0..n : found[i] = IF i = 0 THEN <<>>
                                   ELSE IF resolves(hashes[i])
                                   THEN Append(found[i - 1], hash_to_number(hashes[i]))
                                   ELSE found[i - 1]
    BY <1>9, Zenon DEF n
  <2>2. 0 \in 0..n /\ \A i \in 1..n : i \in 0..n /\ i # 0
    BY <1>2
  <2> QED
    BY <1>3, <1>5, <2>1, <2>2, Zenon
<1>11. 0..n \subseteq {m \in 0..n : Filtered(h, known, m, found[m])}
  <2> DEFINE T == {m \in 0..n : Filtered(h, known, m, found[m])}
  <2>1. 0 \in T
    <3>1. Filtered(h, known, 0, <<>>)
      BY DEF Filtered
    <3> QED
      BY <1>2, <1>10, <3>1
  <2>2. \A m \in 1..n : m - 1 \in T => m \in T
    <3> TAKE m \in 1..n
    <3> HAVE m - 1 \in T
    <3>1. Filtered(h, known, m - 1, found[m - 1])
      BY Zenon
    <3>2. h \in [1..n -> Nat] /\ known \in SUBSET (1..n)
      BY <1>3, <1>5, Zenon
    <3>3. found[m] = IF m \in known THEN Append(found[m - 1], h[m]) ELSE found[m - 1]
      BY <1>10, Zenon
    <3>4. m \in 0..n
      BY <1>2
    <3>5. Filtered(h, known, m, found[m])
      <4> HIDE DEF T, E, step
      <4> QED
        BY <1>2, <1>4, <3>1, <3>2, <3>3, FilterStep, ZenonT(30)
    <3> QED
      BY <3>4, <3>5, Zenon
  <2> HIDE DEF T
  <2>3. 0..n \subseteq T
    BY <1>2, <2>1, <2>2, UpTo, Zenon
  <2> QED
    BY <2>3, Zenon DEF T
<1>12. Filtered(h, known, n, body_heights(hashes))
  BY <1>1, <1>2, <1>11 DEF n
<1> DEFINE hs == body_heights(hashes)
<1>13. /\ hs \in Seq(Nat)
       /\ \A x \in 1..Len(hs) : \E k \in 1..n : k \in known /\ h[k] = hs[x]
       /\ (\A x, y \in 1..Len(hs) : hs[x] = hs[y] => x = y) =>
            \A i, j \in 1..Len(hs), k, l \in 1..n :
              hs[i] = h[k] /\ hs[j] = h[l] /\ k < l => i < j
  BY <1>12, Zenon DEF Filtered
<1> HIDE DEF hs, E, step
<1>14. DOMAIN hs = 1..Len(hs) /\ DOMAIN hashes = 1..n
  BY <1>13 DEF n
<1>15. \A k \in 1..n : hashes[k].hash = h[k]
  BY Zenon DEF h
<1>16. AskedBodies(hashes, hs)
  <2>1. \A i \in DOMAIN hs : \E k \in DOMAIN hashes : hashes[k].hash = hs[i]
    BY <1>13, <1>14, <1>15, ZenonT(30)
  <2>2. ASSUME IsInjective(hs), NEW i \in DOMAIN hs, NEW j \in DOMAIN hs,
               NEW k \in DOMAIN hashes, NEW l \in DOMAIN hashes,
               hs[i] = hashes[k].hash, hs[j] = hashes[l].hash, k < l
        PROVE  i < j
    <3>1. \A x, y \in 1..Len(hs) : hs[x] = hs[y] => x = y
      BY <1>14, <2>2, Zenon DEF IsInjective
    <3>2. \A x, y \in 1..Len(hs), u, v \in 1..n :
            hs[x] = h[u] /\ hs[y] = h[v] /\ u < v => x < y
      BY <1>13, <3>1, Zenon
    <3>3. i \in 1..Len(hs) /\ j \in 1..Len(hs) /\ k \in 1..n /\ l \in 1..n
      BY <1>14, <2>2, Zenon
    <3>4. hs[i] = h[k] /\ hs[j] = h[l]
      BY <1>15, <2>2, <3>3, Zenon
    <3> QED
      BY <2>2, <3>2, <3>3, <3>4, Zenon
  <2> QED
    BY <2>1, <2>2, Zenon DEF AskedBodies
<1> QED
  BY <1>13, <1>16, Zenon DEF hs

\* The heights of a run of limit headers from start.
AskedHeaders(start, limit, direction, hs) ==
  hs # <<>> =>
    /\ Len(hs) = limit /\ hs[1] = start
    /\ \A i \in 2..limit : hs[i] = hs[i - 1] + (IF direction = "Rising" THEN 1 ELSE -1)

\* A request for headers comes to such a run, or to nothing.
LEMMA HeaderHeights ==
  ASSUME NEW start \in Nat, NEW limit \in Nat, NEW direction \in {"Rising", "Falling"}
  PROVE  /\ header_heights(start, limit, direction) \in Seq(Nat)
         /\ AskedHeaders(start, limit, direction, header_heights(start, limit, direction))
<1> DEFINE hs == header_heights(start, limit, direction)
<1>1. CASE direction = "Rising"
  <2>1. hs = [i \in 1..limit |-> start + i - 1]
    BY <1>1, Zenon DEF header_heights
  <2>2. hs \in Seq(Nat) /\ Len(hs) = limit
    BY <2>1
  <2>3. hs # <<>> => hs[1] = start
    BY <2>1, <2>2
  <2>4. \A i \in 2..limit : hs[i] = hs[i - 1] + 1
    BY <2>1
  <2> HIDE DEF hs
  <2> QED
    BY <1>1, <2>2, <2>3, <2>4, Zenon DEF AskedHeaders, hs
<1>2. CASE direction # "Rising" /\ limit > start + 1
  <2>1. hs = <<>>
    BY <1>2, Zenon DEF header_heights
  <2> QED
    BY <2>1 DEF AskedHeaders
<1>3. CASE direction # "Rising" /\ ~ (limit > start + 1)
  <2>1. hs = [i \in 1..limit |-> start + 1 - i]
    BY <1>3, Zenon DEF header_heights
  <2>2. hs \in Seq(Nat) /\ Len(hs) = limit
    BY <1>3, <2>1
  <2>3. hs # <<>> => hs[1] = start
    BY <2>1, <2>2
  <2>4. \A i \in 2..limit : hs[i] = hs[i - 1] + (-1)
    BY <2>1
  <2> HIDE DEF hs
  <2> QED
    BY <1>3, <2>2, <2>3, <2>4, Zenon DEF AskedHeaders, hs
<1> QED
  BY <1>1, <1>2, <1>3, Zenon

--------------------------------------------------------------------------------
\* The invariant.

\* The store: a cache of blocks within its limit, and a sound index.
StoreInv == blocks \in Lrus(Nat, BlockLimit) /\ hash_index \in Indexes

\* A block may be sent after a: the next one, or the one at the cutoff again.
Follows(a, b) == b = a + 1 \/ (a = cutoff /\ b = cutoff)

\* What the poller sends, what is in the channel, and what was announced last are
\* one run of blocks.
PollTypes ==
  /\ tip \in Nat /\ cutoff \in Int /\ next_block_number \in Nat
  /\ block_rx \in Seq(Nat)
  /\ announced # <<>> =>
       announced \in Seq(Int) /\ Len(announced) = 2 /\ announced[2] \in Nat

PollRun ==
  /\ first => poller = "suspended"
  /\ poller \in {"suspended", "starting"} => block_rx = <<>> /\ announced = <<>>
  /\ \A i \in 1..(Len(block_rx) - 1) : Follows(block_rx[i], block_rx[i + 1])
  /\ announced # <<>> /\ block_rx # <<>> => Follows(announced[2], block_rx[1])
  /\ block_rx # <<>> => Follows(block_rx[Len(block_rx)], next_block_number)
  /\ announced # <<>> /\ block_rx = <<>> => Follows(announced[2], next_block_number)

\* Nothing above the cutoff height is fetched, sent or announced.
PollCutoff ==
  cutoff >= 0 =>
    /\ \A i \in 1..Len(block_rx) : block_rx[i] <= cutoff
    /\ poller \in {"fetching", "indexing", "sending"} => next_block_number <= cutoff

\* hs is what the request r comes to.
Asked(r, hs) ==
  IF r.kind = "headers" THEN AskedHeaders(r.start, r.limit, r.direction, hs)
  ELSE AskedBodies(r.hashes, hs)

\* The event loop: the heights at hand are those of the request it serves, and so
\* were the ones of the last reply.
ServeInv ==
  /\ heights \in Seq(Nat) /\ cached \subseteq Range(heights)
  /\ uncached \in Seq(Range(heights))
  /\ handler # "idle" => Asked(request, heights)
  /\ reply # None /\ reply.sent \notin {None, <<>>} =>
       IsInjective(reply.sent) /\ Asked(reply.to, reply.sent)

Inv == StoreInv /\ PollTypes /\ PollRun /\ PollCutoff /\ AnnouncedInOrder /\ ServeInv

--------------------------------------------------------------------------------
\* Requests.

\* The parts of a request are what its kind says.
LEMMA RequestFacts ==
  ASSUME NEW r \in Requests
  PROVE  /\ r.kind = "headers" => /\ r.start \in Nat /\ r.limit \in Nat
                                  /\ r.direction \in {"Rising", "Falling"}
         /\ r.kind = "bodies" => r.hashes \in Seq(Hashes)
<1>1. r \in HeaderRequests \/ r \in BodyRequests
  BY LimitAssumption, Zenon
<1>2. CASE r \in HeaderRequests
  BY <1>2, Zenon DEF HeaderRequests
<1>3. CASE r \in BodyRequests
  BY <1>3, Zenon DEF BodyRequests, Hashes
<1> QED
  BY <1>1, <1>2, <1>3, Zenon

\* A request that is served comes to the heights it asks for.
LEMMA RequestedHeights ==
  ASSUME Inv, NEW r \in Requests, GetBlockHeaders(r) \/ GetBlockBodies(r)
  PROVE  \E hs \in Seq(Nat) : Collect(r, hs) /\ Asked(r, hs)
<1>1. hash_index \in Indexes
  BY Zenon DEF Inv, StoreInv
<1>2. CASE GetBlockBodies(r)
  <2>1. r.kind = "bodies" /\ Collect(r, body_heights(r.hashes))
    BY <1>2, Zenon DEF GetBlockBodies
  <2>2. r.hashes \in Seq(Hashes)
    BY <2>1, RequestFacts, Zenon
  <2>3. body_heights(r.hashes) \in Seq(Nat) /\ AskedBodies(r.hashes, body_heights(r.hashes))
    BY <1>1, <2>2, BodyHeights, Zenon
  <2>4. Asked(r, body_heights(r.hashes))
    <3>1. r.kind # "headers"
      BY <2>1, Zenon
    <3> QED
      BY <2>3, <3>1, Zenon DEF Asked
  <2> QED
    BY <2>1, <2>3, <2>4, Zenon
<1>3. CASE GetBlockHeaders(r)
  <2>1. /\ r.kind = "headers"
        /\ \/ Collect(r, header_heights(r.start, r.limit, r.direction))
           \/ Collect(r, header_heights(hash_to_number(Hash(r.start)), r.limit, r.direction))
    BY <1>3, Zenon DEF GetBlockHeaders
  <2>2. r.start \in Nat /\ r.limit \in Nat /\ r.direction \in {"Rising", "Falling"}
    BY <2>1, RequestFacts, Zenon
  <2>3. hash_to_number(Hash(r.start)) = r.start
    <3>1. Hash(r.start) \in Hashes /\ Hash(r.start).hash = r.start
      BY <2>2, Zenon DEF Hash, Hashes
    <3> QED
      BY <1>1, <3>1, ResolvedHeight, Zenon
  <2> DEFINE hs == header_heights(r.start, r.limit, r.direction)
  <2>4. Collect(r, hs)
    BY <2>1, <2>3, Zenon
  <2>5. hs \in Seq(Nat) /\ AskedHeaders(r.start, r.limit, r.direction, hs)
    BY <2>2, HeaderHeights, Zenon
  <2>6. Asked(r, hs)
    BY <2>1, <2>5, Zenon DEF Asked
  <2> QED
    BY <2>4, <2>5, <2>6, ZenonT(30)
<1> QED
  BY <1>2, <1>3, Zenon

\* The blocks of a request are finitely many: they can be indexed in some order.
LEMMA CachedInOrder ==
  ASSUME NEW hs \in Seq(Nat), NEW C \in SUBSET Range(hs), NEW order \in Injection(1..Cardinality(C), C)
  PROVE  order \in Seq(Nat)
<1>1. hs \in Surjection(1..Len(hs), Range(hs))
  BY DEF Surjection, Range
<1>2. IsFiniteSet(1..Len(hs))
  BY FS_Interval
<1>3. IsFiniteSet(Range(hs))
  BY <1>1, <1>2, FS_Surjection, Zenon
<1>4. Cardinality(C) \in Nat
  BY <1>3, FS_Subset, FS_CardinalityType, Zenon
<1>5. order \in [1..Cardinality(C) -> C]
  BY Zenon DEF Injection
<1>6. C \subseteq Nat
  BY DEF Range
<1> DEFINE k == Cardinality(C)
<1> HIDE DEF k
<1>7. order \in [1..k -> Nat]
  BY <1>5, <1>6, Zenon DEF k
<1> QED
  BY <1>4, <1>7, SMTT(30) DEF k

--------------------------------------------------------------------------------
\* Initial states.

\* An empty store is sound, and nothing was sent, announced or replied.
LEMMA InitInv == Init => Inv
<1> SUFFICES ASSUME Init PROVE Inv
  BY Zenon
<1> USE DEF Init
<1>1. blocks \in Lrus(Nat, BlockLimit)
  <2>1. blocks = <<>> /\ BlockLimit \in Nat
    BY LimitAssumption, Zenon
  <2> QED
    BY <2>1 DEF Lrus, IsInjective
<1>2. hash_index \in Indexes
  <2>1. hash_index = [left_to_right |-> EmptyFunction, right_to_left |-> EmptyFunction,
                      lru_keys |-> <<>>]
    BY Zenon DEF NewBiMap
  <2>2. EmptyFunction \in [{} -> Nat] /\ EmptyFunction \in [{} -> Hashes]
        /\ DOMAIN EmptyFunction = {}
    BY Zenon DEF EmptyFunction
  <2>3. EmptyFunction \in PartialMaps(Hashes, Nat) /\ EmptyFunction \in PartialMaps(Nat, Hashes)
    <3>1. {} \in SUBSET Hashes /\ {} \in SUBSET Nat
      BY Zenon
    <3> QED
      BY <2>2, <3>1, Zenon DEF PartialMaps
  <2>4. HashLimit \in Nat /\ Range(<<>>) = {} /\ IsInjective(<<>>) /\ <<>> \in Seq(Hashes)
    BY LimitAssumption DEF Range, IsInjective
  <2>5. Sound(hash_index)
    BY <2>1, <2>2, <2>4 DEF Sound, WellFormed
  <2> QED
    BY <2>1, <2>3, <2>4, <2>5 DEF Indexes
<1>3. PollTypes /\ PollRun /\ PollCutoff /\ AnnouncedInOrder
  BY LimitAssumption DEF PollTypes, PollRun, PollCutoff, AnnouncedInOrder, Heights
<1>4. ServeInv
  BY DEF ServeInv, Range
<1> QED
  BY <1>1, <1>2, <1>3, <1>4, Zenon DEF Inv, StoreInv

--------------------------------------------------------------------------------
\* The store, step by step.

\* The height the poller reads is a natural number.
LEMMA CutOffType ==
  ASSUME PollTypes
  PROVE  cut_off(next_block_number) \in Nat
BY DEF PollTypes, cut_off

\* Whichever task touches the store, it stays sound.
LEMMA StoreStep ==
  ASSUME Inv, Next
  PROVE  StoreInv'
<1>1. blocks \in Lrus(Nat, BlockLimit) /\ hash_index \in Indexes
  BY Zenon DEF Inv, StoreInv
<1>2. /\ PollTypes /\ heights \in Seq(Nat) /\ cached \subseteq Range(heights)
      /\ uncached \in Seq(Range(heights))
  BY Zenon DEF Inv, ServeInv
<1>3. next_block_number \in Nat /\ block_rx \in Seq(Nat) /\ BlockLimit \in Nat
  BY <1>2, LimitAssumption, Zenon DEF PollTypes
<1>4. ASSUME UNCHANGED store PROVE StoreInv'
  BY <1>1, <1>4, Zenon DEF StoreInv, store
<1>5. CASE GrowTip \/ Import \/ StartSignal
  BY <1>4, <1>5, Zenon DEF GrowTip, Import, StartSignal
<1>6. CASE FindLatest \/ ReadSource \/ FetchFails \/ Send
  BY <1>4, <1>6, Zenon DEF FindLatest, ReadSource, FetchFails, Send
<1>7. CASE ReadStored
  <2> DEFINE n == cut_off(next_block_number)
  <2>1. n \in Nat
    BY <1>2, CutOffType, Zenon
  <2>2. \/ Contains(blocks, n) /\ blocks' = Touch(blocks, n) /\ hash_index' = hash_index
        \/ /\ blocks' = LruInsert(blocks, BlockLimit, n)
           /\ hash_index' = index_block(hash_index, n)
    BY <1>7, Zenon DEF ReadStored
  <2> HIDE DEF n
  <2>3. CASE Contains(blocks, n) /\ blocks' = Touch(blocks, n) /\ hash_index' = hash_index
    <3>1. Touch(blocks, n) \in Lrus(Nat, BlockLimit)
      BY <1>1, <1>3, <2>1, <2>3, TouchKeeps, ZenonT(30)
    <3> QED
      BY <1>1, <2>3, <3>1, Zenon DEF StoreInv
  <2>4. CASE blocks' = LruInsert(blocks, BlockLimit, n)
             /\ hash_index' = index_block(hash_index, n)
    BY <1>1, <2>1, <2>4, CacheKeeps, IndexBlockKeeps, ZenonT(30) DEF StoreInv
  <2> QED
    BY <2>2, <2>3, <2>4, Zenon
<1>8. CASE Fetched
  BY <1>1, <1>3, <1>8, CacheKeeps, Zenon DEF Fetched, StoreInv
<1>9. CASE IndexFetched
  BY <1>1, <1>3, <1>9, IndexBlockKeeps, Zenon DEF IndexFetched, StoreInv
<1>10. CASE Announce
  <2>1. Head(block_rx) \in Nat
    BY <1>3, <1>10 DEF Announce
  <2> QED
    BY <1>1, <1>10, <2>1, IndexBlockKeeps, ZenonT(30) DEF Announce, StoreInv
<1>11. ASSUME NEW r \in Requests, GetBlockHeaders(r) \/ GetBlockBodies(r)
       PROVE  StoreInv'
  <2>1. PICK hs \in Seq(Nat) : Collect(r, hs)
    BY <1>11, RequestedHeights, Zenon
  <2>2. scan(hs).lru \in Lrus(Nat, BlockLimit)
    BY <1>1, ScanKeeps, Zenon
  <2>3. blocks' = scan(hs).lru /\ hash_index' = hash_index
    BY <2>1, Zenon DEF Collect
  <2> QED
    BY <1>1, <2>2, <2>3, Zenon DEF StoreInv
<1>12. ASSUME NEW r \in Requests, GetHeadersOfUnknown(r)
       PROVE  StoreInv'
  BY <1>4, <1>12, Zenon DEF GetHeadersOfUnknown
<1>13. CASE Collected
  <2>1. uncached \in Seq(Nat)
    <3>1. Range(heights) \subseteq Nat
      BY <1>2 DEF Range
    <3> QED
      BY <1>2, <3>1
  <2> QED
    BY <1>1, <1>13, <2>1, FetchedKeeps, Zenon DEF Collected, StoreInv
<1>14. CASE CollectFails
  BY <1>4, <1>14, Zenon DEF CollectFails
<1>15. CASE Reply
  <2>1. PICK order \in Injection(1..Cardinality(cached), cached) : hash_index' = index_blocks(hash_index, order)
    BY <1>15, Zenon DEF Reply
  <2>2. order \in Seq(Nat)
    BY <1>2, CachedInOrder, Zenon
  <2>3. blocks' = blocks
    BY <1>15, Zenon DEF Reply
  <2> QED
    BY <1>1, <2>1, <2>2, <2>3, IndexBlocksKeep, ZenonT(30) DEF StoreInv
<1> QED
  BY <1>5, <1>6, <1>7, <1>8, <1>9, <1>10, <1>11, <1>12, <1>13, <1>14, <1>15, ZenonT(30)
  DEF Next, Poll, Serve

--------------------------------------------------------------------------------
\* The poller, step by step.

\* A height that may follow a still may when the cutoff height caps it.
LEMMA CutOffFollows ==
  ASSUME PollTypes, NEW a \in Nat, Follows(a, next_block_number),
         cutoff >= 0 => a <= cutoff
  PROVE  Follows(a, cut_off(next_block_number))
BY DEF PollTypes, Follows, cut_off

\* What the invariant says of the poller.
PollInv == PollTypes /\ PollRun /\ PollCutoff /\ AnnouncedInOrder

\* Steps that change nothing the poller works with.
LEMMA PollStutter ==
  ASSUME PollInv, tip' \in Nat, UNCHANGED <<polling, first>>
  PROVE  PollInv'
BY Zenon DEF PollInv, PollTypes, PollRun, PollCutoff, AnnouncedInOrder, Follows, polling

\* Reading a block caps its height, and keeps it next in the run.
LEMMA PollRead ==
  ASSUME PollInv, poller = "reading", next_block_number' = cut_off(next_block_number),
         poller' \in {"fetching", "sending"},
         UNCHANGED <<tip, cutoff, block_rx, announced, first>>
  PROVE  PollInv'
<1> DEFINE n == cut_off(next_block_number)
<1>1. PollTypes /\ PollRun /\ PollCutoff /\ AnnouncedInOrder
  BY Zenon DEF PollInv
<1>2. n \in Nat /\ (cutoff >= 0 => n <= cutoff)
  BY <1>1 DEF PollTypes, cut_off
<1>3. block_rx # <<>> => Follows(block_rx[Len(block_rx)], n)
  <2> SUFFICES ASSUME block_rx # <<>> PROVE Follows(block_rx[Len(block_rx)], n)
    BY Zenon
  <2>1. Len(block_rx) \in 1..Len(block_rx) /\ block_rx[Len(block_rx)] \in Nat
    BY <1>1 DEF PollTypes
  <2>2. cutoff >= 0 => block_rx[Len(block_rx)] <= cutoff
    BY <1>1, <2>1, Zenon DEF PollCutoff
  <2>3. Follows(block_rx[Len(block_rx)], next_block_number)
    BY <1>1, Zenon DEF PollRun
  <2> QED
    BY <1>1, <2>1, <2>2, <2>3, CutOffFollows, ZenonT(30)
<1>4. announced # <<>> /\ block_rx = <<>> => Follows(announced[2], n)
  <2> SUFFICES ASSUME announced # <<>>, block_rx = <<>> PROVE Follows(announced[2], n)
    BY Zenon
  <2>1. announced[2] \in Nat /\ (cutoff >= 0 => announced[2] <= cutoff)
    BY <1>1, Zenon DEF PollTypes, AnnouncedInOrder
  <2>2. Follows(announced[2], next_block_number)
    BY <1>1, Zenon DEF PollRun
  <2> QED
    BY <1>1, <2>1, <2>2, CutOffFollows, Zenon
<1> HIDE DEF n
<1>5. next_block_number' = n
  BY Zenon DEF n
<1>6. PollTypes'
  BY <1>1, <1>2, <1>5, Zenon DEF PollTypes
<1>7. PollRun'
  BY <1>1, <1>3, <1>4, <1>5, Zenon DEF PollRun, Follows
<1>8. PollCutoff'
  BY <1>1, <1>2, <1>5, Zenon DEF PollCutoff
<1>9. AnnouncedInOrder'
  BY <1>1, Zenon DEF AnnouncedInOrder
<1> QED
  BY <1>6, <1>7, <1>8, <1>9, Zenon DEF PollInv

\* Fetching a block, or failing to, changes only where the poller is.
LEMMA PollFetch ==
  ASSUME PollInv, poller \in {"fetching", "indexing"},
         poller' \in {"reading", "indexing", "sending"},
         UNCHANGED <<tip, cutoff, next_block_number, block_rx, announced, first>>
  PROVE  PollInv'
<1>1. PollTypes /\ PollRun /\ PollCutoff /\ AnnouncedInOrder
  BY Zenon DEF PollInv
<1>2. PollTypes'
  BY <1>1, Zenon DEF PollTypes
<1>3. PollRun'
  BY <1>1, Zenon DEF PollRun, Follows
<1>4. PollCutoff'
  BY <1>1, Zenon DEF PollCutoff
<1>5. AnnouncedInOrder'
  BY <1>1, Zenon DEF AnnouncedInOrder
<1> QED
  BY <1>2, <1>3, <1>4, <1>5, Zenon DEF PollInv

\* Sending a block puts it at the end of the run.
LEMMA PollSend ==
  ASSUME PollInv, Send
  PROVE  PollInv'
<1> DEFINE n == next_block_number
           rx == Append(block_rx, n)
<1>1. PollTypes /\ PollRun /\ PollCutoff /\ AnnouncedInOrder
  BY Zenon DEF PollInv
<1>2. /\ poller = "sending" /\ poller' = "reading"
      /\ block_rx' = rx /\ next_block_number' = n + 1
      /\ UNCHANGED <<tip, cutoff, announced, first>>
  BY Zenon DEF Send
<1>3. n \in Nat /\ block_rx \in Seq(Nat) /\ cutoff \in Int
  BY <1>1, Zenon DEF PollTypes
<1>4. /\ rx \in Seq(Nat) /\ Len(rx) = Len(block_rx) + 1 /\ rx[Len(block_rx) + 1] = n
      /\ \A i \in 1..Len(block_rx) : rx[i] = block_rx[i]
  BY <1>3
<1> HIDE DEF rx
<1>5. rx # <<>> /\ rx[Len(rx)] = n
  BY <1>3, <1>4
<1>6. block_rx = <<>> => rx[1] = n
  BY <1>4
<1>7. block_rx # <<>> => rx[1] = block_rx[1]
  BY <1>3, <1>4
<1>8. PollTypes'
  BY <1>1, <1>2, <1>4 DEF PollTypes
<1>9. \A i \in 1..(Len(rx) - 1) : Follows(rx[i], rx[i + 1])
  <2> TAKE i \in 1..(Len(rx) - 1)
  <2>1. CASE i = Len(block_rx)
    <3>1. block_rx # <<>> /\ rx[i] = block_rx[Len(block_rx)] /\ rx[i + 1] = n
      BY <1>3, <1>4, <2>1
    <3> QED
      BY <1>1, <3>1, Zenon DEF PollRun
  <2>2. CASE i # Len(block_rx)
    <3>1. i \in 1..(Len(block_rx) - 1) /\ rx[i] = block_rx[i] /\ rx[i + 1] = block_rx[i + 1]
      BY <1>3, <1>4, <2>2, SMTT(30)
    <3> QED
      BY <1>1, <3>1, Zenon DEF PollRun
  <2> QED
    BY <2>1, <2>2, Zenon
<1>10. announced # <<>> => Follows(announced[2], rx[1])
  BY <1>1, <1>6, <1>7, Zenon DEF PollRun
<1>11. Follows(n, n + 1)
  BY Zenon DEF Follows
<1>12. first => poller' = "suspended"
  BY <1>1, <1>2, Zenon DEF PollRun
<1>13. PollRun'
  BY <1>2, <1>5, <1>9, <1>10, <1>11, <1>12, Zenon DEF PollRun, Follows
<1>14. PollCutoff'
  <2>1. cutoff >= 0 => n <= cutoff /\ \A i \in 1..Len(block_rx) : block_rx[i] <= cutoff
    BY <1>1, <1>2, Zenon DEF PollCutoff
  <2>2. cutoff >= 0 => \A i \in 1..Len(rx) : rx[i] <= cutoff
    BY <1>3, <1>4, <2>1, SMTT(30)
  <2> QED
    BY <1>2, <2>2, Zenon DEF PollCutoff
<1>15. AnnouncedInOrder'
  BY <1>1, <1>2, Zenon DEF AnnouncedInOrder
<1> QED
  BY <1>8, <1>13, <1>14, <1>15, Zenon DEF PollInv

\* Announcing a block takes it from the start of the run.
LEMMA PollAnnounce ==
  ASSUME PollInv, Announce
  PROVE  PollInv'
<1> DEFINE rx == Tail(block_rx)
           b == Head(block_rx)
           before == LastAnnounced
<1>1. PollTypes /\ PollRun /\ PollCutoff /\ AnnouncedInOrder
  BY Zenon DEF PollInv
<1>2. /\ block_rx # <<>> /\ block_rx' = rx /\ announced' = <<before, b>>
      /\ UNCHANGED <<tip, cutoff, poller, next_block_number, first>>
  BY Zenon DEF Announce
<1>3. block_rx \in Seq(Nat) /\ cutoff \in Int /\ next_block_number \in Nat
  BY <1>1, Zenon DEF PollTypes
<1>4. /\ rx \in Seq(Nat) /\ Len(rx) = Len(block_rx) - 1
      /\ b \in Nat /\ b = block_rx[1] /\ Len(block_rx) \in Nat \ {0}
      /\ \A i \in 1..Len(rx) : rx[i] = block_rx[i + 1]
  BY <1>2, <1>3
<1>5. /\ announced = <<>> => before = -1
      /\ announced # <<>> => before = announced[2] /\ announced[2] \in Nat
  BY <1>1, Zenon DEF PollTypes, LastAnnounced
<1> HIDE DEF rx, b, before
<1>6. before \in Int
  BY <1>5
<1>7. announced' \in Seq(Int) /\ Len(announced') = 2 /\ announced'[1] = before
      /\ announced'[2] = b /\ announced' # <<>>
  BY <1>2, <1>4, <1>6
<1>8. PollTypes'
  BY <1>1, <1>2, <1>4, <1>7, Zenon DEF PollTypes
<1>9. \A i \in 1..(Len(rx) - 1) : Follows(rx[i], rx[i + 1])
  <2> TAKE i \in 1..(Len(rx) - 1)
  <2>1. i + 1 \in 1..(Len(block_rx) - 1) /\ rx[i] = block_rx[i + 1]
        /\ rx[i + 1] = block_rx[(i + 1) + 1]
    BY <1>4, SMTT(30)
  <2> QED
    BY <1>1, <2>1, Zenon DEF PollRun
<1>10. rx # <<>> => Follows(b, rx[1])
  <2> SUFFICES ASSUME rx # <<>> PROVE Follows(b, rx[1])
    BY Zenon
  <2>1. 1 \in 1..(Len(block_rx) - 1) /\ rx[1] = block_rx[1 + 1]
    BY <1>4
  <2> QED
    BY <1>1, <1>4, <2>1, Zenon DEF PollRun
<1>11. rx # <<>> => Follows(rx[Len(rx)], next_block_number)
  <2> SUFFICES ASSUME rx # <<>> PROVE Follows(rx[Len(rx)], next_block_number)
    BY Zenon
  <2>1. rx[Len(rx)] = block_rx[Len(block_rx)]
    BY <1>4
  <2> QED
    BY <1>1, <1>2, <2>1, Zenon DEF PollRun
<1>12. rx = <<>> => Follows(b, next_block_number)
  <2> SUFFICES ASSUME rx = <<>> PROVE Follows(b, next_block_number)
    BY Zenon
  <2>1. b = block_rx[Len(block_rx)]
    BY <1>4
  <2> QED
    BY <1>1, <1>2, <2>1, Zenon DEF PollRun
<1>13. (first => poller = "suspended") /\ poller \notin {"suspended", "starting"}
  BY <1>1, <1>2, Zenon DEF PollRun
<1>14. PollRun'
  BY <1>2, <1>7, <1>9, <1>10, <1>11, <1>12, <1>13, ZenonT(30) DEF PollRun, Follows
<1>15. PollCutoff' /\ (cutoff >= 0 => b <= cutoff)
  <2>1. cutoff >= 0 => \A i \in 1..Len(block_rx) : block_rx[i] <= cutoff
    BY <1>1, Zenon DEF PollCutoff
  <2>2. 1 \in 1..Len(block_rx) /\ \A i \in 1..Len(rx) : i + 1 \in 1..Len(block_rx)
    BY <1>4
  <2>3. cutoff >= 0 => b <= cutoff /\ \A i \in 1..Len(rx) : rx[i] <= cutoff
    BY <1>4, <2>1, <2>2, Zenon
  <2> QED
    BY <1>1, <1>2, <2>3, Zenon DEF PollCutoff
<1>16. announced # <<>> => Follows(announced[2], b)
  BY <1>1, <1>2, <1>4, Zenon DEF PollRun
<1>17. AnnouncedInOrder'
  BY <1>2, <1>5, <1>7, <1>15, <1>16, Zenon DEF AnnouncedInOrder, Follows
<1> QED
  BY <1>8, <1>14, <1>15, <1>17, Zenon DEF PollInv

\* The run of blocks has no gap, whatever the poller, the network and the source do.
LEMMA PollStep ==
  ASSUME Inv, Next
  PROVE  PollInv'
<1>1. PollInv
  BY Zenon DEF Inv, PollInv
<1>2. tip \in Nat
  BY <1>1, Zenon DEF PollInv, PollTypes
<1>3. ASSUME tip' = tip, UNCHANGED <<polling, first>> PROVE PollInv'
  BY <1>1, <1>2, <1>3, PollStutter, Zenon
<1>4. CASE GrowTip
  <2>1. tip' \in Nat /\ UNCHANGED <<polling, first>>
    BY <1>2, <1>4 DEF GrowTip
  <2> QED
    BY <1>1, <2>1, PollStutter, Zenon
<1>5. CASE Import
  BY <1>3, <1>5, Zenon DEF Import
<1>6. CASE StartSignal
  BY <1>1, <1>6, Zenon DEF StartSignal, PollInv, PollTypes, PollRun, PollCutoff, AnnouncedInOrder,
                    Follows
<1>7. CASE FindLatest
  BY <1>1, <1>7, Zenon DEF FindLatest, PollInv, PollTypes, PollRun, PollCutoff, AnnouncedInOrder,
                    Follows
<1>8. CASE ReadStored \/ ReadSource
  BY <1>1, <1>8, PollRead, Zenon DEF ReadStored, ReadSource
<1>9. CASE Fetched \/ IndexFetched \/ FetchFails
  <2>1. /\ poller \in {"fetching", "indexing"}
        /\ poller' \in {"reading", "indexing", "sending"}
        /\ UNCHANGED <<tip, cutoff, next_block_number, block_rx, announced, first>>
    BY <1>9, Zenon DEF Fetched, IndexFetched, FetchFails
  <2> QED
    BY <1>1, <2>1, PollFetch, Zenon
<1>10. CASE Send
  BY <1>1, <1>10, PollSend, Zenon
<1>11. CASE Announce
  BY <1>1, <1>11, PollAnnounce, ZenonT(30)
<1>12. ASSUME NEW r \in Requests,
              GetBlockHeaders(r) \/ GetHeadersOfUnknown(r) \/ GetBlockBodies(r)
       PROVE  PollInv'
  BY <1>3, <1>12, ZenonT(30) DEF GetBlockHeaders, GetHeadersOfUnknown, GetBlockBodies, Collect
<1>13. CASE Collected \/ CollectFails \/ Reply
  BY <1>3, <1>13, Zenon DEF Collected, CollectFails, Reply
<1> QED
  BY <1>4, <1>5, <1>6, <1>7, <1>8, <1>9, <1>10, <1>11, <1>12, <1>13, ZenonT(30)
  DEF Next, Poll, Serve

--------------------------------------------------------------------------------
\* The event loop, step by step.

\* Requests come to what they ask for, and replies hold what requests come to.
LEMMA ServeStep ==
  ASSUME Inv, Next
  PROVE  ServeInv'
<1>1. ServeInv
  BY ZenonT(30) DEF Inv
<1>2. ASSUME UNCHANGED serving PROVE ServeInv'
  BY <1>1, <1>2, Zenon DEF ServeInv, serving
<1>3. CASE GrowTip \/ Import \/ StartSignal \/ Poll \/ Announce
  BY <1>2, <1>3, Zenon DEF GrowTip, Import, StartSignal, Poll, FindLatest, ReadStored,
     ReadSource, Fetched, IndexFetched, FetchFails, Send, Announce
<1>4. ASSUME NEW r \in Requests, GetBlockHeaders(r) \/ GetBlockBodies(r)
      PROVE  ServeInv'
  <2>1. PICK hs \in Seq(Nat) : Collect(r, hs) /\ Asked(r, hs)
    BY <1>4, RequestedHeights, Zenon
  <2>2. blocks \in Lrus(Nat, BlockLimit)
    BY Zenon DEF Inv, StoreInv
  <2>3. scan(hs).taken \subseteq Range(hs) /\ scan(hs).missing \in Seq(Range(hs))
    BY <2>2, ScanKeeps, Zenon
  <2>4. /\ request' = r /\ heights' = hs /\ reply' = None
        /\ cached' = scan(hs).taken /\ uncached' = scan(hs).missing
    BY <2>1, ZenonT(30) DEF Collect
  <2> QED
    BY <2>1, <2>3, <2>4, Zenon DEF ServeInv
<1>5. ASSUME NEW r \in Requests, GetHeadersOfUnknown(r)
      PROVE  ServeInv'
  <2>1. reply' = [to |-> r, sent |-> <<>>] /\ UNCHANGED <<handler, request, heights, cached, uncached>>
    BY <1>5, Zenon DEF GetHeadersOfUnknown
  <2>2. reply'.sent = <<>>
    BY <2>1, Zenon
  <2> QED
    BY <1>1, <2>1, <2>2, Zenon DEF ServeInv
<1>6. CASE Collected
  <2>1. /\ handler = "fetching" /\ cached' = cached \union Range(uncached)
        /\ uncached' = <<>> /\ UNCHANGED <<request, heights, reply>>
    BY <1>6, Zenon DEF Collected
  <2>2. Range(uncached) \subseteq Range(heights)
    <3>1. uncached \in Seq(Range(heights))
      BY <1>1, Zenon DEF ServeInv
    <3> QED
      BY <3>1 DEF Range
  <2> QED
    BY <1>1, <2>1, <2>2 DEF ServeInv
<1>7. CASE CollectFails
  <2>1. /\ reply' = [to |-> request, sent |-> None] /\ handler' = "idle"
        /\ heights' = <<>> /\ cached' = {} /\ uncached' = <<>>
    BY <1>7, Zenon DEF CollectFails
  <2>2. /\ reply'.sent = None /\ heights' \in Seq(Nat) /\ cached' \subseteq Range(heights)'
        /\ uncached' \in Seq(Range(heights)')
    BY <2>1
  <2> QED
    BY <2>1, <2>2, Zenon DEF ServeInv
<1>8. CASE Reply
  <2>1. /\ handler = "indexing" /\ handler' = "idle" /\ heights' = <<>> /\ cached' = {}
        /\ uncached' = <<>>
        /\ reply' = [to |-> request, sent |-> IF IsInjective(heights) THEN heights ELSE None]
    BY <1>8, ZenonT(30) DEF Reply
  <2>2. /\ heights' \in Seq(Nat) /\ cached' \subseteq Range(heights)'
        /\ uncached' \in Seq(Range(heights)')
    BY <2>1
  <2>3. Asked(request, heights)
    BY <1>1, <2>1, Zenon DEF ServeInv
  <2>4. reply'.to = request /\ reply'.sent = IF IsInjective(heights) THEN heights ELSE None
    BY <2>1, Zenon
  <2>5. reply'.sent \notin {None, <<>>} => IsInjective(reply'.sent) /\ Asked(reply'.to, reply'.sent)
    BY <2>3, <2>4, Zenon
  <2> QED
    BY <2>1, <2>2, <2>5, ZenonT(30) DEF ServeInv
<1> QED
  BY <1>3, <1>4, <1>5, <1>6, <1>7, <1>8, ZenonT(30) DEF Next, Serve

--------------------------------------------------------------------------------
\* The theorems.

\* The invariant holds in every reachable state.
LEMMA AlwaysInv == Spec => []Inv
<1>1. Inv /\ UNCHANGED vars => Inv'
  <2> SUFFICES ASSUME Inv, UNCHANGED vars PROVE Inv'
    BY Zenon
  <2>1. StoreInv'
    BY Zenon DEF Inv, StoreInv, vars
  <2>2. PollInv'
    <3>1. PollInv /\ tip' \in Nat /\ UNCHANGED <<polling, first>>
      BY Zenon DEF Inv, PollInv, PollTypes, vars, polling
    <3> QED
      BY <3>1, PollStutter, Zenon
  <2>3. ServeInv'
    BY Zenon DEF Inv, ServeInv, vars
  <2> QED
    BY <2>1, <2>2, <2>3, Zenon DEF Inv, PollInv
<1>2. Inv /\ [Next]_vars => Inv'
  BY <1>1, StoreStep, PollStep, ServeStep, Zenon DEF Inv, PollInv
<1> QED
  BY <1>2, InitInv, PTL DEF Spec

\* The index resolves hashes to the heights of their blocks, its two directions
\* agree, and neither cache outgrows its limit, for any limits, chain, failures and
\* requests, and whichever of the two tasks uses the store.
THEOREM IndexStaysSound == Spec => []IndexIsSound
<1>1. Inv => IndexIsSound
  BY Zenon DEF Inv, StoreInv, Indexes, Sound, Lrus, IndexIsSound
<1> QED
  BY <1>1, AlwaysInv, PTL

\* Blocks are announced without a gap and up to the cutoff height, whatever fails
\* and however long the channel is.
THEOREM AnnouncementsAreInOrder == Spec => []AnnouncedInOrder
<1>1. Inv => AnnouncedInOrder
  BY Zenon DEF Inv
<1> QED
  BY <1>1, AlwaysInv, PTL

\* A reply has the headers or the bodies its request asked for, in their order.
THEOREM RepliesAreRight == Spec => []RepliesAnswerRequests
<1>1. Inv => RepliesAnswerRequests
  <2> SUFFICES ASSUME Inv, reply # None, reply.sent \notin {None, <<>>}
               PROVE  RepliesAnswerRequests
    BY Zenon DEF RepliesAnswerRequests
  <2>1. IsInjective(reply.sent) /\ Asked(reply.to, reply.sent)
    BY Zenon DEF Inv, ServeInv
  <2> QED
    BY <2>1, ZenonT(30) DEF Asked, AskedHeaders, AskedBodies, RepliesAnswerRequests
<1> QED
  BY <1>1, AlwaysInv, PTL

\* A block that is announced is in the index from then on until it is evicted: the
\* network indexes it in the step that announces it.
THEOREM AnnouncedBlocksResolve == Spec => AnnouncedResolves
<1>1. Inv /\ [Next]_vars => [announced' # announced => resolves(Hash(LastAnnounced))']_vars
  <2> SUFFICES ASSUME Inv, Next, announced' # announced
               PROVE  resolves(Hash(LastAnnounced))'
    BY Zenon DEF vars
  <2>1. Announce
    BY ZenonT(30) DEF Next, GrowTip, Import, StartSignal, Poll, FindLatest, ReadStored, ReadSource,
       Fetched, IndexFetched, FetchFails, Send, GetBlockHeaders, GetHeadersOfUnknown,
       GetBlockBodies, Collect, Serve, Collected, CollectFails, Reply, polling
  <2>2. /\ hash_index' = index_block(hash_index, Head(block_rx))
        /\ announced' = <<LastAnnounced, Head(block_rx)>>
    BY <2>1, Zenon DEF Announce
  <2>3. Head(block_rx) \in Nat
    BY <2>1 DEF Announce, Inv, PollTypes
  <2>4. hash_index \in Indexes
    BY Zenon DEF Inv, StoreInv
  <2>5. Hash(Head(block_rx)) \in DOMAIN index_block(hash_index, Head(block_rx)).left_to_right
    BY <2>3, <2>4, IndexBlockKeeps, Zenon
  <2>6. LastAnnounced' = Head(block_rx)
    BY <2>2, Zenon DEF LastAnnounced
  <2> QED
    BY <2>2, <2>5, <2>6, Zenon DEF resolves, Hash
<1> QED
  BY <1>1, AlwaysInv, PTL DEF Spec, AnnouncedResolves
================================================================================
