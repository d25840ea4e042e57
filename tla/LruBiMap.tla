-------------------------------- MODULE LruBiMap -------------------------------
(***************************************************************************)
(* The caches of the block store.  LruBiMap (src/src/pseudo_peer/utils.rs) *)
(* is a record of its three fields; its lru_keys, and the LruMap of        *)
(* blocks, are sequences of keys, the least recently used first.           *)
(***************************************************************************)
EXTENDS Integers, Sequences, Functions

\* As in SequencesExt, which would bring along Bags and with it a context that slows
\* every proof about the modules that extend this one.
Contains(s, e) == \E i \in 1..Len(s) : s[i] = e
RemoveAt(s, i) == SubSeq(s, 1, i - 1) \o SubSeq(s, i + 1, Len(s))

\* LruMap and LruCache (external): a key that is used becomes the most recent.
Touch(lru, key) ==
  LET at == CHOOSE i \in DOMAIN lru : lru[i] = key
  IN  Append(IF Contains(lru, key) THEN RemoveAt(lru, at) ELSE lru, key)

\* Inserting a key evicts the least recently used one when it exceeds the limit.
LruInsert(lru, limit, key) ==
  LET used == Touch(lru, key) IN IF Len(used) > limit THEN Tail(used) ELSE used

\* What insert_and_get_evicted evicts, as a set.
Evicted(lru, limit, key) == Range(lru) \ Range(LruInsert(lru, limit, key))

EmptyFunction == [x \in {} |-> x]

Without(f, keys) == [x \in DOMAIN f \ keys |-> f[x]]

\* f with key mapped to value, which need not have been in its domain.
Put(f, key, value) == [x \in DOMAIN f \union {key} |-> IF x = key THEN value ELSE f[x]]

--------------------------------------------------------------------------------
NewBiMap == [left_to_right |-> EmptyFunction, right_to_left |-> EmptyFunction,
             lru_keys |-> <<>>]

\* evict: the pair goes from both directions.
evict(m, keys) ==
  LET values == {m.left_to_right[k] : k \in keys \cap DOMAIN m.left_to_right}
  IN  [m EXCEPT !.left_to_right = Without(@, keys),
                !.right_to_left = Without(@, values)]

insert_without_evicting(m, limit, key, value) ==
  [left_to_right |-> Put(m.left_to_right, key, value),
   right_to_left |-> Put(m.right_to_left, value, key),
   lru_keys |-> LruInsert(m.lru_keys, limit, key)]

insert(m, limit, key, value) ==
  LET room == evict(m, Evicted(m.lru_keys, limit, key))
  IN  [left_to_right |-> Put(room.left_to_right, key, value),
       right_to_left |-> Put(room.right_to_left, value, key),
       lru_keys |-> LruInsert(m.lru_keys, limit, key)]

\* The two directions agree, only live keys are mapped, and the limit holds.
WellFormed(m, limit) ==
  /\ DOMAIN m.left_to_right = Range(m.lru_keys)
  /\ Len(m.lru_keys) <= limit
  /\ \A v \in DOMAIN m.right_to_left :
       /\ m.right_to_left[v] \in DOMAIN m.left_to_right
       /\ m.left_to_right[m.right_to_left[v]] = v
================================================================================
