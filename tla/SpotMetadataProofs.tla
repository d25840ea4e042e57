--------------------------- MODULE SpotMetadataProofs --------------------------
(***************************************************************************)
(* Proofs about SpotMetadata, for any threads, tokens and blocks: who may  *)
(* ask the API, and what a block is converted to.                          *)
(***************************************************************************)
EXTENDS SpotMetadata, FiniteSetTheorems, TLAPS

--------------------------------------------------------------------------------
\* Induction, and sequences that are filtered.

\* A set of natural numbers that is not empty has a least element.
LEMMA LeastNatural ==
  ASSUME NEW T \in SUBSET Nat, T # {}
  PROVE  \E m \in T : \A k \in T : m <= k
<1> DEFINE R == OpToRel(<, Nat)
<1>1. IsWellFoundedOn(R, Nat)
  BY NatLessThanWellFounded, Zenon
<1> HIDE DEF R
<1>2. PICK m \in T : \A k \in T : ~ (<<k, m>> \in R)
  BY <1>1, WFMin, Zenon
<1>3. \A k \in T : ~ (k < m)
  BY <1>2, Zenon DEF R, OpToRel
<1> QED
  BY <1>3

WithReceipt == {call \in SystemTxOfSource : call.receipt # None}

\* What retain has kept of the first i system transactions.
Keeps(s, n, held) ==
  /\ held \in [0..n -> Seq(WithReceipt)]
  /\ \A i \in 0..n : held[i] = IF i = 0 THEN <<>>
                              ELSE IF s[i].receipt = None THEN held[i - 1]
                              ELSE Append(held[i - 1], s[i])

\* There is such a function.
LEMMA KeepsExists ==
  ASSUME NEW s \in Seq(SystemTxOfSource)
  PROVE  \E held : Keeps(s, Len(s), held)
<1> DEFINE T == {n \in Nat : n <= Len(s) /\ ~ \E held : Keeps(s, n, held)}
<1>1. Len(s) \in Nat
  OBVIOUS
<1>2. SUFFICES T = {}
  BY <1>1
<1>3. SUFFICES ASSUME T # {}
               PROVE  FALSE
  BY Zenon
<1>4. PICK m \in T : \A k \in T : m <= k
  <2>1. T \in SUBSET Nat
    BY Zenon
  <2> HIDE DEF T
  <2> QED
    BY <1>3, <2>1, LeastNatural, Zenon
<1>5. CASE m = 0
  <2>1. Keeps(s, 0, [i \in 0..0 |-> <<>>])
    BY DEF Keeps
  <2> QED
    BY <1>4, <1>5, <2>1, Zenon
<1>6. CASE m > 0
  <2>1. m \in Nat /\ m - 1 \in Nat /\ m - 1 \notin T /\ m \in 1..Len(s)
    BY <1>1, <1>4, <1>6
  <2>2. PICK held : Keeps(s, m - 1, held)
    BY <1>1, <1>4, <2>1
  <2> DEFINE last == IF s[m].receipt = None THEN held[m - 1] ELSE Append(held[m - 1], s[m])
             more == [i \in 0..m |-> IF i = m THEN last ELSE held[i]]
  <2>3. s[m] \in SystemTxOfSource /\ held[m - 1] \in Seq(WithReceipt)
    BY <2>1, <2>2 DEF Keeps
  <2>4. last \in Seq(WithReceipt)
    <3>1. CASE s[m].receipt = None
      BY <2>3, <3>1, Zenon
    <3>2. CASE s[m].receipt # None
      <4>1. s[m] \in WithReceipt
        BY <2>3, <3>2, Zenon DEF WithReceipt
      <4> QED
        BY <2>3, <3>2, <4>1
    <3> QED
      BY <3>1, <3>2, Zenon
  <2>5. \A i \in 0..m : i # m => i \in 0..(m - 1) /\ (i # 0 => i - 1 \in 0..(m - 1) /\ i - 1 # m)
    BY <2>1
  <2>6. more \in [0..m -> Seq(WithReceipt)]
    <3> HIDE DEF last
    <3> QED
      BY <2>2, <2>4, <2>5, Zenon DEF Keeps
  <2>7. ASSUME NEW i \in 0..m
        PROVE  more[i] = IF i = 0 THEN <<>>
                         ELSE IF s[i].receipt = None THEN more[i - 1]
                         ELSE Append(more[i - 1], s[i])
    <3>1. CASE i = m
      <4>1. more[i] = last /\ more[i - 1] = held[m - 1] /\ i # 0
        BY <2>1, <3>1
      <4> QED
        BY <3>1, <4>1, Zenon
    <3>2. CASE i # m
      <4>1. more[i] = held[i] /\ (i # 0 => more[i - 1] = held[i - 1])
        BY <2>5, <3>2
      <4> QED
        BY <2>2, <2>5, <3>2, <4>1, Zenon DEF Keeps
    <3> QED
      BY <3>1, <3>2, Zenon
  <2>8. Keeps(s, m, more)
    BY <2>6, <2>7, Zenon DEF Keeps
  <2> QED
    BY <1>4, <2>8, Zenon
<1> QED
  BY <1>4, <1>5, <1>6

\* retain's result is what such a function gives for the whole sequence.
LEMMA RetainKeeps ==
  ASSUME NEW s \in Seq(SystemTxOfSource)
  PROVE  \E held : Keeps(s, Len(s), held) /\ retain(s) = held[Len(s)]
<1> DEFINE E(f) == [i \in 0..Len(s) |-> IF i = 0 THEN <<>>
                                       ELSE IF s[i].receipt = None THEN f[i - 1]
                                       ELSE Append(f[i - 1], s[i])]
           held == CHOOSE f : f = E(f)
<1>1. retain(s) = held[Len(s)]
  BY Zenon DEF retain
<1>2. PICK f : Keeps(s, Len(s), f)
  BY KeepsExists, Zenon
<1>3. f = E(f)
  BY <1>2, Zenon DEF Keeps
<1>4. held = E(held)
  <2> HIDE DEF E
  <2> QED
    BY <1>3, Zenon
<1> HIDE DEF held
<1>5. DOMAIN held = 0..Len(s)
      /\ \A i \in 0..Len(s) : held[i] = IF i = 0 THEN <<>>
                                       ELSE IF s[i].receipt = None THEN held[i - 1]
                                       ELSE Append(held[i - 1], s[i])
  BY <1>4, Zenon
<1>6. \A i \in 0..Len(s) : held[i] \in Seq(WithReceipt)
  <2> DEFINE T == {i \in 0..Len(s) : held[i] \notin Seq(WithReceipt)}
  <2>1. SUFFICES ASSUME T # {}
                 PROVE  FALSE
    BY Zenon
  <2>2. PICK m \in T : \A k \in T : m <= k
    <3>1. T \in SUBSET Nat
      OBVIOUS
    <3> HIDE DEF T
    <3> QED
      BY <2>1, <3>1, LeastNatural, Zenon
  <2>3. m \in 1..Len(s) /\ m - 1 \in 0..Len(s)
    <3>1. 0 \in 0..Len(s) /\ <<>> \in Seq(WithReceipt)
      OBVIOUS
    <3>2. held[0] = <<>>
      BY <1>5, <3>1, Zenon
    <3>3. 0 \notin T
      BY <3>1, <3>2, Zenon
    <3> QED
      BY <2>2, <3>3
  <2>4. held[m - 1] \in Seq(WithReceipt)
    BY <2>2, <2>3
  <2>5. held[m] = IF s[m].receipt = None THEN held[m - 1] ELSE Append(held[m - 1], s[m])
    BY <1>5, <2>3
  <2>6. s[m] \in SystemTxOfSource
    BY <2>3
  <2>7. held[m] \in Seq(WithReceipt)
    <3>1. CASE s[m].receipt = None
      BY <2>4, <2>5, <3>1, Zenon
    <3>2. CASE s[m].receipt # None
      <4>1. s[m] \in WithReceipt
        BY <2>6, <3>2, Zenon DEF WithReceipt
      <4> QED
        BY <2>4, <2>5, <3>2, <4>1
    <3> QED
      BY <3>1, <3>2, Zenon
  <2> QED
    BY <2>2, <2>7, Zenon
<1>7. Keeps(s, Len(s), held)
  BY <1>4, <1>5, <1>6, Zenon DEF Keeps
<1> QED
  BY <1>1, <1>7, Zenon DEF held

\* What is kept are system transactions with a receipt, and they are all kept when
\* all have one.
LEMMA RetainFacts ==
  ASSUME NEW s \in Seq(SystemTxOfSource)
  PROVE  /\ retain(s) \in Seq(WithReceipt)
         /\ (\A i \in 1..Len(s) : s[i].receipt # None) => retain(s) = s
<1>1. PICK held : Keeps(s, Len(s), held) /\ retain(s) = held[Len(s)]
  BY RetainKeeps, Zenon
<1>2. Len(s) \in Nat
  OBVIOUS
<1>3. retain(s) \in Seq(WithReceipt)
  BY <1>1, <1>2 DEF Keeps
<1>4. ASSUME \A i \in 1..Len(s) : s[i].receipt # None
      PROVE  \A i \in 0..Len(s) : held[i] = SubSeq(s, 1, i)
  <2> DEFINE T == {i \in 0..Len(s) : held[i] # SubSeq(s, 1, i)}
  <2>1. SUFFICES ASSUME T # {}
                 PROVE  FALSE
    BY Zenon
  <2>2. PICK m \in T : \A k \in T : m <= k
    <3>1. T \in SUBSET Nat
      OBVIOUS
    <3> HIDE DEF T
    <3> QED
      BY <2>1, <3>1, LeastNatural, Zenon
  <2>3. m \in 1..Len(s) /\ m - 1 \in 0..Len(s)
    <3>1. m # 0
      BY <1>1, <2>2 DEF Keeps
    <3> QED
      BY <2>2, <3>1
  <2>4. held[m - 1] = SubSeq(s, 1, m - 1)
    BY <2>2, <2>3
  <2>5. held[m] = Append(held[m - 1], s[m])
    <3>1. s[m].receipt # None /\ m # 0 /\ m \in 0..Len(s)
      BY <1>4, <2>3
    <3> QED
      BY <1>1, <3>1, Zenon DEF Keeps
  <2>6. Append(SubSeq(s, 1, m - 1), s[m]) = SubSeq(s, 1, m)
    BY <2>3
  <2> QED
    BY <2>2, <2>4, <2>5, <2>6, Zenon
<1>5. SubSeq(s, 1, Len(s)) = s
  OBVIOUS
<1>6. ASSUME \A i \in 1..Len(s) : s[i].receipt # None
      PROVE  retain(s) = s
  <2>1. Len(s) \in 0..Len(s)
    BY <1>2
  <2> QED
    BY <1>1, <1>4, <1>5, <1>6, <2>1, Zenon
<1> QED
  BY <1>3, <1>6, Zenon

--------------------------------------------------------------------------------
\* Senders and signatures.

\* The remainder of a smaller number.
LEMMA SmallMod ==
  ASSUME NEW n \in Nat, NEW a \in 0..(n - 1)
  PROVE  a % n = a
OBVIOUS

\* Every address, HYPE's and 0x00..01 included, survives being written into a
\* signature and read back.
LEMMA AddressSurvives ==
  ASSUME NEW a \in Addresses
  PROVE  /\ address_to_s(a) \in Nat /\ s_to_address(address_to_s(a)) = a
         /\ address_to_s(s_to_address(address_to_s(a))) = address_to_s(a)
<1>1. AddressSpace \in Nat /\ a \in 0..(AddressSpace - 1) /\ a \in Nat
      /\ HYPE_SYSTEM_ADDRESS \in Nat /\ HYPE_SYSTEM_ADDRESS > 1
  BY AddressAssumption DEF Addresses
<1>2. a % AddressSpace = a
  BY <1>1, SmallMod, Zenon
<1>3. address_to_s(a) \in Nat /\ s_to_address(address_to_s(a)) = a
  BY <1>1, <1>2 DEF address_to_s, s_to_address, ADDRESS_ONE, ADDRESS_ONE_S
<1> QED
  BY <1>3, Zenon

\* So does a spot index.
LEMMA IndexSurvives ==
  ASSUME NEW index \in Indices
  PROVE  /\ to_s(index) \in Nat /\ s_to_address(to_s(index)) = to_s(index)
         /\ to_s(index) \in Addresses /\ to_s(index) >= SpotPrefix
         /\ address_to_s(to_s(index)) = to_s(index)
<1>1. AddressSpace \in Nat /\ to_s(index) \in 0..(AddressSpace - 1) /\ to_s(index) \in Nat
      /\ to_s(index) >= SpotPrefix /\ to_s(index) > 1 /\ to_s(index) # HYPE_SYSTEM_ADDRESS
  BY AddressAssumption DEF Indices, Addresses, to_s
<1>2. to_s(index) % AddressSpace = to_s(index)
  BY <1>1, SmallMod, Zenon
<1> QED
  BY <1>1, <1>2 DEF s_to_address, address_to_s, ADDRESS_ONE, ADDRESS_ONE_S, Addresses

\* The index a contract has, once it is listed.
Final(token) == IF Known(Overrides, token) THEN get(Overrides, token) ELSE IndexOf[token]

\* A map whose indices are final.
Settled(map) ==
  map \subseteq Tokens \X Indices /\ \A entry \in map : entry[2] = Final(entry[1])

\* The indices of tokens are indices, and those of an override are its own.
LEMMA FinalFacts ==
  /\ \A token \in Tokens : Final(token) \in Indices
  /\ \A o \in Overrides : Final(o[1]) = o[2]
  /\ \A token \in Tokens : (\A o \in Overrides : o[1] # token) => Final(token) = IndexOf[token]
<1>1. ASSUME NEW token, Known(Overrides, token)
      PROVE  \E o \in Overrides : o[1] = token /\ get(Overrides, token) = o[2]
  BY <1>1, Zenon DEF Known, get
<1>2. ASSUME NEW o \in Overrides
      PROVE  Final(o[1]) = o[2]
  <2>1. Known(Overrides, o[1])
    BY Zenon DEF Known
  <2>2. PICK p \in Overrides : p[1] = o[1] /\ get(Overrides, o[1]) = p[2]
    BY <1>1, <2>1, Zenon
  <2>3. p = o
    BY <2>2, SpotAssumption, Zenon
  <2> QED
    BY <2>1, <2>2, <2>3, Zenon DEF Final
<1>3. ASSUME NEW token \in Tokens
      PROVE  Final(token) \in Indices
  <2>1. IndexOf[token] \in Indices /\ \A o \in Overrides : o[2] \in Indices
    <3>1. IndexOf \in [Tokens -> Indices] /\ Overrides \subseteq Tokens \X Indices
      BY SpotAssumption, Zenon
    <3> QED
      BY <3>1, Zenon
  <2> QED
    BY <1>1, <2>1, Zenon DEF Final
<1>4. ASSUME NEW token \in Tokens, \A o \in Overrides : o[1] # token
      PROVE  Final(token) = IndexOf[token]
  BY <1>4, Zenon DEF Final, Known
<1> QED
  BY <1>2, <1>3, <1>4, Zenon

\* The API's answer is settled, whatever it lists.
LEMMA AnswerIsSettled ==
  ASSUME NEW tokens \in SUBSET Tokens
  PROVE  Settled(erc20_contract_to_spot_token(tokens))
<1>1. IndexOf \in [Tokens -> Indices] /\ Overrides \subseteq Tokens \X Indices
  BY SpotAssumption, Zenon
<1> DEFINE named == tokens \ {o[1] : o \in Overrides}
<1>2. ASSUME NEW entry \in erc20_contract_to_spot_token(tokens)
      PROVE  entry \in Tokens \X Indices /\ entry[2] = Final(entry[1])
  <2>1. CASE entry \in Overrides
    BY <1>1, <2>1, FinalFacts, Zenon
  <2>2. CASE \E token \in named : entry = <<token, IndexOf[token]>>
    <3>1. PICK token \in named : entry = <<token, IndexOf[token]>>
      BY <2>2, Zenon
    <3>2. token \in Tokens /\ \A o \in Overrides : o[1] # token
      BY <3>1, Zenon
    <3>3. Final(token) = IndexOf[token] /\ IndexOf[token] \in Indices
      BY <1>1, <3>2, FinalFacts, Zenon
    <3> QED
      BY <3>1, <3>2, <3>3, Zenon
  <2> QED
    BY <2>1, <2>2, Zenon DEF erc20_contract_to_spot_token
<1> QED
  BY <1>2, Zenon DEF Settled

\* What a settled map says of a contract is final.
LEMMA SettledGet ==
  ASSUME NEW map, Settled(map), NEW token, Known(map, token)
  PROVE  token \in Tokens /\ get(map, token) = Final(token)
<1> DEFINE entry == CHOOSE e \in map : e[1] = token
<1>1. entry \in map /\ entry[1] = token
  BY Zenon DEF Known
<1>2. get(map, token) = entry[2]
  BY Zenon DEF get
<1> HIDE DEF entry
<1> QED
  BY <1>1, <1>2, Zenon DEF Settled

--------------------------------------------------------------------------------
\* What a block is converted to.

Kept(b) == retain(b.system_txs)

\* The sender of the i-th system transaction can be found.
Resolved(b, i) == LocalS(b.patched, Kept(b)[i]) # None \/ Kept(b)[i].to \in Tokens

\* The signature that names it, which no listing or restart changes.
SenderS(b, i) ==
  IF LocalS(b.patched, Kept(b)[i]) # None THEN LocalS(b.patched, Kept(b)[i])
  ELSE to_s(Final(Kept(b)[i].to))

Senders(b) == [i \in 1..Len(Kept(b)) |-> SenderS(b, i)]

Converted(b) == to_reth_block(b, Senders(b))

\* A block of the source, and what is kept of it.
LEMMA BlockFacts ==
  ASSUME NEW b \in Blocks
  PROVE  /\ b.patched \in BOOLEAN /\ b.system_txs \in Seq(SystemTxOfSource)
         /\ b.transactions \in Seq(OwnTx) /\ b.receipts \in Seq({r \in Receipts : r.gas > 0})
         /\ Len(b.transactions) = Len(b.receipts)
         /\ Kept(b) \in Seq(WithReceipt) /\ Len(Kept(b)) \in Nat
         /\ \A i \in 1..Len(Kept(b)) : Kept(b)[i] \in WithReceipt
<1>1. b \in SourceBlocks
  BY SpotAssumption, Zenon
<1>2. /\ b.patched \in BOOLEAN /\ b.system_txs \in Seq(SystemTxOfSource)
      /\ b.transactions \in Seq(OwnTx) /\ b.receipts \in Seq({r \in Receipts : r.gas > 0})
      /\ Len(b.transactions) = Len(b.receipts)
  BY <1>1, Zenon DEF SourceBlocks
<1>3. Kept(b) \in Seq(WithReceipt)
  BY <1>2, RetainFacts, Zenon DEF Kept
<1> QED
  BY <1>2, <1>3

\* The signer the chain recovers is the one that was found, and its address gives
\* the signature again.
LEMMA SenderFacts ==
  ASSUME NEW b \in Blocks, NEW i \in 1..Len(Kept(b)), Resolved(b, i)
  PROVE  LET call == Kept(b)[i]
             logged == recover_testnet_system_tx_sender(b.patched, call)
             signer == s_to_address(SenderS(b, i))
         IN  /\ SenderS(b, i) \in Nat /\ signer \in Addresses
             /\ address_to_s(signer) = SenderS(b, i)
             /\ IF call.from # None THEN signer = call.from
                ELSE IF logged # None THEN signer = logged
                ELSE IF call.input_empty THEN signer = HYPE_SYSTEM_ADDRESS
                ELSE signer >= SpotPrefix
<1> DEFINE call == Kept(b)[i]
           logged == recover_testnet_system_tx_sender(b.patched, call)
           s == SenderS(b, i)
<1>1. call \in WithReceipt
  BY BlockFacts, Zenon
<1>2. /\ call.from \in Addresses \cup {None} /\ call.input_empty \in BOOLEAN
      /\ call.receipt.transfer \in Addresses \cup {None}
  BY <1>1, Zenon DEF WithReceipt, SystemTxOfSource, Receipts
<1>3. logged \in Addresses \cup {None}
  BY <1>2, Zenon DEF recover_testnet_system_tx_sender
<1>4. Addresses \subseteq Nat /\ None \notin Nat /\ None \notin Addresses
  BY AddressAssumption DEF Addresses
<1>5. ASSUME NEW a \in Addresses
      PROVE  address_to_s(a) # None
  BY <1>4, AddressSurvives, Zenon
<1> HIDE DEF call, logged, s
<1>6. CASE call.from # None
  <2>1. s = address_to_s(call.from) /\ call.from \in Addresses
    BY <1>2, <1>5, <1>6, Zenon DEF s, SenderS, LocalS, call
  <2> QED
    BY <1>6, <2>1, AddressSurvives, Zenon DEF s, call
<1>7. CASE call.from = None /\ logged # None
  <2>1. s = address_to_s(logged) /\ logged \in Addresses
    BY <1>3, <1>5, <1>7, Zenon DEF s, SenderS, LocalS, call, logged
  <2> QED
    BY <1>7, <2>1, AddressSurvives, Zenon DEF s, call, logged
<1>8. CASE call.from = None /\ logged = None /\ call.input_empty
  <2>1. 1 # None /\ HYPE_SYSTEM_ADDRESS \in Addresses
    BY AddressAssumption DEF Addresses
  <2>2. s = 1
    BY <1>8, <2>1, Zenon DEF s, SenderS, LocalS, call, logged
  <2>3. s_to_address(s) = HYPE_SYSTEM_ADDRESS /\ address_to_s(HYPE_SYSTEM_ADDRESS) = s
    BY <2>2, Zenon DEF s_to_address, address_to_s
  <2> QED
    BY <1>8, <2>1, <2>2, <2>3 DEF s, call, logged
<1>9. CASE call.from = None /\ logged = None /\ ~ call.input_empty
  <2>1. call.to \in Tokens /\ s = to_s(Final(call.to))
    BY <1>9, Zenon DEF s, SenderS, Resolved, LocalS, call, logged
  <2>2. Final(call.to) \in Indices
    BY <2>1, FinalFacts, Zenon
  <2> QED
    BY <1>9, <2>1, <2>2, IndexSurvives, Zenon DEF s, call, logged
<1> QED
  BY <1>2, <1>6, <1>7, <1>8, <1>9, Zenon

\* joined is s with t after it.
Joined(joined, s, t) ==
  /\ Len(joined) = Len(s) + Len(t)
  /\ \A i \in 1..Len(s) : joined[i] = s[i]
  /\ \A i \in 1..Len(t) : joined[Len(s) + i] = t[i]
  /\ SubSeq(joined, Len(s) + 1, Len(joined)) = t

\* One sequence after the other.
LEMMA Concatenation ==
  ASSUME NEW S, NEW s \in Seq(S), NEW t \in Seq(S)
  PROVE  Joined(s \o t, s, t)
<1>1. s \o t \in Seq(S) /\ Len(s \o t) = Len(s) + Len(t)
  OBVIOUS
<1>2. \A i \in 1..Len(s) : (s \o t)[i] = s[i]
  OBVIOUS
<1>3. ASSUME NEW i \in 1..Len(t)
      PROVE  (s \o t)[Len(s) + i] = t[i]
  <2>1. Len(s) + i \in 1..(Len(s) + Len(t)) /\ ~ (Len(s) + i <= Len(s)) /\ (Len(s) + i) - Len(s) = i
    OBVIOUS
  <2> QED
    BY <2>1
<1>4. SubSeq(s \o t, Len(s) + 1, Len(s \o t)) = t
  OBVIOUS
<1> QED
  BY <1>1, <1>2, <1>3, <1>4, Zenon DEF Joined

\* The converted block, part by part.
LEMMA ConvertedFacts ==
  ASSUME NEW b \in Blocks, \A i \in 1..Len(Kept(b)) : Resolved(b, i)
  PROVE  LET L == Len(Kept(b))
             N == Len(b.transactions)
             c == Converted(b)
         IN  /\ L \in Nat /\ N \in Nat /\ c.system_tx_count = L /\ c.patched = b.patched
             /\ Len(c.transactions) = L + N /\ Len(c.receipts) = L + N
             /\ \A i \in 1..L :
                  /\ c.transactions[i] = SystemTransaction(Kept(b)[i], SenderS(b, i))
                  /\ c.receipts[i] = Kept(b)[i].receipt
             /\ \A i \in 1..N : c.transactions[L + i] = b.transactions[i]
             /\ \A i \in 1..N : c.receipts[L + i] = b.receipts[i]
             /\ SubSeq(c.transactions, L + 1, Len(c.transactions)) = b.transactions
             /\ SubSeq(c.receipts, L + 1, Len(c.receipts)) = b.receipts
             /\ c = [transactions |-> c.transactions, receipts |-> c.receipts,
                     system_tx_count |-> L, patched |-> b.patched]
             /\ c.transactions = [i \in 1..L |-> SystemTransaction(Kept(b)[i], SenderS(b, i))]
                                   \o b.transactions
             /\ c.receipts = [i \in 1..L |-> Kept(b)[i].receipt] \o b.receipts
<1> DEFINE L == Len(Kept(b))
           N == Len(b.transactions)
           A == [i \in 1..L |-> SystemTransaction(Kept(b)[i], SenderS(b, i))]
           R == [i \in 1..L |-> Kept(b)[i].receipt]
           Tx == [to : Addresses, input_empty : BOOLEAN, system : BOOLEAN, s : Nat]
<1>1. /\ L \in Nat /\ Kept(b) \in Seq(WithReceipt) /\ b.transactions \in Seq(OwnTx)
      /\ b.receipts \in Seq({r \in Receipts : r.gas > 0}) /\ Len(b.receipts) = N
      /\ \A i \in 1..L : Kept(b)[i] \in WithReceipt
  BY BlockFacts, Zenon
<1>2. A \in Seq(Tx) /\ Len(A) = L
  <2>1. ASSUME NEW i \in 1..L
        PROVE  SystemTransaction(Kept(b)[i], SenderS(b, i)) \in Tx
    <3>1. SenderS(b, i) \in Nat /\ Kept(b)[i] \in SystemTxOfSource
      BY <1>1, SenderFacts, Zenon DEF WithReceipt
    <3> QED
      BY <3>1, Zenon DEF SystemTransaction, SystemTxOfSource
  <2>2. A \in [1..L -> Tx]
    BY <2>1, Zenon
  <2> HIDE DEF A, Tx, L
  <2> QED
    BY <1>1, <2>2
<1>3. R \in Seq(Receipts) /\ Len(R) = L
  <2>1. ASSUME NEW i \in 1..L
        PROVE  Kept(b)[i].receipt \in Receipts
    BY <1>1, Zenon DEF WithReceipt, SystemTxOfSource
  <2>2. R \in [1..L -> Receipts]
    BY <2>1, Zenon
  <2> HIDE DEF R, L
  <2> QED
    BY <1>1, <2>2
<1>4. b.transactions \in Seq(Tx) /\ b.receipts \in Seq(Receipts)
  <2>1. OwnTx \subseteq Tx /\ {r \in Receipts : r.gas > 0} \subseteq Receipts
    BY Zenon DEF OwnTx
  <2> HIDE DEF Tx
  <2> QED
    BY <1>1, <2>1
<1>5. Converted(b) = [transactions |-> A \o b.transactions, receipts |-> R \o b.receipts,
                      system_tx_count |-> L, patched |-> b.patched]
  <2>1. DOMAIN Kept(b) = 1..L
    BY <1>1
  <2>2. \A i \in 1..L : Senders(b)[i] = SenderS(b, i)
    BY Zenon DEF Senders
  <2>3. [i \in 1..L |-> SystemTransaction(Kept(b)[i], Senders(b)[i])] = A
    BY <2>2, Zenon
  <2> QED
    BY <2>1, <2>3, Zenon DEF Converted, to_reth_block, Kept
<1> HIDE DEF Tx, L
<1>6. /\ \A i \in 1..L : A[i] = SystemTransaction(Kept(b)[i], SenderS(b, i))
      /\ \A i \in 1..L : R[i] = Kept(b)[i].receipt
  BY Zenon
<1> HIDE DEF A, R
<1>7. /\ Len(A \o b.transactions) = L + N
      /\ \A i \in 1..L : (A \o b.transactions)[i] = A[i]
      /\ \A i \in 1..N : (A \o b.transactions)[L + i] = b.transactions[i]
      /\ SubSeq(A \o b.transactions, L + 1, Len(A \o b.transactions)) = b.transactions
  <2>1. Joined(A \o b.transactions, A, b.transactions)
    BY <1>2, <1>4, Concatenation, Zenon
  <2> QED
    BY <1>2, <2>1, Zenon DEF Joined
<1>8. /\ Len(R \o b.receipts) = L + N
      /\ \A i \in 1..L : (R \o b.receipts)[i] = R[i]
      /\ \A i \in 1..N : (R \o b.receipts)[L + i] = b.receipts[i]
      /\ SubSeq(R \o b.receipts, L + 1, Len(R \o b.receipts)) = b.receipts
  <2>1. Joined(R \o b.receipts, R, b.receipts)
    BY <1>3, <1>4, Concatenation, Zenon
  <2> QED
    BY <1>1, <1>3, <2>1, Zenon DEF Joined
<1>9. N \in Nat
  BY <1>1
<1>10. /\ Converted(b).transactions = A \o b.transactions
       /\ Converted(b).receipts = R \o b.receipts
       /\ Converted(b).system_tx_count = L /\ Converted(b).patched = b.patched
  BY <1>5
<1>11. Converted(b) = [transactions |-> Converted(b).transactions,
                       receipts |-> Converted(b).receipts,
                       system_tx_count |-> L, patched |-> b.patched]
  BY <1>5, <1>10, Zenon
<1> QED
  BY <1>1, <1>6, <1>7, <1>8, <1>9, <1>10, <1>11, ZenonT(30) DEF A, R, L

\* The number of receipts without gas is the number of system transactions.
LEMMA ConvertedCounts ==
  ASSUME NEW b \in Blocks, \A i \in 1..Len(Kept(b)) : Resolved(b, i)
  PROVE  LET c == Converted(b) IN
         /\ Len(c.receipts) = Len(c.transactions)
         /\ \A j \in DOMAIN c.transactions : c.transactions[j].system <=> j <= c.system_tx_count
         /\ to_hl_header(c.receipts) = c.system_tx_count
<1> DEFINE c == Converted(b)
           L == Len(Kept(b))
           N == Len(b.transactions)
           A == [i \in 1..L |-> SystemTransaction(Kept(b)[i], SenderS(b, i))]
           R == [i \in 1..L |-> Kept(b)[i].receipt]
<1>1. /\ L \in Nat /\ N \in Nat /\ c.system_tx_count = L
      /\ Len(c.transactions) = L + N /\ Len(c.receipts) = L + N
      /\ \A i \in 1..L : c.transactions[i] = SystemTransaction(Kept(b)[i], SenderS(b, i))
      /\ \A i \in 1..L : c.receipts[i] = Kept(b)[i].receipt
      /\ \A i \in 1..N : c.transactions[L + i] = b.transactions[i]
      /\ \A i \in 1..N : c.receipts[L + i] = b.receipts[i]
  BY ConvertedFacts, Zenon
<1>2. /\ \A i \in 1..N : b.transactions[i] \in OwnTx
      /\ \A i \in 1..N : b.receipts[i] \in {r \in Receipts : r.gas > 0}
      /\ \A i \in 1..L : Kept(b)[i] \in WithReceipt
  <2> DEFINE G == {r \in Receipts : r.gas > 0}
  <2>1. /\ b.transactions \in Seq(OwnTx) /\ b.receipts \in Seq(G) /\ Len(b.receipts) = N
        /\ \A i \in 1..L : Kept(b)[i] \in WithReceipt
    BY BlockFacts, Zenon
  <2> HIDE DEF G, L
  <2>2. /\ \A i \in 1..N : b.transactions[i] \in OwnTx
        /\ \A i \in 1..N : b.receipts[i] \in G
    BY <2>1
  <2> QED
    BY <2>1, <2>2, Zenon DEF G
<1>3. DOMAIN c.transactions = 1..(L + N) /\ DOMAIN c.receipts = 1..(L + N)
  <2>1. c.transactions = A \o b.transactions /\ c.receipts = R \o b.receipts
    BY ConvertedFacts, Zenon
  <2>2. A \o b.transactions \in Seq({A[i] : i \in 1..L} \cup OwnTx)
    <3> DEFINE S == {A[i] : i \in 1..L} \cup OwnTx
    <3>1. A \in [1..L -> S]
      BY Zenon
    <3>2. b.transactions \in Seq(S)
      <4>1. b.transactions \in Seq(OwnTx) /\ OwnTx \subseteq S
        BY BlockFacts, Zenon
      <4> HIDE DEF S
      <4> QED
        BY <4>1
    <3> HIDE DEF S, A, L
    <3>3. A \in Seq(S)
      BY <1>1, <3>1
    <3>4. A \o b.transactions \in Seq(S)
      BY <3>2, <3>3
    <3> QED
      BY <3>4, Zenon DEF S
  <2>3. R \o b.receipts \in Seq({R[i] : i \in 1..L} \cup {r \in Receipts : r.gas > 0})
    <3> DEFINE G == {r \in Receipts : r.gas > 0}
               S == {R[i] : i \in 1..L} \cup G
    <3>1. R \in [1..L -> S]
      BY Zenon
    <3>2. b.receipts \in Seq(S)
      <4>1. b.receipts \in Seq(G) /\ G \subseteq S
        BY BlockFacts, Zenon
      <4> HIDE DEF S, G
      <4> QED
        BY <4>1
    <3> HIDE DEF S, R, L
    <3>3. R \in Seq(S)
      BY <1>1, <3>1
    <3>4. R \o b.receipts \in Seq(S)
      BY <3>2, <3>3
    <3> QED
      BY <3>4, Zenon DEF S
  <2> HIDE DEF A, R, c, L, N
  <2> QED
    BY <1>1, <2>1, <2>2, <2>3
<1> HIDE DEF c, L, N
<1>4. ASSUME NEW j \in 1..(L + N)
      PROVE  /\ c.transactions[j].system <=> j <= L
             /\ c.receipts[j].gas = 0 <=> j <= L
  <2>1. CASE j <= L
    <3>1. j \in 1..L
      BY <1>1, <2>1
    <3>2. c.transactions[j].system = TRUE
      <4>1. c.transactions[j] = SystemTransaction(Kept(b)[j], SenderS(b, j))
        BY <1>1, <3>1, Zenon
      <4> QED
        BY <4>1 DEF SystemTransaction
    <3>3. c.receipts[j].gas = 0
      BY <1>1, <1>2, <3>1, Zenon DEF WithReceipt, SystemTxOfSource
    <3> QED
      BY <2>1, <3>2, <3>3, Zenon
  <2>2. CASE ~ (j <= L)
    <3>1. j - L \in 1..N /\ L + (j - L) = j
      BY <1>1, <2>2
    <3>2. c.transactions[j] = b.transactions[j - L] /\ c.receipts[j] = b.receipts[j - L]
      BY <1>1, <3>1, Zenon
    <3>3. b.transactions[j - L].system = FALSE /\ b.receipts[j - L].gas > 0
      BY <1>2, <3>1, Zenon DEF OwnTx, Receipts
    <3>4. b.receipts[j - L].gas \in Nat
      BY <1>2, <3>1, Zenon DEF Receipts
    <3> QED
      BY <2>2, <3>2, <3>3, <3>4
  <2> QED
    BY <2>1, <2>2, Zenon
<1>5. {j \in 1..(L + N) : c.receipts[j].gas = 0} = 1..L
  BY <1>1, <1>4
<1>6. Cardinality(1..L) = L
  <2>1. 1 \in Int /\ L \in Int /\ (IF 1 > L THEN 0 ELSE L - 1 + 1) = L
    BY <1>1
  <2> QED
    BY <2>1, FS_Interval, Zenon
<1>7. to_hl_header(c.receipts) = L
  BY <1>3, <1>5, <1>6, Zenon DEF to_hl_header
<1> QED
  BY <1>1, <1>3, <1>4, <1>7, Zenon DEF c

\* What from_db makes of a converted block is converted to the same block.
LEMMA ConvertedIsServed ==
  ASSUME NEW b \in Blocks, \A i \in 1..Len(Kept(b)) : Resolved(b, i)
  PROVE  LET c == Converted(b)
             served == from_db(c)
         IN  to_reth_block(served,
               [j \in DOMAIN served.system_txs |->
                  LocalS(served.patched, served.system_txs[j])]) = c
<1> DEFINE c == Converted(b)
           L == Len(Kept(b))
           N == Len(b.transactions)
           served == from_db(c)
           sys == served.system_txs
           found == [j \in DOMAIN sys |-> LocalS(served.patched, sys[j])]
           explicit(i) == [to |-> c.transactions[i].to,
                           input_empty |-> c.transactions[i].input_empty,
                           from |-> recover_signer(c.transactions[i]),
                           receipt |-> c.receipts[i]]
<1>1. /\ L \in Nat /\ N \in Nat /\ c.system_tx_count = L /\ c.patched = b.patched
      /\ Len(c.transactions) = L + N /\ Len(c.receipts) = L + N
      /\ \A i \in 1..L : c.transactions[i] = SystemTransaction(Kept(b)[i], SenderS(b, i))
      /\ \A i \in 1..L : c.receipts[i] = Kept(b)[i].receipt
      /\ SubSeq(c.transactions, L + 1, Len(c.transactions)) = b.transactions
      /\ SubSeq(c.receipts, L + 1, Len(c.receipts)) = b.receipts
      /\ c = [transactions |-> c.transactions, receipts |-> c.receipts,
              system_tx_count |-> L, patched |-> b.patched]
      /\ c.transactions = [i \in 1..L |-> SystemTransaction(Kept(b)[i], SenderS(b, i))]
                            \o b.transactions
      /\ c.receipts = [i \in 1..L |-> Kept(b)[i].receipt] \o b.receipts
  BY ConvertedFacts, Zenon
<1> HIDE DEF c, L, N
<1>2. split_at(L, c.transactions) = L /\ split_at(L, c.receipts) = L
  BY <1>1 DEF split_at
<1>3. served = [system_txs |-> [i \in 1..L |-> explicit(i)], transactions |-> b.transactions,
                receipts |-> b.receipts, patched |-> b.patched]
  BY <1>1, <1>2, Zenon DEF from_db
<1>4. /\ sys = [i \in 1..L |-> explicit(i)] /\ DOMAIN sys = 1..L
      /\ served.transactions = b.transactions /\ served.receipts = b.receipts
      /\ served.patched = b.patched
  BY <1>3
<1>5. ASSUME NEW i \in 1..L
      PROVE  /\ sys[i] \in WithReceipt /\ sys[i].receipt = Kept(b)[i].receipt
             /\ sys[i].to = Kept(b)[i].to /\ sys[i].input_empty = Kept(b)[i].input_empty
             /\ LocalS(b.patched, sys[i]) = SenderS(b, i)
  <2> DEFINE call == Kept(b)[i]
             signer == s_to_address(SenderS(b, i))
  <2>1. call \in WithReceipt
    BY BlockFacts, Zenon DEF L
  <2>2. signer \in Addresses /\ address_to_s(signer) = SenderS(b, i)
    BY SenderFacts, Zenon DEF L
  <2>3. c.transactions[i] = SystemTransaction(call, SenderS(b, i)) /\ c.receipts[i] = call.receipt
    BY <1>1, Zenon
  <2>4. /\ c.transactions[i].to = call.to /\ c.transactions[i].input_empty = call.input_empty
        /\ recover_signer(c.transactions[i]) = signer
    BY <2>3 DEF SystemTransaction, recover_signer
  <2>5. sys[i] = [to |-> call.to, input_empty |-> call.input_empty, from |-> signer,
                  receipt |-> call.receipt]
    BY <1>4, <2>3, <2>4
  <2> HIDE DEF call, signer, sys
  <2>6. sys[i] \in WithReceipt
    BY <2>1, <2>2, <2>5 DEF WithReceipt, SystemTxOfSource
  <2>7. signer # None
    BY <2>2, AddressAssumption DEF Addresses
  <2>8. /\ sys[i].from = signer /\ sys[i].to = call.to /\ sys[i].receipt = call.receipt
        /\ sys[i].input_empty = call.input_empty
    BY <2>5
  <2>9. LocalS(b.patched, sys[i]) = SenderS(b, i)
    BY <2>2, <2>7, <2>8, Zenon DEF LocalS
  <2> QED
    BY <2>6, <2>8, <2>9, Zenon DEF call
<1>6. retain(sys) = sys /\ Len(sys) = L
  <2>1. sys \in [1..L -> WithReceipt]
    BY <1>4, <1>5, Zenon
  <2> HIDE DEF sys
  <2>2. sys \in Seq(WithReceipt) /\ Len(sys) = L
    <3>1. L \in Nat
      BY <1>1, Zenon
    <3> QED
      BY <2>1, <3>1
  <2>3. WithReceipt \subseteq SystemTxOfSource /\ \A call \in WithReceipt : call.receipt # None
    BY Zenon DEF WithReceipt
  <2>4. sys \in Seq(SystemTxOfSource)
    BY <2>2, <2>3
  <2>5. \A i \in 1..Len(sys) : sys[i].receipt # None
    BY <1>5, <2>2, <2>3, Zenon
  <2> QED
    BY <2>2, <2>4, <2>5, RetainFacts, ZenonT(30)
<1>7. /\ [i \in DOMAIN sys |-> SystemTransaction(sys[i], found[i])]
           = [i \in 1..L |-> SystemTransaction(Kept(b)[i], SenderS(b, i))]
      /\ [i \in DOMAIN sys |-> sys[i].receipt] = [i \in 1..L |-> Kept(b)[i].receipt]
  <2>1. \A i \in 1..L : found[i] = SenderS(b, i)
    BY <1>4, <1>5, Zenon
  <2>2. ASSUME NEW i \in 1..L
        PROVE  SystemTransaction(sys[i], found[i]) = SystemTransaction(Kept(b)[i], SenderS(b, i))
    BY <1>5, <2>1, <2>2, Zenon DEF SystemTransaction
  <2> HIDE DEF sys, found
  <2> QED
    BY <1>4, <1>5, <2>2, Zenon
<1> HIDE DEF sys, found
<1>8. to_reth_block(served, found) =
        [transactions |-> [i \in DOMAIN sys |-> SystemTransaction(sys[i], found[i])]
                            \o b.transactions,
         receipts |-> [i \in DOMAIN sys |-> sys[i].receipt] \o b.receipts,
         system_tx_count |-> L, patched |-> b.patched]
  BY <1>4, <1>6, Zenon DEF to_reth_block, sys
<1>9. to_reth_block(served, found) = c
  BY <1>1, <1>7, <1>8, Zenon
<1> QED
  BY <1>9, Zenon DEF found, sys, c

\* The chain recovers the sender of every system transaction.
LEMMA ConvertedSigners ==
  ASSUME NEW b \in Blocks, \A i \in 1..Len(Kept(b)) : Resolved(b, i)
  PROVE  LET txs == retain(b.system_txs) IN
         \A j \in DOMAIN txs :
           LET signer == recover_signer(Converted(b).transactions[j])
               logged == recover_testnet_system_tx_sender(b.patched, txs[j])
           IN IF txs[j].from # None THEN signer = txs[j].from
              ELSE IF logged # None THEN signer = logged
              ELSE IF txs[j].input_empty THEN signer = HYPE_SYSTEM_ADDRESS
              ELSE signer >= SpotPrefix
<1> DEFINE txs == Kept(b)
<1>1. DOMAIN txs = 1..Len(txs)
  <2>1. txs \in Seq(WithReceipt)
    BY BlockFacts, Zenon
  <2> HIDE DEF txs
  <2> QED
    BY <2>1
<1>2. ASSUME NEW j \in DOMAIN txs
      PROVE  LET signer == recover_signer(Converted(b).transactions[j])
                 logged == recover_testnet_system_tx_sender(b.patched, txs[j])
             IN IF txs[j].from # None THEN signer = txs[j].from
                ELSE IF logged # None THEN signer = logged
                ELSE IF txs[j].input_empty THEN signer = HYPE_SYSTEM_ADDRESS
                ELSE signer >= SpotPrefix
  <2>1. j \in 1..Len(Kept(b)) /\ Resolved(b, j)
    BY <1>1, Zenon
  <2>2. Converted(b).transactions[j] = SystemTransaction(txs[j], SenderS(b, j))
    BY <2>1, ConvertedFacts, Zenon
  <2>3. recover_signer(Converted(b).transactions[j]) = s_to_address(SenderS(b, j))
    BY <2>2 DEF SystemTransaction, recover_signer
  <2> QED
    BY <2>1, <2>3, SenderFacts, Zenon
<1> QED
  BY <1>2, Zenon DEF Kept

--------------------------------------------------------------------------------
\* The inductive invariant.

\* The senders found so far are the first ones of the block.
Found(b, s) ==
  /\ Len(s) <= Len(Kept(b))
  /\ \A i \in 1..Len(s) : s[i] = SenderS(b, i) /\ Resolved(b, i)

Places == {"idle", "transaction", "lock", "check", "fetch", "store", "persist"}

Types ==
  /\ listed \subseteq Tokens /\ up \in BOOLEAN /\ lock \in Threads \cup {None}
  /\ pc \in [Threads -> Places] /\ block \in [Threads -> Blocks \cup {None}]
  /\ ss \in [Threads -> Seq(Nat)]
  /\ metadata \in [Threads -> SUBSET (Tokens \X Indices)]
  /\ converted \in [Blocks -> Seq({Converted(b) : b \in Blocks})]

\* Every copy of the map, in memory, in a thread's hands or on disk, is settled.
Maps ==
  /\ Settled(cache) /\ (db # None => Settled(db))
  /\ \A t \in Threads : Settled(metadata[t])

\* A thread at work belongs to a running node and has found the first senders.
Working ==
  \A t \in Threads : pc[t] # "idle" =>
    up /\ block[t] \in Blocks /\ Found(block[t], ss[t])

\* A thread between taking and releasing the fetch lock holds it, and the cache
\* does not change under the one that fetches.
Locked ==
  /\ \A t \in Threads : pc[t] \in {"check", "fetch", "store", "persist"} => lock = t
  /\ \A t \in Threads : pc[t] = "fetch" => ~ Known(cache, tx(t).to)

\* Whatever was converted is what the block converts to.
Conversions ==
  \A b \in Blocks :
    /\ \A i \in DOMAIN converted[b] : converted[b][i] = Converted(b)
    /\ converted[b] # <<>> => \A i \in 1..Len(Kept(b)) : Resolved(b, i)

Inv == Types /\ Maps /\ Working /\ Locked /\ Conversions

\* One sender more.
LEMMA FoundMore ==
  ASSUME NEW b \in Blocks, NEW s \in Seq(Nat), Found(b, s), Len(s) < Len(Kept(b)),
         Resolved(b, Len(s) + 1)
  PROVE  /\ SenderS(b, Len(s) + 1) \in Nat
         /\ Append(s, SenderS(b, Len(s) + 1)) \in Seq(Nat)
         /\ Found(b, Append(s, SenderS(b, Len(s) + 1)))
<1> DEFINE n == Len(s) + 1
           x == SenderS(b, n)
<1>1. Len(Kept(b)) \in Nat
  BY BlockFacts, Zenon
<1>2. n \in 1..Len(Kept(b)) /\ Len(s) \in Nat
  BY <1>1
<1>3. x \in Nat
  BY <1>2, SenderFacts, Zenon
<1> HIDE DEF x
<1>4. Append(s, x) \in Seq(Nat) /\ Len(Append(s, x)) = n
  BY <1>3
<1>5. ASSUME NEW i \in 1..n
      PROVE  Append(s, x)[i] = SenderS(b, i) /\ Resolved(b, i)
  <2>1. CASE i = n
    BY <1>3, <2>1 DEF x
  <2>2. CASE i # n
    <3>1. i \in 1..Len(s) /\ Append(s, x)[i] = s[i]
      BY <1>2, <1>3, <2>2
    <3> QED
      BY <3>1, Zenon DEF Found
  <2> QED
    BY <2>1, <2>2, Zenon
<1> QED
  BY <1>2, <1>3, <1>4, <1>5 DEF Found, x

\* When there is one for each system transaction they are the block's senders.
LEMMA FoundAll ==
  ASSUME NEW b \in Blocks, NEW s \in Seq(Nat), Found(b, s), Len(s) = Len(Kept(b))
  PROVE  s = Senders(b) /\ \A i \in 1..Len(Kept(b)) : Resolved(b, i)
<1>1. \A i \in 1..Len(Kept(b)) : s[i] = SenderS(b, i) /\ Resolved(b, i)
  BY Zenon DEF Found
<1>2. s = [i \in 1..Len(Kept(b)) |-> s[i]]
  <2>1. s = [i \in 1..Len(s) |-> s[i]]
    OBVIOUS
  <2> QED
    BY <2>1, Zenon
<1> QED
  BY <1>1, <1>2, Zenon DEF Senders

\* No entry is settled.
LEMMA EmptyIsSettled == Settled({})
BY Zenon DEF Settled

\* The invariant holds at the start.
LEMMA InitInv ==
  ASSUME Init
  PROVE  Inv
<1>1. Types
  <2>1. <<>> \in Seq({Converted(b) : b \in Blocks}) /\ <<>> \in Seq(Nat)
    OBVIOUS
  <2> QED
    BY <2>1, Zenon DEF Init, Types, NoThread, Places
<1>2. Maps
  BY EmptyIsSettled, Zenon DEF Init, Maps
<1>3. \A t \in Threads : pc[t] = "idle"
  BY Zenon DEF Init, NoThread
<1>4. Working /\ Locked
  BY <1>3, Zenon DEF Working, Locked
<1>5. Conversions
  BY DEF Init, Conversions
<1> QED
  BY <1>1, <1>2, <1>4, <1>5, Zenon DEF Inv

\* A step that leaves the threads, the cache and the conversions alone.
LEMMA OutsideInv ==
  ASSUME Inv, listed' \subseteq Tokens, up' \in BOOLEAN, up => up',
         db' # None => Settled(db'),
         UNCHANGED <<cache, lock, pc, block, ss, metadata, converted>>
  PROVE  Inv'
<1>1. Types'
  BY Zenon DEF Inv, Types
<1>2. Maps'
  BY Zenon DEF Inv, Maps
<1>3. Working'
  BY Zenon DEF Inv, Working
<1>4. Locked'
  BY Zenon DEF Inv, Locked, tx, kept
<1>5. Conversions'
  BY Zenon DEF Inv, Conversions
<1> QED
  BY <1>1, <1>2, <1>3, <1>4, <1>5, Zenon DEF Inv

\* The steps of the exchange and of the commands run while the node is down.
LEMMA CommandsInv ==
  ASSUME Inv,
         (\E token \in Tokens : ListToken(token)) \/ init_spot_metadata \/ clear_spot_metadata
  PROVE  Inv'
<1>1. listed \subseteq Tokens /\ up \in BOOLEAN /\ (db # None => Settled(db))
  BY Zenon DEF Inv, Types, Maps
<1>2. CASE \E token \in Tokens : ListToken(token)
  <2>1. /\ listed' \subseteq Tokens /\ up' = up /\ db' = db
        /\ UNCHANGED <<cache, lock, pc, block, ss, metadata, converted>>
    BY <1>1, <1>2, Zenon DEF ListToken, memory
  <2> QED
    BY <1>1, <2>1, OutsideInv, Zenon
<1>3. CASE init_spot_metadata
  <2>1. /\ listed' = listed /\ up' = up /\ db' = erc20_contract_to_spot_token(listed)
        /\ UNCHANGED <<cache, lock, pc, block, ss, metadata, converted>>
    BY <1>3, Zenon DEF init_spot_metadata, memory
  <2>2. Settled(db')
    BY <1>1, <2>1, AnswerIsSettled, Zenon
  <2> QED
    BY <1>1, <2>1, <2>2, OutsideInv, Zenon
<1>4. CASE clear_spot_metadata
  <2>1. /\ listed' = listed /\ up' = up /\ db' = None
        /\ UNCHANGED <<cache, lock, pc, block, ss, metadata, converted>>
    BY <1>4, Zenon DEF clear_spot_metadata, memory
  <2> QED
    BY <1>1, <2>1, OutsideInv, Zenon
<1> QED
  BY <1>2, <1>3, <1>4, Zenon

\* No thread is at work when the node starts, and none after it ends.
LEMMA RestartInv ==
  ASSUME Inv, Start \/ Crash
  PROVE  Inv'
<1>1. Settled(cache') /\ db' = db /\ converted' = converted /\ listed' = listed
      /\ up' \in BOOLEAN
  <2>1. CASE Start
    BY <2>1, EmptyIsSettled, Zenon DEF Start, Inv, Maps
  <2>2. CASE Crash
    BY <2>2, EmptyIsSettled, Zenon DEF Crash
  <2> QED
    BY <2>1, <2>2, Zenon
<1>2. /\ lock' \in Threads \cup {None} /\ pc' = NoThread
      /\ block' \in [Threads -> Blocks \cup {None}] /\ ss' \in [Threads -> Seq(Nat)]
      /\ metadata' \in [Threads -> SUBSET (Tokens \X Indices)]
      /\ \A t \in Threads : Settled(metadata'[t])
  <2>1. CASE Start
    <3>1. \A t \in Threads : pc[t] = "idle"
      BY <2>1, Zenon DEF Start, Inv, Working
    <3>2. pc' = NoThread
      BY <2>1, <3>1, Zenon DEF Start, Inv, Types, NoThread
    <3> QED
      BY <2>1, <3>2, Zenon DEF Start, Inv, Types, Maps
  <2>2. CASE Crash
    <3>1. <<>> \in Seq(Nat)
      OBVIOUS
    <3> QED
      BY <2>2, <3>1, EmptyIsSettled, Zenon DEF Crash
  <2> QED
    BY <2>1, <2>2, Zenon
<1>3. \A t \in Threads : pc'[t] = "idle"
  BY <1>2, Zenon DEF NoThread
<1>4. Types'
  <2>1. pc' \in [Threads -> Places]
    BY <1>2, Zenon DEF NoThread, Places
  <2> QED
    BY <1>1, <1>2, <2>1, Zenon DEF Inv, Types
<1>5. Maps'
  BY <1>1, <1>2, Zenon DEF Inv, Maps
<1>6. Working' /\ Locked'
  BY <1>3, Zenon DEF Working, Locked
<1>7. Conversions'
  BY <1>1, Zenon DEF Inv, Conversions
<1> QED
  BY <1>4, <1>5, <1>6, <1>7, Zenon DEF Inv

Holding == {"check", "fetch", "store", "persist"}

\* A step of thread t, which changes the lock only when it is free or its own, and
\* the cache only when it holds the lock.
LEMMA ThreadInv ==
  ASSUME Inv, NEW t \in Threads, Types', Conversions', up' = up,
         \A u \in Threads : u # t =>
           /\ pc'[u] = pc[u] /\ block'[u] = block[u] /\ ss'[u] = ss[u]
           /\ metadata'[u] = metadata[u],
         Settled(cache'), db' # None => Settled(db'), Settled(metadata'[t]),
         pc'[t] # "idle" => up /\ block'[t] \in Blocks /\ Found(block'[t], ss'[t]),
         pc'[t] \in Holding => lock' = t,
         pc'[t] = "fetch" => ~ Known(cache, tx(t).to)',
         lock' = lock \/ lock \in {t, None}, cache' = cache \/ lock = t
  PROVE  Inv'
<1>1. Maps'
  BY Zenon DEF Inv, Maps
<1>2. Working'
  BY Zenon DEF Inv, Working
<1>3. Locked'
  <2>1. ASSUME NEW u \in Threads, pc'[u] \in Holding
        PROVE  lock' = u
    <3>1. CASE u = t
      BY <2>1, <3>1, Zenon
    <3>2. CASE u # t
      <4>1. None \notin Threads
        BY SpotAssumption, Zenon
      <4>2. lock = u
        BY <2>1, <3>2, Zenon DEF Inv, Locked, Holding
      <4> QED
        BY <3>2, <4>1, <4>2, Zenon
    <3> QED
      BY <3>1, <3>2, Zenon
  <2>2. ASSUME NEW u \in Threads, pc'[u] = "fetch"
        PROVE  ~ Known(cache, tx(u).to)'
    <3>1. CASE u = t
      BY <2>2, <3>1, Zenon
    <3>2. CASE u # t
      <4>1. pc[u] = "fetch" /\ block'[u] = block[u] /\ ss'[u] = ss[u]
        BY <2>2, <3>2, Zenon
      <4>2. lock = u /\ ~ Known(cache, tx(u).to)
        BY <4>1, Zenon DEF Inv, Locked
      <4>3. cache' = cache
        BY <3>2, <4>2, Zenon
      <4>4. tx(u)' = tx(u)
        BY <4>1, Zenon DEF tx, kept
      <4> QED
        BY <4>2, <4>3, <4>4, Zenon DEF Known
    <3> QED
      BY <3>1, <3>2, Zenon
  <2> QED
    BY <2>1, <2>2, Zenon DEF Locked, Holding
<1> QED
  BY <1>1, <1>2, <1>3, Zenon DEF Inv

\* A thread starts on a block.
LEMMA BeginInv ==
  ASSUME Inv, NEW t \in Threads, NEW b \in Blocks, Begin(t, b)
  PROVE  Inv'
<1>1. /\ up /\ listed' = listed /\ up' = up /\ cache' = cache /\ db' = db /\ lock' = lock
      /\ metadata' = metadata /\ converted' = converted
      /\ block' = [block EXCEPT ![t] = b] /\ ss' = [ss EXCEPT ![t] = <<>>]
      /\ pc' = [pc EXCEPT ![t] = "transaction"]
  BY Zenon DEF Begin
<1>2. /\ pc \in [Threads -> Places] /\ block \in [Threads -> Blocks \cup {None}]
      /\ ss \in [Threads -> Seq(Nat)]
  BY Zenon DEF Inv, Types
<1>3. <<>> \in Seq(Nat) /\ "transaction" \in Places
  BY DEF Places
<1>4. Types'
  <2>1. /\ pc' \in [Threads -> Places] /\ block' \in [Threads -> Blocks \cup {None}]
        /\ ss' \in [Threads -> Seq(Nat)]
    BY <1>1, <1>2, <1>3, Zenon
  <2> QED
    BY <1>1, <2>1, Zenon DEF Inv, Types
<1>5. Found(b, <<>>)
  <2>1. Len(Kept(b)) \in Nat
    BY BlockFacts, Zenon
  <2> QED
    BY <2>1 DEF Found
<1>6. pc'[t] = "transaction" /\ block'[t] = b /\ ss'[t] = <<>>
  BY <1>1, <1>2, Zenon
<1>7. \A u \in Threads : u # t =>
        /\ pc'[u] = pc[u] /\ block'[u] = block[u] /\ ss'[u] = ss[u]
        /\ metadata'[u] = metadata[u]
  BY <1>1, <1>2, Zenon
<1>8. Conversions' /\ Settled(cache') /\ (db' # None => Settled(db')) /\ Settled(metadata'[t])
  BY <1>1, Zenon DEF Inv, Conversions, Maps
<1>9. "transaction" \notin Holding /\ "transaction" # "fetch"
  BY Zenon DEF Holding
<1> QED
  BY <1>1, <1>4, <1>5, <1>6, <1>7, <1>8, <1>9, ThreadInv, ZenonT(30)

\* A thread at work goes to place p with what it has found so far.
LEMMA PlaceInv ==
  ASSUME Inv, NEW t \in Threads, NEW p \in Places, pc[t] # "idle", p # "idle",
         pc' = [pc EXCEPT ![t] = p], UNCHANGED <<listed, up, block, ss, converted>>,
         metadata' \in [Threads -> SUBSET (Tokens \X Indices)], Settled(metadata'[t]),
         \A u \in Threads : u # t => metadata'[u] = metadata[u],
         Settled(cache'), db' # None => Settled(db'), lock' \in Threads \cup {None},
         p \in Holding => lock' = t, p = "fetch" => ~ Known(cache', tx(t).to),
         lock' = lock \/ lock \in {t, None}, cache' = cache \/ lock = t
  PROVE  Inv'
<1>1. pc \in [Threads -> Places]
  BY Zenon DEF Inv, Types
<1>2. pc'[t] = p /\ \A u \in Threads : u # t => pc'[u] = pc[u]
  BY <1>1, Zenon
<1>3. Types'
  <2>1. pc' \in [Threads -> Places]
    BY <1>1, Zenon
  <2> QED
    BY <2>1, Zenon DEF Inv, Types
<1>4. Conversions'
  BY Zenon DEF Inv, Conversions
<1>5. up /\ block[t] \in Blocks /\ Found(block[t], ss[t])
  BY Zenon DEF Inv, Working
<1>6. tx(t)' = tx(t)
  BY Zenon DEF tx, kept
<1>7. pc'[t] = "fetch" => ~ Known(cache, tx(t).to)'
  BY <1>2, <1>6, Zenon DEF Known
<1>8. block' = block /\ ss' = ss /\ up' = up
  BY Zenon
<1> QED
  BY <1>2, <1>3, <1>4, <1>5, <1>7, <1>8, ThreadInv, ZenonT(30)

\* Waiting for the lock, looking again under it, and fetching.
LEMMA FetchInv ==
  ASSUME Inv, NEW t \in Threads, Lock(t) \/ Check(t) \/ Fetch(t) \/ Store(t) \/ Persist(t)
  PROVE  Inv'
<1>1. /\ listed \subseteq Tokens /\ lock \in Threads \cup {None}
      /\ metadata \in [Threads -> SUBSET (Tokens \X Indices)]
      /\ Settled(cache) /\ (db # None => Settled(db)) /\ Settled(metadata[t])
      /\ (pc[t] \in Holding => lock = t)
      /\ (pc[t] = "fetch" => ~ Known(cache, tx(t).to))
  BY Zenon DEF Inv, Types, Maps, Locked, Holding
<1>2. /\ {"transaction", "check", "fetch", "store", "persist"} \subseteq Places \ {"idle"}
      /\ "transaction" \notin Holding /\ "transaction" # "fetch" /\ "check" # "fetch"
      /\ "store" # "fetch" /\ "persist" # "fetch" /\ "lock" # "idle"
      /\ Holding = {"check", "fetch", "store", "persist"}
  BY Zenon DEF Places, Holding
<1>3. CASE Lock(t)
  <2>1. /\ pc[t] = "lock" /\ lock = None /\ lock' = t /\ pc' = [pc EXCEPT ![t] = "check"]
        /\ UNCHANGED <<listed, up, cache, db, block, ss, metadata, converted>>
    BY <1>3, Zenon DEF Lock
  <2> QED
    BY <1>1, <1>2, <2>1, PlaceInv, ZenonT(30)
<1>4. CASE Check(t)
  <2>1. /\ pc[t] = "check"
        /\ UNCHANGED <<listed, up, cache, db, block, ss, metadata, converted>>
    BY <1>4, Zenon DEF Check
  <2>2. CASE lock' = None /\ pc' = [pc EXCEPT ![t] = "transaction"]
    BY <1>1, <1>2, <2>1, <2>2, PlaceInv, Zenon
  <2>3. CASE ~ Known(cache, tx(t).to) /\ pc' = [pc EXCEPT ![t] = "fetch"] /\ lock' = lock
    BY <1>1, <1>2, <2>1, <2>3, PlaceInv, ZenonT(30)
  <2> QED
    BY <1>4, <2>2, <2>3, Zenon DEF Check
<1>5. CASE Fetch(t)
  <2> DEFINE m == erc20_contract_to_spot_token(listed)
  <2>1. /\ pc[t] = "fetch" /\ metadata' = [metadata EXCEPT ![t] = m]
        /\ pc' = [pc EXCEPT ![t] = "store"]
        /\ UNCHANGED <<listed, up, cache, db, lock, block, ss, converted>>
    BY <1>5, Zenon DEF Fetch
  <2>2. Settled(m)
    BY <1>1, AnswerIsSettled, Zenon
  <2> HIDE DEF m
  <2>3. m \in SUBSET (Tokens \X Indices)
    BY <2>2, Zenon DEF Settled
  <2>4. /\ metadata' \in [Threads -> SUBSET (Tokens \X Indices)] /\ metadata'[t] = m
        /\ \A u \in Threads : u # t => metadata'[u] = metadata[u]
    BY <1>1, <2>1, <2>3, Zenon
  <2>5. Settled(metadata'[t])
    BY <2>2, <2>4, Zenon
  <2> QED
    BY <1>1, <1>2, <2>1, <2>4, <2>5, PlaceInv, ZenonT(30)
<1>6. CASE Store(t)
  <2>1. /\ pc[t] = "store" /\ cache' = metadata[t] /\ pc' = [pc EXCEPT ![t] = "persist"]
        /\ UNCHANGED <<listed, up, db, lock, block, ss, metadata, converted>>
    BY <1>6, Zenon DEF Store
  <2>2. Settled(cache')
    BY <1>1, <2>1, Zenon
  <2> QED
    BY <1>1, <1>2, <2>1, <2>2, PlaceInv, ZenonT(30)
<1>7. CASE Persist(t)
  <2>1. /\ pc[t] = "persist" /\ (db' = metadata[t] \/ db' = db) /\ lock' = None
        /\ metadata' = [metadata EXCEPT ![t] = {}] /\ pc' = [pc EXCEPT ![t] = "transaction"]
        /\ UNCHANGED <<listed, up, cache, block, ss, converted>>
    BY <1>7, Zenon DEF Persist
  <2>2. /\ metadata' \in [Threads -> SUBSET (Tokens \X Indices)] /\ metadata'[t] = {}
        /\ \A u \in Threads : u # t => metadata'[u] = metadata[u]
    BY <1>1, <2>1, Zenon
  <2>3. Settled(metadata'[t]) /\ (db' # None => Settled(db'))
    BY <1>1, <2>1, <2>2, EmptyIsSettled, Zenon
  <2> QED
    BY <1>1, <1>2, <2>1, <2>2, <2>3, PlaceInv, ZenonT(30)
<1> QED
  BY <1>3, <1>4, <1>5, <1>6, <1>7, Zenon

\* The next sender is found, or it has to be looked up.
LEMMA TransactionInv ==
  ASSUME Inv, NEW t \in Threads, Transaction(t)
  PROVE  Inv'
<1> DEFINE b == block[t]
           n == Len(ss[t]) + 1
           local == LocalS(b.patched, tx(t))
<1>1. /\ pc[t] = "transaction" /\ Len(ss[t]) < Len(Kept(b)) /\ tx(t) = Kept(b)[n]
      /\ UNCHANGED <<listed, up, cache, db, lock, block, metadata, converted>>
      /\ \/ local # None /\ AppendS(t, local) /\ pc' = pc
         \/ local = None /\ Known(cache, tx(t).to) /\ AppendS(t, to_s(get(cache, tx(t).to)))
              /\ pc' = pc
         \/ pc' = [pc EXCEPT ![t] = "lock"] /\ ss' = ss
  BY Zenon DEF Transaction, tx, kept, Kept
<1>2. /\ ss \in [Threads -> Seq(Nat)] /\ pc \in [Threads -> Places]
      /\ metadata \in [Threads -> SUBSET (Tokens \X Indices)]
      /\ lock \in Threads \cup {None}
      /\ Settled(cache) /\ (db # None => Settled(db)) /\ Settled(metadata[t])
      /\ up /\ b \in Blocks /\ Found(b, ss[t])
  BY <1>1, Zenon DEF Inv, Types, Maps, Working
<1>3. "transaction" \notin Holding /\ "transaction" # "fetch" /\ "transaction" # "idle"
      /\ "lock" \notin Holding /\ "lock" # "fetch" /\ "lock" # "idle" /\ "lock" \in Places
  BY Zenon DEF Holding, Places
<1> HIDE DEF b, n, local
<1>4. CASE pc' = [pc EXCEPT ![t] = "lock"] /\ ss' = ss
  BY <1>1, <1>2, <1>3, <1>4, PlaceInv, Zenon
<1>5. CASE \/ local # None /\ AppendS(t, local) /\ pc' = pc
           \/ local = None /\ Known(cache, tx(t).to) /\ AppendS(t, to_s(get(cache, tx(t).to)))
                /\ pc' = pc
  <2>1. AppendS(t, SenderS(b, n)) /\ Resolved(b, n) /\ pc' = pc
    <3>1. CASE local # None /\ AppendS(t, local) /\ pc' = pc
      BY <1>1, <3>1, Zenon DEF local, SenderS, Resolved
    <3>2. CASE local = None /\ Known(cache, tx(t).to) /\ pc' = pc
               /\ AppendS(t, to_s(get(cache, tx(t).to)))
      <4>1. tx(t).to \in Tokens /\ get(cache, tx(t).to) = Final(tx(t).to)
        BY <1>2, <3>2, SettledGet, Zenon
      <4> QED
        BY <1>1, <3>2, <4>1, Zenon DEF local, SenderS, Resolved
    <3> QED
      BY <1>5, <3>1, <3>2, Zenon
  <2> DEFINE found == Append(ss[t], SenderS(b, n))
  <2>2. ss[t] \in Seq(Nat)
    BY <1>2, Zenon
  <2>3. found \in Seq(Nat) /\ Found(b, found)
    BY <1>1, <1>2, <2>1, <2>2, FoundMore, ZenonT(30) DEF n
  <2>4. ss' = [ss EXCEPT ![t] = found]
    BY <2>1, Zenon DEF AppendS
  <2> HIDE DEF found
  <2>5. /\ ss' \in [Threads -> Seq(Nat)] /\ ss'[t] = found
        /\ \A u \in Threads : u # t => ss'[u] = ss[u]
    BY <1>2, <2>3, <2>4, Zenon
  <2>6. Types'
    BY <1>1, <2>1, <2>5, Zenon DEF Inv, Types
  <2>7. Conversions'
    BY <1>1, Zenon DEF Inv, Conversions
  <2>8. pc'[t] = "transaction" /\ block'[t] = b
    BY <1>1, <2>1, Zenon DEF b
  <2>9. \A u \in Threads : u # t =>
          /\ pc'[u] = pc[u] /\ block'[u] = block[u] /\ ss'[u] = ss[u]
          /\ metadata'[u] = metadata[u]
    BY <1>1, <2>1, <2>5, Zenon
  <2>10. /\ up' = up /\ Settled(cache') /\ (db' # None => Settled(db'))
         /\ Settled(metadata'[t]) /\ lock' = lock /\ cache' = cache
    BY <1>1, <1>2, Zenon
  <2>11. pc'[t] # "idle" => up /\ block'[t] \in Blocks /\ Found(block'[t], ss'[t])
    BY <1>2, <2>3, <2>5, <2>8, Zenon
  <2> QED
    BY <1>3, <2>6, <2>7, <2>8, <2>9, <2>10, <2>11, ThreadInv, ZenonT(30)
<1> QED
  BY <1>1, <1>4, <1>5, Zenon

\* The block is converted with the senders that were found, which are its own.
LEMMA FinishInv ==
  ASSUME Inv, NEW t \in Threads, Finish(t)
  PROVE  Inv'
<1> DEFINE b == block[t]
           S == {Converted(d) : d \in Blocks}
<1>1. /\ pc[t] = "transaction" /\ Len(ss[t]) = Len(Kept(b))
      /\ converted' = [converted EXCEPT ![b] = Append(converted[b], to_reth_block(b, ss[t]))]
      /\ pc' = [pc EXCEPT ![t] = "idle"] /\ block' = [block EXCEPT ![t] = None]
      /\ ss' = [ss EXCEPT ![t] = <<>>]
      /\ UNCHANGED <<listed, up, cache, db, lock, metadata>>
  BY Zenon DEF Finish, kept, Kept
<1>2. /\ ss \in [Threads -> Seq(Nat)] /\ pc \in [Threads -> Places]
      /\ block \in [Threads -> Blocks \cup {None}]
      /\ converted \in [Blocks -> Seq(S)] /\ Settled(cache) /\ (db # None => Settled(db))
      /\ Settled(metadata[t]) /\ b \in Blocks /\ Found(b, ss[t])
  BY <1>1, Zenon DEF Inv, Types, Maps, Working
<1>3. <<>> \in Seq(Nat) /\ "idle" \in Places /\ "idle" \notin Holding /\ "idle" # "fetch"
  BY DEF Places, Holding
<1> HIDE DEF b
<1>4. ss[t] = Senders(b) /\ \A i \in 1..Len(Kept(b)) : Resolved(b, i)
  <2>1. ss[t] \in Seq(Nat)
    BY <1>2, Zenon
  <2> QED
    BY <1>1, <1>2, <2>1, FoundAll, Zenon
<1>5. converted' = [converted EXCEPT ![b] = Append(converted[b], Converted(b))]
  BY <1>1, <1>4, Zenon DEF Converted
<1>6. Converted(b) \in S
  BY <1>2, Zenon
<1> HIDE DEF S
<1>7. converted[b] \in Seq(S) /\ Append(converted[b], Converted(b)) \in Seq(S)
  <2>1. converted[b] \in Seq(S)
    BY <1>2, Zenon
  <2> QED
    BY <1>6, <2>1
<1>8. /\ converted' \in [Blocks -> Seq(S)]
      /\ converted'[b] = Append(converted[b], Converted(b))
      /\ \A d \in Blocks : d # b => converted'[d] = converted[d]
  BY <1>2, <1>5, <1>7, Zenon
<1>9. Conversions'
  <2>1. ASSUME NEW d \in Blocks
        PROVE  /\ \A i \in DOMAIN converted'[d] : converted'[d][i] = Converted(d)
               /\ converted'[d] # <<>> => \A i \in 1..Len(Kept(d)) : Resolved(d, i)
    <3>1. CASE d # b
      BY <1>8, <3>1, Zenon DEF Inv, Conversions
    <3>2. CASE d = b
      <4>1. \A i \in DOMAIN converted[b] : converted[b][i] = Converted(b)
        BY <1>2, Zenon DEF Inv, Conversions
      <4> DEFINE old == converted[b]
                 c == Converted(b)
      <4>2. old \in Seq(S) /\ c \in S /\ \A i \in DOMAIN old : old[i] = c
        BY <1>6, <1>7, <4>1, Zenon
      <4> HIDE DEF old, c
      <4>3. \A i \in DOMAIN Append(old, c) : Append(old, c)[i] = c
        BY <4>2
      <4> QED
        BY <1>4, <1>8, <3>2, <4>3, Zenon DEF old, c
    <3> QED
      BY <3>1, <3>2, Zenon
  <2> QED
    BY <2>1, Zenon DEF Conversions
<1>10. Types'
  <2>1. /\ pc' \in [Threads -> Places] /\ block' \in [Threads -> Blocks \cup {None}]
        /\ ss' \in [Threads -> Seq(Nat)]
    BY <1>1, <1>2, <1>3, Zenon
  <2> QED
    BY <1>1, <1>8, <2>1, Zenon DEF Inv, Types, S
<1>11. pc'[t] = "idle" /\ \A u \in Threads : u # t =>
         /\ pc'[u] = pc[u] /\ block'[u] = block[u] /\ ss'[u] = ss[u]
         /\ metadata'[u] = metadata[u]
  BY <1>1, <1>2, Zenon
<1>12. /\ up' = up /\ Settled(cache') /\ (db' # None => Settled(db'))
       /\ Settled(metadata'[t]) /\ lock' = lock /\ cache' = cache
  BY <1>1, <1>2, Zenon
<1> QED
  BY <1>3, <1>9, <1>10, <1>11, <1>12, ThreadInv, ZenonT(30)

\* Every step keeps the invariant.
LEMMA NextInv ==
  ASSUME Inv, [Next]_vars
  PROVE  Inv'
<1>1. CASE UNCHANGED vars
  <2>1. /\ listed' = listed /\ up' = up /\ db' = db
        /\ UNCHANGED <<cache, lock, pc, block, ss, metadata, converted>>
    BY <1>1, Zenon DEF vars
  <2>2. listed \subseteq Tokens /\ up \in BOOLEAN /\ (db # None => Settled(db))
    BY Zenon DEF Inv, Types, Maps
  <2> QED
    BY <2>1, <2>2, OutsideInv, Zenon
<1>2. CASE Next
  BY <1>2, CommandsInv, RestartInv, BeginInv, TransactionInv, FetchInv, FinishInv, ZenonT(30)
     DEF Next, Step
<1> QED
  BY <1>1, <1>2, Zenon

\* The invariant holds throughout.
LEMMA AlwaysInv == Spec => []Inv
<1>1. Init => Inv
  BY InitInv, Zenon
<1>2. Inv /\ [Next]_vars => Inv'
  BY NextInv, Zenon
<1> QED
  BY <1>1, <1>2, PTL DEF Spec

--------------------------------------------------------------------------------
\* The theorems.

\* A thread asks the API only for a contract that the cache lacks and while no other
\* thread asks or is about to store an answer: reth_compat.rs looks again under the
\* lock.
THEOREM FetchesAreNeeded == Spec => []FetchIsNeeded
<1>1. Inv => FetchIsNeeded
  <2>1. ASSUME Inv, NEW t \in Threads, pc[t] = "fetch", NEW u \in Threads \ {t}
        PROVE  pc[u] \notin {"fetch", "store"}
    <3>1. lock = t
      BY <2>1, Zenon DEF Inv, Locked
    <3> QED
      BY <2>1, <3>1, Zenon DEF Inv, Locked
  <2>2. ASSUME Inv, NEW t \in Threads, pc[t] = "fetch"
        PROVE  ~ Known(cache, tx(t).to)
    BY <2>2, Zenon DEF Inv, Locked
  <2> QED
    BY <2>1, <2>2, Zenon DEF FetchIsNeeded
<1> QED
  BY <1>1, AlwaysInv, PTL

\* Whichever thread converts a block, and whatever the exchange had listed or the
\* node had stored when it did, the result is the same.
THEOREM AllConversionsAgree == Spec => []ConversionsAgree
<1>1. Inv => ConversionsAgree
  BY Zenon DEF Inv, Conversions, ConversionsAgree
<1> QED
  BY <1>1, AlwaysInv, PTL

\* The signers recovered from a converted block are the senders the source names, a
\* node without spot metadata that is served the block converts it to the same
\* block, and the receipts without gas count its system transactions.
THEOREM ConversionsAreFaithful == Spec => []ConversionIsFaithful
<1>1. ASSUME Inv, NEW b \in Blocks, NEW i \in DOMAIN converted[b]
      PROVE  converted[b][i] = Converted(b) /\ \A j \in 1..Len(Kept(b)) : Resolved(b, j)
  <2>1. converted[b] # <<>>
    <3>1. DOMAIN <<>> = {}
      OBVIOUS
    <3> QED
      BY <3>1, Zenon
  <2> QED
    BY <1>1, <2>1, Zenon DEF Inv, Conversions
<1>2. Inv => SenderIsRecovered
  BY <1>1, ConvertedSigners, ZenonT(30) DEF SenderIsRecovered
<1>3. Inv => ServedBlockIsTheBlock
  BY <1>1, ConvertedIsServed, Zenon DEF ServedBlockIsTheBlock
<1>4. Inv => SystemTxsAreCounted
  BY <1>1, ConvertedCounts, Zenon DEF SystemTxsAreCounted
<1>5. Inv => ConversionIsFaithful
  BY <1>2, <1>3, <1>4, Zenon DEF ConversionIsFaithful
<1> QED
  BY <1>5, AlwaysInv, PTL
================================================================================
