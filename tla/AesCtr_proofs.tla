--------------------------- MODULE AesCtr_proofs ----------------------------
(***************************************************************************)
(* The key stream is the same for every way of cutting up the data.        *)
(***************************************************************************)
EXTENDS AesCtr, Vectors_proofs

\* The buffer was made from the counter before the current one, and nothing of
\* it is used again.
KeyStreamOK(ks) ==
    /\ ks \in [counter : Nat \ {0}, block : Nat, pos : 0..AES_BLOCK_SIZE]
    /\ ks.block = ks.counter - 1
    /\ ks.counter = 1 => ks.pos = AES_BLOCK_SIZE

\* The bytes there are: a counter and a place in its block.
KeyByte == Nat \X (0..AES_BLOCK_SIZE - 1)

\* The loop of crypt_in_place, called on n bytes at place u of the stream,
\* with st.left of them to go.
InStep(st, u, n) ==
    /\ st = [ks |-> st.ks, left |-> st.left, used |-> st.used]
    /\ KeyStreamOK(st.ks) /\ st.left \in 0..n /\ st.used \in Seq(KeyByte)
    /\ Len(st.used) = n - st.left /\ Used(st.ks) = u + n - st.left
    /\ \A i \in 1..n - st.left : st.used[i] = KeyAt(u + i)

\* The quotient and the remainder of a number that is put together from them.
LEMMA PutTogether ==
    ASSUME NEW b \in Nat \ {0}, NEW q \in Nat, NEW r \in 0..b - 1
    PROVE  (q * b + r) \div b = q /\ (q * b + r) % b = r
<1> DEFINE d == (q * b + r) \div b
           m == (q * b + r) % b
<1>1. q * b + r \in Nat
  OBVIOUS
<1>2. d \in Int /\ m \in 0..b - 1 /\ q * b + r = b * d + m
  BY <1>1
<1> HIDE DEF d, m
<1>3. ASSUME d < q PROVE FALSE
  <2>1. b * (d + 1) <= b * q
    BY <1>2, <1>3
  <2> QED
    BY <1>2, <2>1
<1>4. ASSUME d > q PROVE FALSE
  <2>1. b * (q + 1) <= b * d
    BY <1>2, <1>4
  <2> QED
    BY <1>2, <2>1
<1>5. d = q
  BY <1>2, <1>3, <1>4
<1>6. m = r
  BY <1>2, <1>5
<1> QED
  BY <1>5, <1>6 DEF d, m

\* A refill leaves the place in the stream where it was, with a block to go on.
LEMMA RefillInPlace ==
    ASSUME NEW ks, KeyStreamOK(ks)
    PROVE  /\ KeyStreamOK(Refill(ks)) /\ Used(Refill(ks)) = Used(ks)
           /\ Refill(ks).counter - 2 \in Nat
           /\ Refill(ks).pos \in 0..AES_BLOCK_SIZE - 1
<1> USE BlockSizeAssumption
<1> DEFINE b == AES_BLOCK_SIZE
           c == ks.counter
<1>1. CASE ks.pos = AES_BLOCK_SIZE
  <2>1. Refill(ks) = [counter |-> c + 1, block |-> c, pos |-> 0]
    BY <1>1 DEF Refill
  <2>2. c \in Nat \ {0} /\ ks.block = c - 1
    BY DEF KeyStreamOK
  <2>3. KeyStreamOK(Refill(ks))
    BY <2>1, <2>2 DEF KeyStreamOK
  <2>4. Used(Refill(ks)) = (c - 1) * b + 0 /\ Used(ks) = (c - 2) * b + b
    BY <1>1, <2>1, <2>2 DEF Used
  <2>5. (c - 2) * b + b = (c - 1) * b
    BY <2>2
  <2> QED
    BY <2>1, <2>2, <2>3, <2>4, <2>5
<1>2. CASE ks.pos # AES_BLOCK_SIZE
  <2>1. Refill(ks) = ks
    BY <1>2 DEF Refill
  <2> QED
    BY <1>2, <2>1 DEF KeyStreamOK
<1> QED
  BY <1>1, <1>2

\* The key bytes of a round are those at their places in the stream.
LEMMA KeyBytesInPlace ==
    ASSUME NEW ks, KeyStreamOK(ks), ks.counter - 2 \in Nat,
           NEW n \in Nat, ks.pos + n <= AES_BLOCK_SIZE
    PROVE  /\ KeyBytes(ks, n) \in Seq(KeyByte)
           /\ Len(KeyBytes(ks, n)) = n
           /\ \A i \in 1..n : KeyBytes(ks, n)[i] = KeyAt(Used(ks) + i)
<1> USE BlockSizeAssumption
<1> DEFINE b == AES_BLOCK_SIZE
           q == ks.counter - 2
<1>1. q \in Nat /\ ks.block = q + 1 /\ ks.pos \in Nat /\ ks.block \in Nat
  BY DEF KeyStreamOK
<1>2. ASSUME NEW i \in 1..n
      PROVE  /\ KeyBytes(ks, n)[i] \in KeyByte
             /\ KeyBytes(ks, n)[i] = KeyAt(Used(ks) + i)
  <2> DEFINE r == ks.pos + i - 1
  <2>1. r \in 0..b - 1
    BY <1>1
  <2>2. KeyBytes(ks, n)[i] = <<ks.block, r>>
    BY DEF KeyBytes
  <2>3. Used(ks) \in Int /\ Used(ks) + i - 1 = q * b + r
    BY <1>1 DEF Used
  <2>4. (q * b + r) \div b = q /\ (q * b + r) % b = r
    <3> HIDE DEF q, r
    <3> QED
      BY <1>1, <2>1, PutTogether
  <2>5. KeyAt(Used(ks) + i) = <<1 + (q * b + r) \div b, (q * b + r) % b>>
    <3> DEFINE j == Used(ks) + i
    <3>1. j - 1 = q * b + r
      BY <2>3
    <3> HIDE DEF j
    <3>2. KeyAt(j) = <<1 + (j - 1) \div b, (j - 1) % b>>
      BY Zenon DEF KeyAt
    <3>3. KeyAt(j) = <<1 + (q * b + r) \div b, (q * b + r) % b>>
      BY <3>1, <3>2
    <3> QED
      BY <3>3 DEF j
  <2>6. KeyBytes(ks, n)[i] \in KeyByte
    <3> HIDE DEF r
    <3> QED
      BY <1>1, <2>1, <2>2 DEF KeyByte
  <2>7. KeyBytes(ks, n)[i] = KeyAt(Used(ks) + i)
    <3> HIDE DEF q, r
    <3> QED
      BY <1>1, <2>2, <2>4, <2>5
  <2> QED
    BY <2>6, <2>7
<1>3. KeyBytes(ks, n) = [i \in 1..n |-> KeyBytes(ks, n)[i]]
  BY DEF KeyBytes
<1>4. KeyBytes(ks, n) \in [1..n -> KeyByte]
  BY <1>2, <1>3
<1>5. KeyBytes(ks, n) \in Seq(KeyByte) /\ Len(KeyBytes(ks, n)) = n
  <2> DEFINE key == KeyBytes(ks, n)
  <2> HIDE DEF key
  <2> QED
    BY <1>4
<1> QED
  BY <1>2, <1>5

\* A place in the stream is a number.
LEMMA UsedIsNat == ASSUME NEW ks, KeyStreamOK(ks) PROVE Used(ks) \in Nat
<1> USE BlockSizeAssumption
<1>1. ks.counter \in Nat \ {0} /\ ks.pos \in 0..AES_BLOCK_SIZE
  BY DEF KeyStreamOK
<1>2. CASE ks.counter = 1
  BY <1>1, <1>2 DEF KeyStreamOK, Used
<1>3. CASE ks.counter # 1
  <2>1. ks.counter - 2 \in Nat
    BY <1>1, <1>3
  <2>2. (ks.counter - 2) * AES_BLOCK_SIZE \in Nat
    BY <2>1
  <2> QED
    BY <1>1, <2>2 DEF Used
<1> QED
  BY <1>2, <1>3

\* A round: whatever was used before it, the stream goes on behind it, and
\* there are fewer bytes to go.
LEMMA RoundKeepsStep ==
    ASSUME NEW u \in Nat, NEW n \in Nat, NEW st, InStep(st, u, n), st.left # 0
    PROVE  InStep(Round(st), u, n) /\ Round(st).left < st.left
<1> USE BlockSizeAssumption
<1> DEFINE b  == AES_BLOCK_SIZE
           ks == Refill(st.ks)
           k  == TargetLen(ks, st.left)
           m  == Len(st.used)
           key == KeyBytes(ks, k)
           r  == Round(st)
<1>1. /\ KeyStreamOK(ks) /\ Used(ks) = u + m
      /\ ks.counter - 2 \in Nat /\ ks.pos \in 0..b - 1
  <2>1. KeyStreamOK(st.ks) /\ st.left \in 0..n
    BY DEF InStep
  <2>2. Used(st.ks) = u + m
    BY <2>1 DEF InStep
  <2> QED
    BY <2>1, <2>2, RefillInPlace
<1>2. /\ st.left \in Nat \ {0} /\ st.left <= n /\ st.used \in Seq(KeyByte)
      /\ m \in Nat /\ m = n - st.left
  BY DEF InStep
<1>3. k \in Nat /\ k \in 1..st.left /\ ks.pos + k <= b
  <2> DEFINE p == ks.pos
             l == st.left
  <2>1. p \in 0..b - 1 /\ l \in Nat \ {0}
    BY <1>1, <1>2
  <2>2. k = IF l < b - p THEN l ELSE b - p
    BY DEF TargetLen
  <2> HIDE DEF p, l, k
  <2>3. k \in Nat /\ k \in 1..l /\ p + k <= b
    BY <2>1, <2>2
  <2> QED
    BY <2>3 DEF p, l
<1>4. r = [ks |-> [ks EXCEPT !.pos = @ + k], left |-> st.left - k,
           used |-> st.used \o key]
  BY DEF Round
<1>5. /\ key \in Seq(KeyByte) /\ Len(key) = k
      /\ \A i \in 1..k : key[i] = KeyAt(u + m + i)
  BY <1>1, <1>3, KeyBytesInPlace, SMTT(30)
<1>7. /\ st.used \o key \in Seq(KeyByte) /\ Len(st.used \o key) = m + k
      /\ \A i \in 1..m + k : (st.used \o key)[i] =
            IF i <= m THEN st.used[i] ELSE key[i - m]
  <2> DEFINE s == st.used
  <2>1. s \in Seq(KeyByte) /\ key \in Seq(KeyByte)
    BY <1>2, <1>5
  <2>2. Len(s) = m /\ Len(key) = k
    BY <1>5
  <2> HIDE DEF s, m, k, key
  <2>3. /\ s \o key \in Seq(KeyByte) /\ Len(s \o key) = Len(s) + Len(key)
        /\ \A i \in 1..Len(s) + Len(key) : (s \o key)[i] =
              IF i <= Len(s) THEN s[i] ELSE key[i - Len(s)]
    BY <2>1, ConcatProperties
  <2> QED
    BY <2>2, <2>3 DEF s
<1>a. m \in Nat /\ k \in Nat
  BY <1>2, <1>3
<1>b. Len(st.used) = m /\ st.used \in Seq(KeyByte)
  BY <1>2
<1> HIDE DEF key, k, ks, r, m
<1>6. KeyStreamOK(r.ks) /\ Used(r.ks) = u + m + k
  <2>1. /\ ks \in [counter : Nat \ {0}, block : Nat, pos : 0..b]
        /\ ks.block = ks.counter - 1 /\ ks.counter # 1
    BY <1>1 DEF KeyStreamOK
  <2>2. k \in Nat
    BY <1>2, <1>3
  <2>3. r.ks = [counter |-> ks.counter, block |-> ks.block, pos |-> ks.pos + k]
    BY <1>4, <2>1
  <2>4. KeyStreamOK(r.ks)
    BY <1>1, <1>3, <2>1, <2>2, <2>3 DEF KeyStreamOK
  <2> DEFINE before == (ks.counter - 2) * b
  <2>5. before \in Int
    BY <2>1
  <2>6. Used(ks) = before + ks.pos /\ Used(r.ks) = before + (ks.pos + k)
    BY <2>3 DEF Used
  <2> HIDE DEF before
  <2> QED
    BY <1>1, <1>2, <2>1, <2>2, <2>4, <2>5, <2>6, SMTT(30)
<1>8. \A i \in 1..m + k : (st.used \o key)[i] = KeyAt(u + i)
  <2> SUFFICES ASSUME NEW i \in 1..m + k PROVE (st.used \o key)[i] = KeyAt(u + i)
    OBVIOUS
  <2>1. CASE i <= m
    BY <1>2, <1>3, <1>7, <2>1 DEF InStep
  <2>2. CASE ~(i <= m)
    <3>1. i - m \in 1..k
      BY <1>a, <2>2
    <3>2. u + m + (i - m) = u + i
      BY <1>a
    <3> QED
      BY <1>5, <1>7, <2>2, <3>1, <3>2
  <2> QED
    BY <2>1, <2>2
<1>9. /\ r = [ks |-> r.ks, left |-> r.left, used |-> r.used]
      /\ r.left = st.left - k /\ r.used = st.used \o key
  BY <1>4
<1>10. r.left \in 0..n /\ r.left < st.left /\ n - r.left = m + k
  BY <1>2, <1>3, <1>9
<1>11. InStep(r, u, n)
  <2>1. r.left \in Nat /\ m + k = n - r.left
    BY <1>10
  <2>2. u + n - r.left = u + m + k
    BY <1>a, <2>1
  <2>3. r.used \in Seq(KeyByte) /\ Len(r.used) = n - r.left
    BY <1>7, <1>9, <2>1
  <2>4. Used(r.ks) = u + n - r.left
    BY <1>6, <2>2
  <2>5. \A i \in 1..n - r.left : r.used[i] = KeyAt(u + i)
    BY <1>8, <1>9, <2>1
  <2> QED
    BY <1>6, <1>9, <1>10, <2>3, <2>4, <2>5, Zenon DEF InStep
<1> QED
  BY <1>10, <1>11 DEF r

\* The rounds of one call, as crypt_in_place's recursion defines them.
IsRounds(rounds, ks, n, m) ==
    rounds = [i \in 0..m |->
                IF i = 0 THEN [ks |-> ks, left |-> n, used |-> << >>]
                ELSE IF rounds[i - 1].left = 0 THEN rounds[i - 1]
                ELSE Round(rounds[i - 1])]

LEMMA RoundsExist ==
    ASSUME NEW ks, NEW n \in Nat
    PROVE  \E rounds : IsRounds(rounds, ks, n, n)
<1> DEFINE S == {m \in Nat : \E rounds : IsRounds(rounds, ks, n, m)}
<1>1. 0 \in S
  <2> DEFINE g == [i \in 0..0 |-> [ks |-> ks, left |-> n, used |-> << >>]]
  <2>1. IsRounds(g, ks, n, 0)
    BY DEF IsRounds
  <2> QED
    BY <2>1
<1>2. ASSUME NEW m \in Nat, m \in S PROVE m + 1 \in S
  <2>1. PICK g : IsRounds(g, ks, n, m)
    BY <1>2
  <2> DEFINE last == IF g[m].left = 0 THEN g[m] ELSE Round(g[m])
             h == [i \in 0..m + 1 |-> IF i = m + 1 THEN last ELSE g[i]]
  <2>2. ASSUME NEW i \in 0..m + 1
        PROVE  h[i] = IF i = 0 THEN [ks |-> ks, left |-> n, used |-> << >>]
                      ELSE IF h[i - 1].left = 0 THEN h[i - 1] ELSE Round(h[i - 1])
    <3>1. CASE i = m + 1
      <4>1. h[i] = last /\ h[i - 1] = g[m] /\ i # 0
        BY <3>1
      <4> HIDE DEF h
      <4> QED
        BY <4>1
    <3>2. CASE i # m + 1
      <4>1. /\ i \in 0..m /\ h[i] = g[i]
            /\ i # 0 => h[i - 1] = g[i - 1]
        BY <3>2
      <4> HIDE DEF h
      <4>2. g[i] = IF i = 0 THEN [ks |-> ks, left |-> n, used |-> << >>]
                   ELSE IF g[i - 1].left = 0 THEN g[i - 1] ELSE Round(g[i - 1])
        BY <2>1, <4>1 DEF IsRounds
      <4> QED
        BY <4>1, <4>2
    <3> QED
      BY <3>1, <3>2
  <2>3. h = [i \in 0..m + 1 |-> h[i]]
    OBVIOUS
  <2> HIDE DEF h
  <2>4. IsRounds(h, ks, n, m + 1)
    BY <2>2, <2>3 DEF IsRounds
  <2> QED
    BY <2>4
<1> HIDE DEF S
<1>3. n \in S
  BY <1>1, <1>2, Induction
<1> QED
  BY <1>3 DEF S

\* crypt_in_place on n bytes at place Used(ks) of the stream: the loop ends,
\* each byte meets the key byte of its place, and the stream is n bytes on.
THEOREM CryptInPlaceInStep ==
    ASSUME NEW ks, KeyStreamOK(ks), NEW n \in Nat
    PROVE  LET r == CryptInPlace(ks, n) IN
           /\ r.left = 0 /\ KeyStreamOK(r.ks) /\ Used(r.ks) = Used(ks) + n
           /\ Len(r.used) = n
           /\ \A i \in 1..n : r.used[i] = KeyAt(Used(ks) + i)
<1> DEFINE rounds[i \in 0..n] ==
             IF i = 0 THEN [ks |-> ks, left |-> n, used |-> << >>]
             ELSE IF rounds[i - 1].left = 0 THEN rounds[i - 1]
             ELSE Round(rounds[i - 1])
           u == Used(ks)
<1>1. IsRounds(rounds, ks, n, n)
  <2>1. rounds = CHOOSE g : IsRounds(g, ks, n, n)
    BY DEF IsRounds
  <2> HIDE DEF rounds
  <2> QED
    BY <2>1, RoundsExist, Zenon
<1>2. CryptInPlace(ks, n) = rounds[n]
  BY DEF CryptInPlace
<1>3. u \in Nat
  BY UsedIsNat
<1> HIDE DEF rounds, u
<1> DEFINE S == {m \in Nat : m <= n =>
                   InStep(rounds[m], u, n) /\ rounds[m].left <= n - m}
<1>4. 0 \in S
  <2>1. rounds[0] = [ks |-> ks, left |-> n, used |-> << >>]
    BY <1>1 DEF IsRounds
  <2>2. InStep(rounds[0], u, n)
    BY <1>3, <2>1 DEF InStep, u
  <2> QED
    BY <2>1, <2>2
<1>5. ASSUME NEW m \in Nat, m \in S PROVE m + 1 \in S
  <2> SUFFICES ASSUME m + 1 <= n
               PROVE  /\ InStep(rounds[m + 1], u, n)
                      /\ rounds[m + 1].left <= n - (m + 1)
    OBVIOUS
  <2>1. InStep(rounds[m], u, n) /\ rounds[m].left <= n - m
    BY <1>5
  <2>2. rounds[m].left \in 0..n
    BY <2>1 DEF InStep
  <2>3. rounds[m + 1] = IF rounds[m].left = 0 THEN rounds[m] ELSE Round(rounds[m])
    <3> DEFINE j == m + 1
    <3>1. j \in 0..n /\ j # 0 /\ j - 1 = m
      OBVIOUS
    <3> HIDE DEF j
    <3>2. rounds[j] = IF rounds[j - 1].left = 0 THEN rounds[j - 1]
                      ELSE Round(rounds[j - 1])
      BY <1>1, <3>1 DEF IsRounds
    <3>3. rounds[j] = IF rounds[m].left = 0 THEN rounds[m] ELSE Round(rounds[m])
      BY <3>1, <3>2
    <3> QED
      BY <3>3 DEF j
  <2>4. CASE rounds[m].left = 0
    BY <2>1, <2>3, <2>4
  <2>5. CASE rounds[m].left # 0
    <3> DEFINE st == rounds[m]
               r  == Round(st)
    <3>1. InStep(r, u, n) /\ r.left < st.left
      <4> HIDE DEF st
      <4> QED
        BY <1>3, <2>1, <2>5, RoundKeepsStep DEF st
    <3>2. r.left \in 0..n
      BY <3>1 DEF InStep
    <3>3. rounds[m + 1] = r
      BY <2>3, <2>5
    <3> HIDE DEF r
    <3> QED
      BY <2>1, <2>2, <3>1, <3>2, <3>3
  <2> QED
    BY <2>4, <2>5
<1> HIDE DEF S
<1>6. n \in S
  BY <1>4, <1>5, Induction
<1>7. InStep(rounds[n], u, n) /\ rounds[n].left <= n - n
  BY <1>6 DEF S
<1>8. rounds[n].left = 0
  BY <1>7 DEF InStep
<1>9. KeyStreamOK(rounds[n].ks) /\ Len(rounds[n].used) = n
  BY <1>7, <1>8 DEF InStep
<1>10. /\ Used(rounds[n].ks) = u + n
       /\ \A i \in 1..n : rounds[n].used[i] = KeyAt(u + i)
  BY <1>3, <1>7, <1>8 DEF InStep
<1> QED
  BY <1>2, <1>8, <1>9, <1>10 DEF u

\* Data decrypted in portions is decrypted as a whole is: for every block
\* size and number of portions, of whatever lengths, each byte of each portion
\* meets the key byte of its place in the entry (aes_ctr.rs 108-134).
THEOREM PortionsInStep ==
    ASSUME NEW n \in Nat, NEW len \in [1..n -> Nat],
           NEW ks, ks[0] = NewKeyStream,
           \A i \in 1..n : ks[i] = CryptInPlace(ks[i - 1], len[i]).ks,
           NEW at, at[0] = 0, \A i \in 1..n : at[i] = at[i - 1] + len[i]
    PROVE  \A i \in 1..n : \A j \in 1..len[i] :
             CryptInPlace(ks[i - 1], len[i]).used[j] = KeyAt(at[i - 1] + j)
<1> DEFINE S == {m \in Nat : m <= n => KeyStreamOK(ks[m]) /\ Used(ks[m]) = at[m]}
<1>1. 0 \in S
  BY BlockSizeAssumption DEF NewKeyStream, KeyStreamOK, Used
<1>2. ASSUME NEW m \in Nat, m \in S PROVE m + 1 \in S
  <2> SUFFICES ASSUME m + 1 <= n
               PROVE  KeyStreamOK(ks[m + 1]) /\ Used(ks[m + 1]) = at[m + 1]
    OBVIOUS
  <2> DEFINE j == m + 1
  <2>1. j \in 1..n /\ j - 1 = m /\ len[j] \in Nat
    OBVIOUS
  <2>2. KeyStreamOK(ks[m]) /\ Used(ks[m]) = at[m]
    BY <1>2
  <2> HIDE DEF j
  <2>3. ks[j] = CryptInPlace(ks[m], len[j]).ks /\ at[j] = at[m] + len[j]
    BY <2>1
  <2>4. KeyStreamOK(ks[j]) /\ Used(ks[j]) = at[j]
    <3> DEFINE l == len[j]
               k == ks[m]
    <3>1. KeyStreamOK(k) /\ l \in Nat
      BY <2>1, <2>2
    <3>2. ks[j] = CryptInPlace(k, l).ks /\ at[j] = Used(k) + l
      BY <2>2, <2>3
    <3> HIDE DEF k, l
    <3>3. /\ KeyStreamOK(CryptInPlace(k, l).ks)
          /\ Used(CryptInPlace(k, l).ks) = Used(k) + l
      BY <3>1, CryptInPlaceInStep
    <3> QED
      BY <3>2, <3>3
  <2> QED
    BY <2>4 DEF j
<1>3. ASSUME NEW m \in Nat PROVE m \in S
  <2> HIDE DEF S
  <2> QED
    BY <1>1, <1>2, Induction
<1>4. ASSUME NEW i \in 1..n, NEW j \in 1..len[i]
      PROVE  CryptInPlace(ks[i - 1], len[i]).used[j] = KeyAt(at[i - 1] + j)
  <2>1. i - 1 \in Nat /\ i - 1 <= n /\ len[i] \in Nat
    OBVIOUS
  <2>2. KeyStreamOK(ks[i - 1]) /\ Used(ks[i - 1]) = at[i - 1]
    BY <1>3, <2>1
  <2> DEFINE l == len[i]
             k == ks[i - 1]
  <2>3. KeyStreamOK(k) /\ l \in Nat /\ j \in 1..l /\ Used(k) = at[i - 1]
    BY <2>1, <2>2
  <2> HIDE DEF k, l
  <2>4. CryptInPlace(k, l).used[j] = KeyAt(Used(k) + j)
    BY <2>3, CryptInPlaceInStep
  <2> QED
    BY <2>3, <2>4 DEF k, l
<1> QED
  BY <1>4
=============================================================================
