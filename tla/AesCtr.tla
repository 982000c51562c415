------------------------------- MODULE AesCtr -------------------------------
(***************************************************************************)
(* The key stream of WinZip's AES-CTR variant (src/aes_ctr.rs): blocks of  *)
(* AES_BLOCK_SIZE bytes made from a counter, used up in whatever portions  *)
(* the data arrives in.                                                    *)
(*                                                                         *)
(* The cipher is a function of the key and the counter, so a byte of the   *)
(* key stream is named by the counter its block was made from and its      *)
(* place in that block: <<counter, place>>.                                *)
(***************************************************************************)
EXTENDS Integers, Sequences

CONSTANT AES_BLOCK_SIZE

ASSUME BlockSizeAssumption == AES_BLOCK_SIZE \in Nat \ {0}

\* AesCtrZipKeyStream: `block' is the counter that `buffer' was made from.
NewKeyStream == [counter |-> 1, block |-> 0, pos |-> AES_BLOCK_SIZE]

\* A slip: the counter of the next block is taken after it is advanced.
RefillLate(ks) ==
    IF ks.pos = AES_BLOCK_SIZE
    THEN [counter |-> ks.counter + 1, block |-> ks.counter + 1, pos |-> 0]
    ELSE ks

Refill(ks) ==
    IF ks.pos = AES_BLOCK_SIZE
    THEN [counter |-> ks.counter + 1, block |-> ks.counter, pos |-> 0]
    ELSE ks

\* One round of crypt_in_place's loop with `left' bytes to go: at most what
\* the block still has.  `used' collects the key bytes the data was XORed with.
TargetLen(ks, left) ==
    IF left < AES_BLOCK_SIZE - ks.pos THEN left ELSE AES_BLOCK_SIZE - ks.pos

KeyBytes(ks, n) == [i \in 1..n |-> <<ks.block, ks.pos + i - 1>>]

Round(st) ==
    LET ks == Refill(st.ks)
        n  == TargetLen(ks, st.left)
    IN  [ks |-> [ks EXCEPT !.pos = @ + n], left |-> st.left - n,
         used |-> st.used \o KeyBytes(ks, n)]

\* crypt_in_place on a target of n bytes: rounds until nothing is left, of
\* which there are at most n.
CryptInPlace(ks, n) ==
    LET rounds[i \in 0..n] ==
          IF i = 0 THEN [ks |-> ks, left |-> n, used |-> << >>]
          ELSE IF rounds[i - 1].left = 0 THEN rounds[i - 1]
          ELSE Round(rounds[i - 1])
    IN  rounds[n]

\* Which key byte the i-th byte of the data meets, however it is cut up.
KeyAt(i) == <<1 + (i - 1) \div AES_BLOCK_SIZE, (i - 1) % AES_BLOCK_SIZE>>

\* How many bytes of the stream have been used up.
Used(ks) == (ks.counter - 2) * AES_BLOCK_SIZE + ks.pos
=============================================================================
