------------------------------ MODULE SignetAes ------------------------------
(***************************************************************************)
(* The AES helpers of the HC firmware (src/firmware-hc/signet_aes.c): one- *)
(* block encryption and decryption, xor_block, and CBC over n blocks, all  *)
(* working on caller buffers through pointers.                            *)
(*                                                                         *)
(* Memory is a function from block addresses to blocks; a pointer is a    *)
(* block address or NULL, so a caller may pass overlapping buffers.  The  *)
(* block cipher (nettle's aes128/aes256, not under src/) is a keyed       *)
(* permutation of the blocks, decryption its inverse.  The CBC loops are  *)
(* translated as RECURSIVE operators that read and write memory in the    *)
(* code's order, and are compared with the textbook definition of CBC     *)
(* over the blocks the call found in memory.                              *)
(***************************************************************************)
EXTENDS Integers, Sequences, Bitwise

CONSTANTS
    BlockBits,      \* bits of a block (128 in the code)
    Addrs,          \* number of block addresses of memory
    Keys,           \* key values
    MaxBlocks,      \* bound on n_blocks
    InPlaceDecrypt, \* callers may decrypt with dout = din
    NULL

ASSUME BlockBits \in Nat \ {0} /\ Addrs \in Nat \ {0} /\ MaxBlocks \in Nat
       /\ InPlaceDecrypt \in BOOLEAN

Blocks == 0..(2 ^ BlockBits - 1)
Addr == 0..(Addrs - 1)
Sizes == {128, 256}

\* The stand-in for AES: a permutation of the blocks for each key size and
\* key, and its inverse.
Cipher(bits, key, b) ==
    (b * (IF bits = 128 THEN 3 ELSE 5) + key + 1) % (2 ^ BlockBits)
Decipher(bits, key, c) == CHOOSE b \in Blocks : Cipher(bits, key, b) = c

VARIABLES
    mem,    \* the caller's buffers, one block per address
    last    \* history: the last call, its arguments, and the blocks it
            \* read before it ran

vars == <<mem, last>>

-----------------------------------------------------------------------------
(* The code, on a memory m.                                               *)

\* Mutant: the mask added instead of xored.
xor_block_add(src, mask, m) == IF mask = NULL THEN src ELSE src + m[mask]

\* xor_block(src, mask, dst) computes one block; a NULL mask copies.
\* Byte i of dst is written after byte i of mask is read, so dst == mask
\* computes the same block.
xor_block(src, mask, m) == IF mask = NULL THEN src ELSE src ^^ m[mask]

signet_aes_encrypt(bits, key, din, dout, m) ==
    [m EXCEPT ![dout] = Cipher(bits, key, m[din])]

signet_aes_decrypt(bits, key, din, dout, m) ==
    [m EXCEPT ![dout] = Decipher(bits, key, m[din])]

\* Mutant: the chain continues from the plaintext block (iv = din).
RECURSIVE EncryptCbcChainIn(_, _, _, _, _, _, _)
EncryptCbcChainIn(bits, key, n, iv, din, dout, m) ==
    IF n <= 0 THEN m
    ELSE LET temp == xor_block(m[din], iv, m)
         IN EncryptCbcChainIn(bits, key, n - 1, din, din + 1, dout + 1,
                              [m EXCEPT ![dout] = Cipher(bits, key, temp)])

\* The for loop of signet_aes_{128,256}_encrypt_cbc, one iteration per
\* call: temp = din ^ iv, dout = E(temp), then iv = dout and both
\* pointers move on a block.
RECURSIVE EncryptCbcLoop(_, _, _, _, _, _, _)
EncryptCbcLoop(bits, key, n, iv, din, dout, m) ==
    IF n <= 0 THEN m
    ELSE LET temp == xor_block(m[din], iv, m)
         IN EncryptCbcLoop(bits, key, n - 1, dout, din + 1, dout + 1,
                           [m EXCEPT ![dout] = Cipher(bits, key, temp)])

\* Mutant: the plaintext written back over the ciphertext (dst = din).
RECURSIVE DecryptCbcToIn(_, _, _, _, _, _, _)
DecryptCbcToIn(bits, key, n, iv, din, dout, m) ==
    IF n <= 0 THEN m
    ELSE LET temp == Decipher(bits, key, m[din])
         IN DecryptCbcToIn(bits, key, n - 1, din, din + 1, dout + 1,
                           [m EXCEPT ![din] = xor_block(temp, iv, m)])

\* signet_aes_{128,256}_decrypt_cbc: temp = D(din), dout = temp ^ iv,
\* then iv = din.
RECURSIVE DecryptCbcLoop(_, _, _, _, _, _, _)
DecryptCbcLoop(bits, key, n, iv, din, dout, m) ==
    IF n <= 0 THEN m
    ELSE LET temp == Decipher(bits, key, m[din])
         IN DecryptCbcLoop(bits, key, n - 1, din, din + 1, dout + 1,
                           [m EXCEPT ![dout] = xor_block(temp, iv, m)])

-----------------------------------------------------------------------------
(* The definition of CBC (NIST SP 800-38A) over sequences of blocks; a    *)
(* NULL iv is the zero block.                                             *)

RECURSIVE CbcEncrypted(_, _, _, _)
CbcEncrypted(bits, key, prev, p) ==
    IF p = <<>> THEN <<>>
    ELSE LET c == Cipher(bits, key, Head(p) ^^ prev)
         IN <<c>> \o CbcEncrypted(bits, key, c, Tail(p))

RECURSIVE CbcDecrypted(_, _, _, _)
CbcDecrypted(bits, key, prev, c) ==
    IF c = <<>> THEN <<>>
    ELSE <<Decipher(bits, key, Head(c)) ^^ prev>>
         \o CbcDecrypted(bits, key, Head(c), Tail(c))

-----------------------------------------------------------------------------
(* Calls.  A buffer of n blocks at p lies in memory; CBC's input and      *)
(* output do not overlap, or are the same buffer.                         *)

Region(p, n) == {p + j : j \in 0..(n - 1)}
Read(m, p, n) == [j \in 1..n |-> m[p + j - 1]]
Ptrs == Addr \cup {NULL}

Layout(dir, n, din, dout) ==
    /\ din + n <= Addrs /\ dout + n <= Addrs
    /\ \/ Region(din, n) \cap Region(dout, n) = {}
       \/ din = dout /\ (dir = "enc" \/ InPlaceDecrypt)

Called(dir, bits, key, n, iv, din, dout) ==
    last' = [dir |-> dir, bits |-> bits, key |-> key, n |-> n,
             din |-> din, dout |-> dout, input |-> Read(mem, din, n),
             ivBlock |-> IF iv = NULL THEN 0 ELSE mem[iv]]

\* signet_aes_{128,256}_encrypt_cbc and _decrypt_cbc.
CbcCall(dir, bits, key, n, iv, din, dout) ==
    /\ Layout(dir, n, din, dout)
    /\ mem' = IF dir = "enc" THEN EncryptCbcLoop(bits, key, n, iv, din, dout, mem)
                             ELSE DecryptCbcLoop(bits, key, n, iv, din, dout, mem)
    /\ Called(dir, bits, key, n, iv, din, dout)

\* signet_aes_{128,256}_encrypt and _decrypt on one block.
BlockCall(dir, bits, key, din, dout) ==
    /\ mem' = IF dir = "enc" THEN signet_aes_encrypt(bits, key, din, dout, mem)
                             ELSE signet_aes_decrypt(bits, key, din, dout, mem)
    /\ Called("block", bits, key, 1, NULL, din, dout)

XorCall(src, mask, dst) ==
    /\ mem' = [mem EXCEPT ![dst] = xor_block(mem[src], mask, mem)]
    /\ Called("xor", 128, 0, 1, mask, src, dst)

Init ==
    /\ mem \in [Addr -> Blocks]
    /\ last = [dir |-> "none", bits |-> 128, key |-> 0, n |-> 0, din |-> 0,
               dout |-> 0, input |-> <<>>, ivBlock |-> 0]

\* The helpers keep no state between calls (signet_aes_init is empty), so
\* one call from every memory reaches every case; the caller then stops.
Done == last.dir # "none" /\ UNCHANGED vars

Next ==
    \/ Done
    \/ last.dir = "none" /\ \E dir \in {"enc", "dec"}, bits \in Sizes, key \in Keys,
          din \in Addr, dout \in Addr :
           \/ \E n \in 0..MaxBlocks, iv \in Ptrs :
                  CbcCall(dir, bits, key, n, iv, din, dout)
           \/ BlockCall(dir, bits, key, din, dout)
           \/ \E mask \in Ptrs : XorCall(din, mask, dout)

Spec == Init /\ [][Next]_vars

-----------------------------------------------------------------------------
(* Properties.                                                            *)

TypeOK ==
    /\ mem \in [Addr -> Blocks]
    /\ last.dir \in {"none", "enc", "dec", "block", "xor"}

\* After a CBC call, its output buffer holds the CBC encryption (or
\* decryption) of the blocks its input buffer held, chained from the
\* block its iv pointed to: the loops chain on the right pointer although
\* iv, din and dout move and may share memory.
CbcMatchesReference ==
    last.dir \in {"enc", "dec"} =>
        Read(mem, last.dout, last.n) =
            IF last.dir = "enc"
            THEN CbcEncrypted(last.bits, last.key, last.ivBlock, last.input)
            ELSE CbcDecrypted(last.bits, last.key, last.ivBlock, last.input)

\* A call writes nothing outside its output buffer.
WritesOnlyOutput ==
    [][\A a \in Addr \ Region(last'.dout, last'.n) : mem'[a] = mem[a]]_vars

====
