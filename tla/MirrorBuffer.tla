---------------------------- MODULE MirrorBuffer ----------------------------
(***************************************************************************)
(* The decryption of mirrored video, libxmirror/lib/mirror_buffer.c.  The  *)
(* client encrypts the video payloads of one stream as one long AES-CTR    *)
(* stream; the receiver decrypts payload by payload, in whole cipher       *)
(* blocks, and keeps what is left of the last block's keystream in og for  *)
(* the next payload.                                                       *)
(*                                                                         *)
(* A byte is abstracted to its place: a keystream byte is its index in the *)
(* keystream, and `used' says which index each byte of the last payload    *)
(* was decrypted with.  History variables: stream (how often the cipher    *)
(* was initialised), start (the place of the last payload in the client's  *)
(* stream), total (bytes the client sent in it), short (a payload was      *)
(* shorter than what was left of the keystream).                           *)
(***************************************************************************)
EXTENDS Integers

CONSTANTS B,          (* AES block size in bytes, 16 in the source *)
          MaxLen,     (* bound: bytes in a payload                 *)
          MaxTotal    (* bound: bytes in a stream                  *)

ASSUME BAssumption == B \in Nat \ {0}
ASSUME BoundAssumption == MaxLen \in Nat /\ MaxTotal \in Nat

VARIABLES pos,               (* keystream bytes taken from aes_ctx *)
          nextDecryptCount, og,
          used, start, total, stream, short

vars == <<pos, nextDecryptCount, og, used, start, total, stream, short>>

NotKey == -1   (* a byte that is not keystream *)

Init ==   (* mirror_buffer_init, then mirror_buffer_init_aes of the first stream *)
  /\ pos = 0 /\ nextDecryptCount = 0 /\ og = [j \in 0 .. B - 1 |-> NotKey]
  /\ used = [i \in {} |-> NotKey] /\ start = 0 /\ total = 0
  /\ stream = 1 /\ short = FALSE

(* mirror_buffer_init_aes: a fresh cipher; the leftover stays. *)
InitAes ==
  /\ stream < 2
  /\ stream' = stream + 1
  /\ pos' = 0
  /\ total' = 0 /\ start' = 0
  /\ used' = [i \in {} |-> NotKey]
  /\ UNCHANGED <<nextDecryptCount, og, short>>

(* Quotient and remainder of inputLen - nextDecryptCount as C computes them: *)
(* both round towards zero.                                                 *)
EncryptLen(n) == IF n < nextDecryptCount THEN 0 ELSE ((n - nextDecryptCount) \div B) * B

RestLen(n) == IF n < nextDecryptCount THEN n - nextDecryptCount
              ELSE (n - nextDecryptCount) % B

(* Mutant: the leftover is read from the front of og. *)
FrontOfOg(i) == og[i]
LeftOver(i) == og[(B - nextDecryptCount) + i]

KeepCount(n) == IF RestLen(n) > 0 THEN B - RestLen(n) ELSE 0

(* Which keystream byte each byte of the payload meets: the leftover, then *)
(* whole blocks, then the front of one more block.                         *)
KeyOf(n) ==
  [i \in 0 .. n - 1 |->
     IF i < nextDecryptCount THEN LeftOver(i) ELSE pos + (i - nextDecryptCount)]

(* mirror_buffer_decrypt of a payload of n bytes. *)
Decrypt(n) ==
  /\ total + n <= MaxTotal
  /\ used' = KeyOf(n)
  /\ start' = total
  /\ total' = total + n
  /\ nextDecryptCount' = KeepCount(n)
  /\ IF RestLen(n) > 0
     THEN /\ og' = [j \in 0 .. B - 1 |->
                      IF j < RestLen(n) THEN NotKey ELSE pos + EncryptLen(n) + j]
          /\ pos' = pos + EncryptLen(n) + B
     ELSE /\ og' = og
          /\ pos' = pos + EncryptLen(n)
  /\ short' = (short \/ n < nextDecryptCount)
  /\ UNCHANGED stream

Next == InitAes \/ \E n \in 0 .. MaxLen : Decrypt(n)

Spec == Init /\ [][Next]_vars
-----------------------------------------------------------------------------
(* While the stream is the buffer's first and no payload was shorter than *)
(* the leftover, nothing has upset the receiver's place in the keystream. *)
Undisturbed == stream = 1 /\ ~short

TypeOK ==
  /\ pos \in Nat /\ start \in Nat /\ total \in Nat
  /\ nextDecryptCount \in 0 .. B - 1
  /\ og \in [0 .. B - 1 -> Int]
  /\ stream \in {1, 2} /\ short \in BOOLEAN

(* Every byte of a payload is decrypted with the keystream byte it was *)
(* encrypted with: the receiver never slips against the client.        *)
InStep == Undisturbed => \A i \in DOMAIN used : used[i] = start + i

(* Between two payloads the receiver is ahead by exactly what it keeps, and *)
(* what it keeps is the end of the last block.                              *)
LeftOverIsNext ==
  Undisturbed =>
    /\ pos = total + nextDecryptCount
    /\ \A j \in B - nextDecryptCount .. B - 1 : og[j] = pos - B + j

(* The cipher is only ever asked for whole blocks, so aes_ctr_start_fresh_block *)
(* has nothing to waste; otherwise its state and ours would disagree.           *)
WholeBlocks == pos % B = 0
=============================================================================
