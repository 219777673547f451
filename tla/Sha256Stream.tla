---------------------------- MODULE Sha256Stream ----------------------------
(*****************************************************************************)
(* sha256_file and the buffering of the class Sha256: which blocks are given *)
(* to transform, in which order.  What transform makes of a block is left    *)
(* out.  A byte of the file stands for its place in the file.                *)
(*****************************************************************************)
EXTENDS Integers, Sequences

CONSTANTS BlockSize,    \* 64: bytes in a block
          LengthBytes,  \* 8: bytes that hold the length
          ChunkSize,    \* 65536: bytes read at once
          MaxBytes      \* bound: bytes in a file

ASSUME ShaAssumption == /\ BlockSize \in Nat /\ LengthBytes \in 1..BlockSize - 1
                        /\ ChunkSize \in Nat \ {0} /\ MaxBytes \in Nat

VARIABLES left,     \* the bytes of the file that have not been read
          buffer,   \* buffer_, with what is left in it from earlier blocks
          filled,   \* buffer_size_
          total,    \* total_bytes_
          blocks,   \* the blocks transformed
          outcome   \* of sha256_file

shaVars == <<left, buffer, filled, total, blocks, outcome>>

-----------------------------------------------------------------------------
Data(n) == <<"data", n>>

Zero == <<"zero", 0>>

Mark == <<"mark", 0>>

\* The n-th byte of the length of that many bytes.
LengthByte(bytes, n) == <<"length", bytes, n>>

ShaInit == /\ left \in 0..MaxBytes
           /\ buffer = [i \in 1..BlockSize |-> Zero]
           /\ filled = 0
           /\ total = 0
           /\ blocks = <<>>
           /\ outcome = "reading"

\* copy_n to the buffer, from its place at on.
Copied(bytes, at) ==
    [i \in 1..BlockSize |-> IF i \in at + 1 .. at + Len(bytes) THEN bytes[i - at] ELSE buffer[i]]

\* The whole blocks of a sequence of bytes, and what is left of it.
WholeBlocks(bytes) == [i \in 1..(Len(bytes) \div BlockSize) |->
                          SubSeq(bytes, (i - 1) * BlockSize + 1, i * BlockSize)]

Rest(bytes) == SubSeq(bytes, Len(bytes) - (Len(bytes) % BlockSize) + 1, Len(bytes))

\* update: the buffer is filled up first, whole blocks are not copied.
Update(bytes) ==
    LET copied == IF filled = 0 THEN 0
                  ELSE IF Len(bytes) < BlockSize - filled THEN Len(bytes)
                  ELSE BlockSize - filled
        begun  == Copied(SubSeq(bytes, 1, copied), filled)
        after  == SubSeq(bytes, copied + 1, Len(bytes))
        full   == filled + copied = BlockSize
    IN  /\ total' = total + Len(bytes)
        /\ blocks' = blocks \o (IF full THEN <<begun>> ELSE <<>>) \o WholeBlocks(after)
        /\ IF Rest(after) # <<>>
           THEN /\ buffer' = [i \in 1..BlockSize |->
                                 IF i <= Len(Rest(after)) THEN Rest(after)[i] ELSE begun[i]]
                /\ filled' = Len(Rest(after))
           ELSE buffer' = begun /\ filled' = IF full THEN 0 ELSE filled + copied

\* A read gives a whole chunk until the file ends.
ReadChunk ==
    /\ outcome = "reading"
    /\ left > 0
    /\ LET count == IF left < ChunkSize THEN left ELSE ChunkSize
       IN  /\ Update([i \in 1..count |-> Data(total + i)])
           /\ left' = left - count
    /\ UNCHANGED outcome

ReadFails == /\ outcome = "reading"
             /\ outcome' = "failed"
             /\ UNCHANGED <<left, buffer, filled, total, blocks>>

\* Whether the length finds no room behind the mark.
NeedsBlock(size) == size > BlockSize - LengthBytes

\* Variant: what the buffer holds is not cleared.
Kept(bytes, from, to) == bytes

Cleared(bytes, from, to) == [i \in 1..BlockSize |-> IF i \in from..to THEN Zero ELSE bytes[i]]

\* finish.
Finish ==
    /\ outcome = "reading"
    /\ left = 0
    /\ LET marked == Copied(<<Mark>>, filled)
           more   == NeedsBlock(filled + 1)
           padded == Cleared(marked, IF more THEN 1 ELSE filled + 2, BlockSize - LengthBytes)
           final  == [i \in 1..BlockSize |->
                         IF i > BlockSize - LengthBytes
                         THEN LengthByte(total, i - (BlockSize - LengthBytes)) ELSE padded[i]]
       IN  /\ blocks' = blocks \o (IF more THEN <<Cleared(marked, filled + 2, BlockSize)>>
                                   ELSE <<>>) \o <<final>>
           /\ buffer' = final
    /\ outcome' = "hashed"
    /\ UNCHANGED <<left, filled, total>>

ShaNext == ReadChunk \/ ReadFails \/ Finish

ShaSpec == ShaInit /\ [][ShaNext]_shaVars

-----------------------------------------------------------------------------
ShaTypeOK == /\ filled \in 0..BlockSize - 1
             /\ total + left \in 0..MaxBytes
             /\ Len(buffer) = BlockSize
             /\ outcome \in {"reading", "failed", "hashed"}

\* The message as the standard pads it: the mark, as few zeros as complete a
\* block, and the length.  n counts its bytes.
PaddedBlocks(size) == (size + LengthBytes) \div BlockSize + 1

PaddedByte(size, n) ==
    LET zerosEnd == PaddedBlocks(size) * BlockSize - LengthBytes
    IN  IF n <= size THEN Data(n)
        ELSE IF n = size + 1 THEN Mark
        ELSE IF n <= zerosEnd THEN Zero
        ELSE LengthByte(size, n - zerosEnd)

(* What has been transformed is the file in its order, but for the bytes in *)
(* the buffer, in whatever chunks it came.                                  *)
NothingSkipped ==
    outcome # "hashed" =>
        /\ total = Len(blocks) * BlockSize + filled
        /\ blocks = [n \in 1..Len(blocks) |->
                        [i \in 1..BlockSize |-> Data((n - 1) * BlockSize + i)]]
        /\ \A i \in 1..filled : buffer[i] = Data(Len(blocks) * BlockSize + i)

(* At the end it is the padded message, for every length: the mark may fill a *)
(* block, leave no room for the length, or come after bytes that the buffer   *)
(* has from before.                                                           *)
HashesPaddedMessage ==
    outcome = "hashed" =>
        blocks = [n \in 1..PaddedBlocks(total) |->
                     [i \in 1..BlockSize |-> PaddedByte(total, (n - 1) * BlockSize + i)]]

(* The digest is one of the whole file: every byte is hashed once, in order, *)
(* and padded as the standard says.                                          *)
DigestIsOfFile == ShaTypeOK /\ NothingSkipped /\ HashesPaddedMessage
=============================================================================
