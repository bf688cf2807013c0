---------------------------- MODULE UploadChunks -----------------------------
(* How the data of an upload is encoded and cut: encodeRLE and decodeRLE of  *)
(* src/lib/converters/rle.ts and getNextChunks of                            *)
(* src/dataTransfer/dataTransferUploadBuffer.ts.  Data is a sequence of      *)
(* blocks of 8 bytes; the length of a run is a block too.                    *)
EXTENDS Integers, Sequences, SequencesExt

CONSTANTS Blocks,       \* values of a block of the pixels
          RLE_HEADER,   \* the value that starts a run
          ChunkSizes    \* bytes the device takes in a chunk

\* Pixels do not look like a header, and a chunk has room for a run.
ASSUME ChunksAssumption == /\ RLE_HEADER \notin Blocks
                           /\ \A size \in ChunkSizes : size \in Nat /\ size \div 8 >= 3

VARIABLES pixels,   \* the data of the caller
          data,     \* what is uploaded: the pixels, encoded or not
          chunks,   \* the bodies of the commands sent
          blocksSent

chunkVars == <<pixels, data, chunks, blocksSent>>

Run(count, block) == <<RLE_HEADER, count, block>>

\* A block of the source when it has ended a stretch of equal ones: a run, the few
\* equal blocks, or one more of the different blocks that wait.
Flushed(encoder) ==
  IF encoder.same > 2
  THEN [encoder EXCEPT !.out = @ \o Run(encoder.same + 1, encoder.last), !.same = 0]
  ELSE IF encoder.same > 0
  THEN [encoder EXCEPT !.out = @ \o [i \in 1..(encoder.same + 1) |-> encoder.last], !.same = 0]
  ELSE [encoder EXCEPT !.waiting = Append(@, encoder.last)]

\* A block like the last one writes the different blocks that wait before it.
EncodeBlock(encoder, block) ==
  IF block = encoder.last
  THEN [encoder EXCEPT !.same = @ + 1, !.out = @ \o encoder.waiting, !.waiting = <<>>]
  ELSE [Flushed(encoder) EXCEPT !.last = block]

EncodeRLE(source) ==
  LET start == [last |-> Head(source), same |-> 0, waiting |-> <<>>, out |-> <<>>]
      encoder == Flushed(FoldLeft(EncodeBlock, start, Tail(source)))
  IN encoder.out \o encoder.waiting

\* One block of decodeRLE: a header, the count after it, the block of a run, or a block.
DecodeBlock(decoder, block) ==
  CASE decoder.expects = "block" /\ block = RLE_HEADER -> [decoder EXCEPT !.expects = "count"]
    [] decoder.expects = "block" /\ block # RLE_HEADER -> [decoder EXCEPT !.out = Append(@, block)]
    [] decoder.expects = "count" -> [decoder EXCEPT !.expects = "value", !.count = block]
    [] decoder.expects = "value" ->
         [decoder EXCEPT !.expects = "block", !.out = @ \o [i \in 1..decoder.count |-> block]]

DecodeRLE(source) ==
  FoldLeft(DecodeBlock, [expects |-> "block", count |-> 0, out |-> <<>>], source).out

-----------------------------------------------------------------------------
\* A slip: a header just before the end of the chunk is not looked for.
ShortenBySome(size) ==
  IF size + blocksSent > Len(data) THEN blocksSent + size - Len(data)
  ELSE IF data[blocksSent + size] = RLE_HEADER THEN 1 ELSE 0
\* How many blocks a chunk of this size leaves for the next one.
ShortenBy(size) ==
  IF size + blocksSent > Len(data) THEN blocksSent + size - Len(data)
  ELSE IF data[blocksSent + size] = RLE_HEADER THEN 1
  ELSE IF data[blocksSent + size - 1] = RLE_HEADER THEN 2
  ELSE 0

\* One iteration of getNextChunks.
NextChunk(chunkSize) ==
  /\ blocksSent < Len(data)
  /\ \E sent \in {(chunkSize \div 8) - ShortenBy(chunkSize \div 8)} :
       /\ chunks' = Append(chunks, SubSeq(data, blocksSent + 1, blocksSent + sent))
       /\ blocksSent' = blocksSent + sent
  /\ UNCHANGED <<pixels, data>>

\* generateUploadBufferInfo encodes pixels on demand.
ChunksInit(sources) ==
  /\ pixels \in sources
  /\ data \in IF pixels = <<>> THEN {<<>>} ELSE {pixels, EncodeRLE(pixels)}
  /\ chunks = <<>>
  /\ blocksSent = 0

\* The device may ask for chunks of another size every time.
ChunksNext == \E size \in ChunkSizes : NextChunk(size)

-----------------------------------------------------------------------------
(* Properties.                                                               *)

\* The device, which decodes what it gets chunk by chunk, has the pixels once all is
\* sent; every chunk holds something, no run is cut and nothing is sent twice.
UploadIsWhole ==
  LET decoded == FlattenSeq([i \in DOMAIN chunks |-> DecodeRLE(chunks[i])])
  IN /\ IsPrefix(decoded, pixels)
     /\ \A i \in DOMAIN chunks : chunks[i] # <<>>
     /\ blocksSent >= Len(data) => decoded = pixels
=============================================================================
