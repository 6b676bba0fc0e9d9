--------------------------- MODULE MCHuffmanBlocks ---------------------------
(* Files of format 29 in which a ppm block follows an LZ block.              *)
EXTENDS HuffmanBlocks
S == INSTANCE MCHuffmanStreams
PpmStreams == S!StreamsPpm(S!Tables29)
=============================================================================
