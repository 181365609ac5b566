--------------------------- MODULE MCRemoteFetch ---------------------------
(***************************************************************************)
(* Small instances of RemoteFetch: an empty and a short body with a        *)
(* Content-Length, chunks at the ends of the range a one-digit size        *)
(* covers and the first that needs two digits, and an unframed body.       *)
(***************************************************************************)
EXTENDS RemoteFetch

Answer(enc, len, digits) == [enc |-> enc, len |-> len, digits |-> digits]

AllKinds ==
    {Answer("length", 0, 0), Answer("length", 3, 0),
     Answer("chunked", 5, 1), Answer("chunked", 15, 1), Answer("chunked", 16, 2),
     Answer("bare", 2, 0)}

OneChunk == {Answer("chunked", 5, 1)}
=============================================================================
