--------------------------- MODULE MCControlStream ---------------------------
(* Values for model-checking ControlStream: two writers, messages of every *)
(* kind, a payload that overflows the buffer and one that is empty.        *)
EXTENDS ControlStream, TLC

CONSTANTS w1, w2, setup, unsupported, malformed, missized, unencodable

MCWriters == {w1, w2}
MCMessages == {setup, unsupported, malformed, missized, unencodable}
MCSize == setup :> 3 @@ unsupported :> 1 @@ malformed :> 0 @@ missized :> 2
          @@ unencodable :> 0
MCKind == setup :> "setup" @@ unsupported :> "unsupported"
          @@ malformed :> "malformed" @@ missized :> "missized"
          @@ unencodable :> "unencodable"
=============================================================================
