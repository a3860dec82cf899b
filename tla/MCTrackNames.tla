----------------------------- MODULE MCTrackNames -----------------------------
(* Values for model-checking TrackNames: every string up to twice the limit   *)
(* of bytes, and every name with short fields, slashes in them included.      *)
EXTENDS TrackNames

CONSTANTS a, b

MCLetters == {a, b}
MCStrings == SeqOf({a, b, Slash}, 6)
MCNames == [namespace : SeqOf(SeqOf({a, Slash}, 2), 3), name : SeqOf({a, Slash}, 2)]
=============================================================================
