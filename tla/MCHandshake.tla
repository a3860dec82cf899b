----------------------------- MODULE MCHandshake -----------------------------
(* Values for model-checking Handshake: parameters left out, repeated, out of *)
(* range, and those a server or a WebTransport session must not carry.        *)
EXTENDS Handshake, TLC

P(t, v) == [type |-> t, value |-> v]

MCOffers == {
    <<>>,
    <<P("maxRequestID", 7), P("maxRequestID", 5)>>,
    <<P("impl", 1), P("tokenCache", 2)>>,
    <<P("path", 1)>>,
    <<P("authority", 1), P("path", 2)>>,
    <<P("maxRequestID", VarintMax + 1)>>}
=============================================================================
