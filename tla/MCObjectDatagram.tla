-------------------------- MODULE MCObjectDatagram --------------------------
(* Values for model-checking ObjectDatagram: numbers of one, two and four    *)
(* bytes, pairs of both kinds, empty values, lists and payloads.              *)
EXTENDS ObjectDatagram

Number(t, v) == [type |-> t, number |-> v, bytes |-> <<>>]
Bytes(t, b) == [type |-> t, number |-> 0, bytes |-> b]

MCNumbers == {0, 300}
MCPriorities == {0, 200}
MCExtensions == {<<>>, <<Number(2, 70000), Bytes(3, <<5, 90>>)>>, <<Bytes(65, <<>>), Number(4, 0)>>}
MCStatuses == {0, 3}
MCPayloads == {<<>>, <<9, 65, 1>>}
=============================================================================
