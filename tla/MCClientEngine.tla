--------------------------- MODULE MCClientEngine ---------------------------
(* Two submissions under one key, one of them by a handler, and a fan-out. *)
(* The jobs described: one that fits on every road, one whose chain its    *)
(* task does not lead, one whose on_failure has an unknown key.            *)
EXTENDS ClientEngine

CONSTANTS s1, s2, g1

Described(task, chain, unknownKey, onFailure) ==
    [task |-> task, chain |-> chain, payload |-> "fits", unknownKey |-> unknownKey,
     onFailure |-> onFailure]

MCSpecs == {Described("a", <<"a", "b">>, FALSE, <<>>), Described("a", <<"b">>, FALSE, <<>>),
            Described("a", <<>>, FALSE, <<Described("b", <<>>, TRUE, <<>>)>>)}

MCKeyOf == [c \in {s1, s2, g1} |-> IF c = g1 THEN NoKey ELSE "k"]
=============================================================================
