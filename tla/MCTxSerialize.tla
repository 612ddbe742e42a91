--------------------------- MODULE MCTxSerialize ----------------------------
(***************************************************************************)
(* Payloads on both sides of every check of the parsers, and with one byte *)
(* less and one byte more.                                                 *)
(***************************************************************************)
EXTENDS TxSerialize

Cut(bytes) == SubSeq(bytes, 1, Len(bytes) - 1)
Around(S) == S \cup {Cut(b) : b \in S} \cup {Append(b, 1) : b \in S}
Values == {<<0, 0, 0, 0, 0, 0, 0, 3>>, <<0, 1, 2, 3, 4, 5, 6, 7>>}

Headers ==
    Around({v \o <<outputs, inputs, type>> \o index \o account :
        v \in {<<1, 7>>}, outputs \in 0 .. 3, inputs \in 0 .. 3, type \in 0 .. 2,
        index \in {<<1, 2, 3, 4>>}, account \in {<<3, 7, 7, 7>>, <<4, 3, 2, 1>>}})

Outputs ==
    Around({v \o script : v \in Values,
        script \in {<<2, 1, 7, 6>>, <<2, 1, 7, 7>>, <<3, 1, 0, 5, 7>>, <<3, 1, 0, 5, 6>>,
                    <<4, 2, 0, 1, 5>>, <<4, 3, 0, 1, 5>>, <<4, 2, 0, 1, 6>>, <<0, 0, 0, 0>>}})

Inputs ==
    Around({v \o id \o <<type>> \o index \o <<i>> : v \in Values, id \in {<<1, 2>>, <<0, 7>>},
        type \in {1}, index \in {<<7, 6, 5, 4>>}, i \in {0, 7}})

MCPayloads ==
    {[kind |-> "header", bytes |-> b] : b \in Headers}
    \cup {[kind |-> "output", bytes |-> b] : b \in Outputs}
    \cup {[kind |-> "input", bytes |-> b] : b \in Inputs}

MCBufferLens == 8 .. 16
=============================================================================
