---------------------------- MODULE MCKaspaHost -----------------------------
(***************************************************************************)
(* The client's transactions: one input and one output, two of each with   *)
(* change, and one whose outputs exceed its inputs, which validation       *)
(* refuses.                                                                *)
(***************************************************************************)
EXTENDS KaspaHost, Functions

Own(type, index) == PublicKey(KaspaPath(Hardened, type, index))
Payee == [owner |-> "other", path |-> <<>>]

Pays(value, kind, key) == [value |-> value, script |-> [kind |-> kind, key |-> key]]
Spends(value, tx_id, type, index) ==
    [value |-> value, tx_id |-> tx_id, address_type |-> type, address_index |-> index,
     index |-> 1]

Job(outputs, inputs) ==
    [version |-> 0, change_type |-> 1, change_index |-> 2, account |-> Hardened,
     outputs |-> outputs, inputs |-> inputs]

MCJobs ==
    {Job(<<Pays(2, "p2sh", Payee)>>, <<Spends(3, 1, 0, 0)>>),
     Job(<<Pays(2, "schnorr", Payee), Pays(1, "schnorr", Own(1, 2))>>,
         <<Spends(3, 1, 0, 0), Spends(1, 2, 1, 4), Spends(1, 2, 1, 4)>>),
     Job(<<Pays(4, "ecdsa", Payee)>>, <<Spends(1, 2, 0, 0), Spends(1, 3, 0, 1)>>)}

MCJunk == {[value |-> 1, tx_id |-> 9, address_type |-> 9, address_index |-> 9, index |-> 9]}

\* The chunks of these transactions.
ClientHeaders == {HeaderOf(j) : j \in MCJobs}
ClientOutputs == {OutputOf(o) : o \in UNION {Range(j.outputs) : j \in MCJobs}}
ClientInputs  == {InputOf(i) : i \in UNION {Range(j.inputs) : j \in MCJobs}}

\* What the other program asks for: the key of an address, a signed message.
OtherPaths == {[path_len |-> 5, components |-> <<Purpose, CoinType, Hardened, 0, 3>>]}
OtherMessages == {[size |-> 11, address_type |-> 0, address_index |-> 3,
                   account |-> Hardened, message |-> <<75>>]}
=============================================================================
