----------------------------- MODULE MCSighash ------------------------------
(***************************************************************************)
(* Transactions that differ in one field from a base transaction, at the   *)
(* low and the high byte of the field where it has several.                *)
(***************************************************************************)
EXTENDS Sighash

Own(index) == PublicKey(KaspaPath(Hardened, 0, index))
Payee == [owner |-> "other", path |-> <<>>]

Pays(value, kind, key) == [value |-> value, script |-> [kind |-> kind, key |-> key]]
Spends(value, tx_id, address, index) ==
    [value |-> value, tx_id |-> tx_id, address_type |-> 0, address_index |-> address,
     index |-> index]

\* The slots of an array, the first ones from s.
Slots(s, slots, zero) == [i \in slots |-> IF i < Len(s) THEN s[i + 1] ELSE zero]

Tx(version, account, outputs, inputs) ==
    [version |-> version, account |-> account,
     tx_input_len |-> Len(inputs), tx_output_len |-> Len(outputs),
     tx_outputs |-> Slots(outputs, OutputSlots, ZeroOutput),
     tx_inputs |-> Slots(inputs, InputSlots, ZeroInput)]

Out1 == Pays(2, "schnorr", Payee)
Out2 == Pays(1, "schnorr", Own(1))
In1  == Spends(3, 1, 0, 1)
In2  == Spends(3, 2, 4, 1)

MCTxs ==
    {Tx(v, Hardened, <<Out1>>, <<In1>>) : v \in {0, 1, 256}}
    \cup {Tx(0, Hardened + 1, <<Out1>>, <<In1>>)}
    \cup {Tx(0, Hardened, <<o>>, <<In1>>) :
            o \in {Pays(512, "schnorr", Payee), Pays(2, "ecdsa", Payee),
                   Pays(2, "p2sh", Payee), Pays(2, "schnorr", Own(0))}}
    \cup {Tx(0, Hardened, os, <<In1>>) : os \in {<<Out1, Out2>>, <<Out2, Out1>>}}
    \cup {Tx(0, Hardened, <<Out1>>, <<i>>) :
            i \in {Spends(300, 1, 0, 1), Spends(3, 2, 0, 1), Spends(3, 1, 1, 1),
                   Spends(3, 1, 0, 255), Spends(0, 0, 0, 0)}}
    \cup {Tx(0, Hardened, <<Out1, Out2>>, is) :
            is \in {<<In1, In2>>, <<In2, In1>>, <<In1, In1>>}}
=============================================================================
