----------------------------- MODULE MCKaspaApp -----------------------------
(***************************************************************************)
(* Payloads for the model checker.  Every list holds payloads that parse   *)
(* and payloads that stop a parser half-way.                               *)
(***************************************************************************)
EXTENDS KaspaRefinement

Own(type, index) == PublicKey(KaspaPath(Hardened, type, index))
Payee == [owner |-> "other", path |-> <<>>]

Header(size, n_output, n_input, account) ==
    [size |-> size, version |-> 1, n_output |-> n_output, n_input |-> n_input,
     change_type |-> 1, change_index |-> 2, account |-> account]

Output(size, value, kind, key) ==
    [size |-> size, value |-> value, script |-> [kind |-> kind, key |-> key],
     wellformed |-> TRUE]

Input(size, value, tx_id, type) ==
    [size |-> size, value |-> value, tx_id |-> tx_id, address_type |-> type,
     address_index |-> 0, index |-> 1]

MCJunk == {[value |-> 1, tx_id |-> 9, address_type |-> 9, address_index |-> 9, index |-> 9]}

\* SIGN_TX: sound headers for one and two outputs, and headers rejected at
\* the number of inputs, at the account, and for a byte too many.
MCHeaders == {Header(13, 1, 1, Hardened), Header(13, 2, 2, Hardened),
              Header(13, 1, MaxInputCount + 1, Hardened),
              Header(13, 1, 1, 0), Header(14, 2, 1, Hardened), Header(3, 1, 1, Hardened)}

MCOutputs == {Output(42, 2, "schnorr", Payee),
              Output(43, 3, "p2sh", Payee),
              Output(20, 3, "ecdsa", Payee),
              Output(42, 1, "schnorr", Own(1, 2)),
              Output(43, 1, "schnorr", Own(1, 2)),
              Output(42, 1, "schnorr", Own(0, 0))}

MCInputs == {Input(46, 3, 1, 0), Input(46, 1, 2, 1), Input(40, 2, 1, 0)}

Message(size, type, account, bytes) ==
    [size |-> size, address_type |-> type, address_index |-> 3, account |-> account,
     message |-> bytes]

\* Messages: shown as they are, with blanks, with one escape, cut in the
\* escape; empty, too long; and payloads cut or refused at every field.
MCMessages == {Message(12, 0, Hardened, <<75, 83>>), Message(13, 1, Hardened, <<10, 75, 9>>),
               Message(11, 0, Hardened, <<7>>), Message(12, 0, Hardened, <<65, 7>>),
               Message(11, 0, Hardened, <<>>), Message(16, 0, Hardened, <<1, 2, 3, 4, 5, 6>>),
               Message(0, 0, Hardened, <<>>), Message(11, 2, Hardened, <<75>>),
               Message(8, 0, Hardened, <<75>>), Message(11, 0, 0, <<75>>),
               Message(9, 0, Hardened, <<75>>), Message(11, 0, Hardened, <<75, 83>>)}

Path(path_len, components) == [path_len |-> path_len, components |-> components]

\* Paths: of an account, of an address, too short, not all there, too long
\* for the buffer, of another purpose and of another coin.
MCPaths == {Path(3, <<Purpose, CoinType, Hardened>>),
            Path(5, <<Purpose, CoinType, Hardened, 0, 3>>),
            Path(1, <<Purpose>>), Path(0, <<>>), Path(3, <<Purpose, CoinType>>),
            Path(6, <<Purpose, CoinType, Hardened, 0, 3, 4>>),
            Path(2, <<Purpose + 1, CoinType>>), Path(2, <<Purpose, CoinType + 1>>)}

NoPayloads == {}
=============================================================================
