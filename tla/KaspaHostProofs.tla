-------------------------- MODULE KaspaHostProofs ---------------------------
(***************************************************************************)
(* The client and the application together, for all constants that satisfy *)
(* the assumptions.  The client is one of the hosts of KaspaApp, so that   *)
(* all that is proved of the application holds for it; then client and     *)
(* device are shown to agree on how far an attempt has come.               *)
(***************************************************************************)
EXTENDS KaspaHost, KaspaSafetyProofs

-----------------------------------------------------------------------------
(* The client's transactions *)

\* The header of a job announces what the job has, within the limits of the
\* device (transaction.py, deserialize.c:158-190).
LEMMA JobFacts ==
    ASSUME NEW j \in Jobs
    PROVE  /\ j.outputs \in Seq(Outputs) /\ Len(j.outputs) \in 1 .. 2
           /\ j.inputs \in Seq(Inputs) /\ Len(j.inputs) \in 1 .. MaxInputCount
           /\ DOMAIN j.outputs = 1 .. Len(j.outputs) /\ DOMAIN j.inputs = 1 .. Len(j.inputs)
           /\ HeaderOK(HeaderOf(j))
           /\ \A k \in 1 .. Len(j.outputs) : OutputOK(OutputOf(j.outputs[k]))
<1>1. SoundJob(j)
  BY HostAssumption
<1>2. j.outputs \in Seq(Outputs) /\ j.inputs \in Seq(Inputs)
  BY <1>1 DEF SoundJob
<1>3. DOMAIN j.outputs = 1 .. Len(j.outputs) /\ DOMAIN j.inputs = 1 .. Len(j.inputs)
  BY <1>2
<1>4. HeaderOf(j).n_output = Len(j.outputs) /\ HeaderOf(j).n_input = Len(j.inputs)
  BY DEF HeaderOf
<1>5. HeaderOf(j).n_output \in 1 .. 2 /\ HeaderOf(j).n_input \in 1 .. MaxInputCount
  BY <1>1 DEF SoundJob, HeaderOK, AccountOK, AccountRead, InputLenOK, InputLenRead, OutputLenOK
<1>6. QED
  BY <1>1, <1>2, <1>3, <1>4, <1>5 DEF SoundJob

\* How many chunks the job of an attempt has.
LEMMA Counts ==
    ASSUME job \in Jobs
    PROVE  /\ OutputCount \in 1 .. 2 /\ InputCount \in 1 .. MaxInputCount
           /\ MaxInputCount \in Nat /\ MaxInputCount < ByteMod /\ ByteMod \in Nat
           /\ LastChunk = OutputCount + InputCount
  BY JobFacts, WidthAssumption DEF OutputCount, InputCount, LastChunk

\* The chunks of a job are payloads of the right form.
LEMMA JobChunks ==
    ASSUME NEW j \in Jobs
    PROVE  /\ HeaderOf(j) \in Headers
           /\ \A k \in 1 .. Len(j.outputs) : OutputOf(j.outputs[k]) \in OutputPayloads
           /\ \A k \in 1 .. Len(j.inputs) : InputOf(j.inputs[k]) \in InputPayloads
  BY JobFacts, ClientAssumption

-----------------------------------------------------------------------------
(* The client is one of the hosts of the application *)

\* The dispatcher takes the commands of the client (dispatcher.c:44).
LEMMA ClientIsDispatched ==
    /\ Dispatched("SIGN_TX", P1_START, P2_MORE, TRUE)
    /\ Dispatched("SIGN_TX", P1_OUTPUTS, P2_MORE, TRUE)
    /\ \A p2 \in {P2_LAST, P2_MORE} : Dispatched("SIGN_TX", P1_INPUTS, p2, TRUE)
    /\ Dispatched("SIGN_TX", P1_NEXT_SIGNATURE, P2_LAST, FALSE)
<1>1. \A p1 \in KnownP1, p2 \in {P2_LAST, P2_MORE}, data \in BOOLEAN :
          /\ p1 \in {P1_START, P1_OUTPUTS} => p2 = P2_MORE
          /\ data \/ p1 = P1_NEXT_SIGNATURE
          => Dispatched("SIGN_TX", p1, p2, data)
  BY DEF Dispatched, DispatchError, Command, WrongP1P2, MissingData, Instructions
<1>2. {P1_START, P1_OUTPUTS, P1_INPUTS, P1_NEXT_SIGNATURE} \subseteq KnownP1
  BY DEF KnownP1
<1>3. P1_INPUTS \notin {P1_START, P1_OUTPUTS} /\ P1_NEXT_SIGNATURE \notin {P1_START, P1_OUTPUTS}
  BY DEF P1_START, P1_OUTPUTS, P1_INPUTS, P1_NEXT_SIGNATURE
<1>4. QED
  BY <1>1, <1>2, <1>3, Zenon

\* A command of the client is a command the application may receive.
LEMMA SendIsReceive ==
    ASSUME job \in Jobs, step \in Nat, Idle, SendCommand
    PROVE  Receive
<1>1. CASE step = 0 /\ SignTxHeader(HeaderOf(job))
  BY <1>1, JobChunks, ClientIsDispatched DEF Receive, ReceiveHeader
<1>2. CASE step \in 1 .. OutputCount /\ SignTxOutput(OutputOf(job.outputs[step]))
  <2>1. OutputOf(job.outputs[step]) \in OutputPayloads
    BY <1>2, JobChunks DEF OutputCount
  <2>2. QED
    BY <1>2, <2>1, ClientIsDispatched DEF Receive, ReceiveOutput
<1>3. CASE /\ step \in OutputCount + 1 .. LastChunk
           /\ SignTxInput(InputOf(job.inputs[step - OutputCount]), step < LastChunk)
  <2> DEFINE c == InputOf(job.inputs[step - OutputCount])
             p2 == IF step < LastChunk THEN P2_MORE ELSE P2_LAST
  <2>1. step - OutputCount \in 1 .. Len(job.inputs)
    <3>1. step - OutputCount \in 1 .. InputCount
      BY <1>3, Counts
    <3>2. QED
      BY <3>1 DEF InputCount
  <2>2. c \in InputPayloads
    BY <2>1, JobChunks
  <2>3. p2 \in {P2_LAST, P2_MORE} /\ (p2 = P2_MORE) = (step < LastChunk)
    BY DEF P2_MORE, P2_LAST
  <2>4. SignTxInput(c, p2 = P2_MORE)
    BY <1>3, <2>3
  <2> HIDE DEF c, p2
  <2>5. ReceiveInput
    BY <2>2, <2>3, <2>4, ClientIsDispatched DEF ReceiveInput
  <2>6. QED
    BY <2>5 DEF Receive
<1>4. CASE step > LastChunk /\ NextSignature
  BY <1>4, ClientIsDispatched DEF Receive, ReceiveNextSignature
<1>5. QED
  BY <1>1, <1>2, <1>3, <1>4 DEF SendCommand

\* A sequence of whatever it is made of.
IsSequence(s) == s \in Seq({s[k] : k \in DOMAIN s})

HostTypeOK ==
    /\ job \in Jobs
    /\ step \in Nat
    /\ waiting \in BOOLEAN /\ disturbed \in BOOLEAN
    /\ outcome \in {"running", "done", "failed"}
    /\ IsSequence(got)

\* Every step of the composition is, for the device, one of its own steps or
\* none.
LEMMA HostNextIsNext ==
    ASSUME HostTypeOK, [HostNext]_hostvars
    PROVE  [Next]_vars
<1>1. CASE Send
  BY <1>1, SendIsReceive DEF Send, HostTypeOK, Next
<1>2. CASE Take \/ Begin
  BY <1>2 DEF Take, Begin
<1>3. CASE Interlude
  BY <1>3 DEF Interlude, Receive, Next
<1>4. CASE DeviceRestart
  BY <1>4 DEF DeviceRestart, Next
<1>5. CASE UserAnswer
  BY <1>5 DEF UserAnswer, Next
<1>6. CASE UNCHANGED hostvars
  BY <1>6 DEF hostvars
<1>7. QED
  BY <1>1, <1>2, <1>3, <1>4, <1>5, <1>6 DEF HostNext

\* A response that is appended comes after those received before.
LEMMA AppendOne ==
    ASSUME NEW s, IsSequence(s), NEW e
    PROVE  /\ IsSequence(Append(s, e))
           /\ Len(s) \in Nat /\ Len(Append(s, e)) = Len(s) + 1
           /\ DOMAIN s = 1 .. Len(s) /\ DOMAIN Append(s, e) = 1 .. Len(s) + 1
           /\ \A k \in 1 .. Len(s) : Append(s, e)[k] = s[k]
           /\ Append(s, e)[Len(s) + 1] = e
<1> DEFINE R == {s[k] : k \in DOMAIN s}
           V == R \cup {e}
           t == Append(s, e)
<1>1. s \in Seq(R)
  BY DEF IsSequence
<1>2. s \in Seq(V)
  <2>1. R \subseteq V
    OBVIOUS
  <2> HIDE DEF R, V
  <2>2. QED
    BY <1>1, <2>1
<1>3. e \in V
  OBVIOUS
<1> HIDE DEF V, R
<1>4. /\ t \in Seq(V) /\ Len(t) = Len(s) + 1
      /\ \A k \in 1 .. Len(s) : t[k] = s[k]
      /\ t[Len(s) + 1] = e
  BY <1>2, <1>3, AppendProperties
<1>5. Len(s) \in Nat /\ DOMAIN s = 1 .. Len(s) /\ DOMAIN t = 1 .. Len(t)
  BY <1>2, <1>4, LenProperties
<1>6. IsSequence(t)
  <2> DEFINE W == {t[k] : k \in DOMAIN t}
  <2>1. t \in [1 .. Len(t) -> W]
    BY <1>4, <1>5, LenProperties
  <2>2. Len(t) \in Nat
    BY <1>4, LenProperties
  <2> HIDE DEF t
  <2>3. t \in Seq(W)
    BY <2>1, <2>2, SeqDef
  <2>4. QED
    BY <2>3 DEF IsSequence
<1>7. QED
  BY <1>4, <1>5, <1>6

\* The types of the client's variables.
LEMMA NextHostTypeOK == HostTypeOK /\ [HostNext]_hostvars => HostTypeOK'
<1> SUFFICES ASSUME HostTypeOK, [HostNext]_hostvars PROVE HostTypeOK'
  OBVIOUS
<1>1. CASE Send
  BY <1>1 DEF Send, HostTypeOK
<1>2. CASE Take
  <2>1. waiting' \in BOOLEAN /\ disturbed' = disturbed /\ job' = job
    BY <1>2 DEF Take
  <2>2. step' \in Nat /\ outcome' \in {"running", "done", "failed"}
    BY <1>2 DEF Take, HostTypeOK
  <2>3. got' = got \/ got' = Append(got, rapdu)
    BY <1>2 DEF Take
  <2>4. IsSequence(got')
    <3>1. IsSequence(got)
      BY DEF HostTypeOK
    <3>2. IsSequence(Append(got, rapdu))
      BY <3>1, AppendOne
    <3>3. CASE got' = got
      BY <3>1, <3>3 DEF IsSequence
    <3>4. CASE got' = Append(got, rapdu)
      BY <3>2, <3>4 DEF IsSequence
    <3>5. QED
      BY <2>3, <3>3, <3>4
  <2>5. QED
    BY <2>1, <2>2, <2>4 DEF HostTypeOK
<1>3. CASE Begin
  <2>1. IsSequence(<<>>)
    BY DEF IsSequence
  <2>2. QED
    BY <1>3, <2>1 DEF Begin, HostTypeOK
<1>4. CASE Interlude
  BY <1>4 DEF Interlude, HostTypeOK
<1>5. CASE DeviceRestart
  BY <1>5 DEF DeviceRestart, HostTypeOK
<1>6. CASE UserAnswer \/ UNCHANGED hostvars
  BY <1>6 DEF UserAnswer, hostvars, client, HostTypeOK
<1>7. QED
  BY <1>1, <1>2, <1>3, <1>4, <1>5, <1>6 DEF HostNext

\* The client's variables keep their types.
THEOREM HostTypeCorrect == HostSpec => []HostTypeOK
<1>1. HostInit => HostTypeOK
  <2>1. IsSequence(<<>>)
    BY DEF IsSequence
  <2>2. HostInit => IsSequence(got)
    BY <2>1, Zenon DEF HostInit
  <2>3. HostInit => /\ job \in Jobs /\ step \in Nat /\ outcome \in {"running", "done", "failed"}
                    /\ waiting \in BOOLEAN /\ disturbed \in BOOLEAN
    <3>1. 0 \in Nat
      OBVIOUS
    <3>2. QED
      BY <3>1, Zenon DEF HostInit
  <2>4. QED
    BY <2>2, <2>3, Zenon DEF HostTypeOK
<1>2. QED
  BY <1>1, NextHostTypeOK, PTL DEF HostSpec

\* The client of the tests is one of the hosts of KaspaApp, also with restarts,
\* other programs and repeated attempts: what is proved of the application
\* against any host is true of the composition (test_sign_cmd.py:600-631).
THEOREM ClientIsAHost == HostSpec => Spec
<1>1. HostInit => Init
  BY DEF HostInit
<1>2. HostTypeOK /\ [HostNext]_hostvars => [Next]_vars
  BY HostNextIsNext
<1>3. QED
  BY <1>1, <1>2, HostTypeCorrect, PTL DEF HostSpec, Spec

-----------------------------------------------------------------------------
(* Chunk by chunk *)

\* The header of a job opens a session for it (sign_tx.c:60).
LEMMA HeaderIsHeld ==
    ASSUME job \in Jobs, job' = job, SignTxHeader(HeaderOf(job))
    PROVE  /\ Holds(0)' /\ signing_input_index' = 0
           /\ rapdu' = SW("SW_OK") /\ screen' = screen
<1> DEFINE h == HeaderOf(job)
<1>1. HeaderOK(h)
  BY JobFacts
<1>2. /\ h.size = 13 /\ h.version = job.version /\ h.account = job.account
      /\ h.n_output = OutputCount /\ h.n_input = InputCount
  BY DEF HeaderOf, OutputCount, InputCount
<1> HIDE DEF h
<1>3. OutputLenRead(h) /\ InputLenRead(h) /\ AccountRead(h)
  BY <1>1 DEF HeaderOK, AccountOK, AccountRead, InputLenOK, InputLenRead, OutputLenOK
<1>4. /\ HeaderTx(h).version = job.version /\ HeaderTx(h).account = job.account
      /\ HeaderTx(h).tx_output_len = OutputCount /\ HeaderTx(h).tx_input_len = InputCount
  BY <1>2, <1>3 DEF HeaderTx, ZeroTx
<1>5. /\ tx' = HeaderTx(h) /\ req_type' = "CONFIRM_TRANSACTION"
      /\ parsing_output_index' = 0 /\ parsing_input_index' = 0 /\ signing_input_index' = 0
      /\ rapdu' = SW("SW_OK") /\ screen' = screen
  BY <1>1 DEF SignTxHeader, Respond, h
<1>6. OutputCount \in 1 .. 2 /\ OutputCount' = OutputCount /\ InputCount' = InputCount
  BY Counts DEF OutputCount, InputCount
<1>7. /\ ~NotASession' /\ tx'.version = job'.version /\ tx'.account = job'.account
      /\ tx'.tx_output_len = OutputCount' /\ tx'.tx_input_len = InputCount'
  BY <1>4, <1>5, <1>6 DEF NotASession
<1>8. (IF 0 < OutputCount' THEN 0 ELSE OutputCount') = 0
  BY <1>6
<1>9. Holds(0)'
  BY <1>5, <1>7, <1>8 DEF Holds
<1>10. QED
  BY <1>5, <1>9

\* An output of the job fills its slot (sign_tx.c:84-103).
LEMMA OutputIsHeld ==
    ASSUME TypeOK, job \in Jobs, job' = job, NEW n \in Nat, n \in 1 .. OutputCount,
           Holds(n - 1), SignTxOutput(OutputOf(job.outputs[n]))
    PROVE  /\ Holds(n)' /\ signing_input_index' = signing_input_index
           /\ rapdu' = SW("SW_OK") /\ screen' = screen
<1> DEFINE o == job.outputs[n]
           c == OutputOf(o)
<1>1. OutputCount \in 1 .. 2 /\ OutputCount' = OutputCount /\ InputCount' = InputCount
  BY Counts DEF OutputCount, InputCount
<1>2. o \in Outputs /\ OutputOK(c)
  BY JobFacts DEF OutputCount
<1>3. /\ parsing_output_index = n - 1 /\ parsing_input_index = 0 /\ ~NotASession
      /\ tx.tx_output_len = OutputCount
  BY <1>1 DEF Holds
<1>4. ~NoOutputSlot
  BY <1>1, <1>3 DEF NoOutputSlot, MaxOutputCount
<1>5. /\ tx' = WithOutput(c) /\ parsing_output_index' = n
      /\ rapdu' = SW("SW_OK") /\ screen' = screen
      /\ UNCHANGED <<req_type, parsing_input_index, signing_input_index>>
  BY <1>2, <1>3, <1>4 DEF SignTxOutput, Respond
<1>6. \A slot : OutputWrite(c, slot) = o
  <2>1. c.size >= 8 /\ c.value = o.value /\ c.script = o.script
    BY DEF OutputOf, ScriptLen
  <2>2. \A slot : OutputWrite(c, slot) = [value |-> o.value, script |-> o.script]
    BY <1>2, <2>1 DEF OutputWrite, ReadField, OutputOK
  <2>3. o = [value |-> o.value, script |-> o.script]
    BY <1>2 DEF Outputs
  <2>4. QED
    BY <2>2, <2>3
<1> HIDE DEF c, o
<1>7. tx.tx_outputs \in [OutputSlots -> Outputs] /\ n - 1 \in OutputSlots
  BY <1>1 DEF TypeOK, Transactions, OutputSlots, MaxOutputCount
<1>8. /\ tx'.version = tx.version /\ tx'.account = tx.account
      /\ tx'.tx_output_len = tx.tx_output_len /\ tx'.tx_input_len = tx.tx_input_len
      /\ tx'.tx_outputs = [tx.tx_outputs EXCEPT ![n - 1] = o]
  BY <1>3, <1>5, <1>6 DEF WithOutput, TypeOK, Transactions
<1>9. \A k \in 0 .. n - 1 : tx'.tx_outputs[k] = job.outputs[k + 1]
  <2> SUFFICES ASSUME NEW k \in 0 .. n - 1 PROVE tx'.tx_outputs[k] = job.outputs[k + 1]
    OBVIOUS
  <2>1. CASE k = n - 1
    BY <1>7, <1>8, <2>1 DEF o
  <2>2. CASE k # n - 1
    <3>1. k \in 0 .. n - 1 - 1 /\ k \in OutputSlots
      BY <1>1, <2>2 DEF OutputSlots, MaxOutputCount
    <3>2. tx.tx_outputs[k] = job.outputs[k + 1]
      BY <1>1, <3>1 DEF Holds
    <3>3. QED
      BY <1>7, <1>8, <2>2, <3>1, <3>2
  <2>3. QED
    BY <2>1, <2>2
<1>10. tx.version = job.version /\ tx.account = job.account /\ tx.tx_input_len = InputCount
  BY DEF Holds
<1>11. /\ ~NotASession' /\ tx'.version = job'.version /\ tx'.account = job'.account
       /\ tx'.tx_output_len = OutputCount' /\ tx'.tx_input_len = InputCount'
  BY <1>1, <1>3, <1>5, <1>8, <1>10 DEF NotASession
<1>12. (IF n < OutputCount' THEN n ELSE OutputCount') = n /\ n - n = 0
  BY <1>1
<1>13. Holds(n)'
  BY <1>3, <1>5, <1>9, <1>11, <1>12 DEF Holds
<1>14. QED
  BY <1>5, <1>13

\* An input of the job fills its slot; the last one is followed by the review
\* or by an error (sign_tx.c:105-141).
LEMMA InputIsHeld ==
    ASSUME TypeOK, job \in Jobs, job' = job, NEW n \in Nat, n \in OutputCount + 1 .. LastChunk,
           Holds(n - 1), NEW more \in BOOLEAN,
           SignTxInput(InputOf(job.inputs[n - OutputCount]), more)
    PROVE  /\ Holds(n)' /\ signing_input_index' = signing_input_index
           /\ more => rapdu' = SW("SW_OK") /\ screen' = screen
           /\ ~more => \/ IsError(rapdu') /\ screen' = screen
                       \/ rapdu' = NoResponse /\ screen'.kind = "transaction"
<1> DEFINE m == n - OutputCount
           txin == job.inputs[m]
           c == InputOf(txin)
<1>1. /\ OutputCount \in 1 .. 2 /\ InputCount \in 1 .. MaxInputCount
      /\ OutputCount' = OutputCount /\ InputCount' = InputCount
      /\ MaxInputCount \in Nat
  BY Counts DEF OutputCount, InputCount
<1>2. m \in 1 .. InputCount /\ n - 1 - OutputCount = m - 1 /\ n - OutputCount = m
  BY <1>1, Counts
<1>3. txin \in Inputs
  BY <1>2, JobFacts DEF InputCount
<1>4. (IF n - 1 < OutputCount THEN n - 1 ELSE OutputCount) = OutputCount
  BY <1>1, Counts
<1> HIDE DEF m
<1>5. /\ parsing_output_index = OutputCount /\ parsing_input_index = m - 1 /\ ~NotASession
      /\ tx.tx_input_len = InputCount /\ tx.tx_output_len = OutputCount
      /\ tx.version = job.version /\ tx.account = job.account
      /\ \A o \in 0 .. OutputCount - 1 : tx.tx_outputs[o] = job.outputs[o + 1]
      /\ \A i \in 0 .. m - 1 - 1 : tx.tx_inputs[i] = job.inputs[i + 1]
  BY <1>2, <1>4 DEF Holds
<1>6. ~NoInputSlot
  BY <1>1, <1>2, <1>5 DEF NoInputSlot
<1>7. InputOK(c)
  BY DEF InputOf, InputOK
<1>8. \A slot : InputWrite(c, slot) = txin
  <2>1. \A slot : InputWrite(c, slot) =
            [value |-> txin.value, tx_id |-> txin.tx_id, address_type |-> txin.address_type,
             address_index |-> txin.address_index, index |-> txin.index]
    BY DEF InputWrite, InputOf, ReadField
  <2>2. txin = [value |-> txin.value, tx_id |-> txin.tx_id, address_type |-> txin.address_type,
                address_index |-> txin.address_index, index |-> txin.index]
    BY <1>3 DEF Inputs
  <2>3. QED
    BY <2>1, <2>2
<1>9. SignTxInput(c, more)
  BY DEF m
<1> HIDE DEF c, txin
<1>10. /\ tx' = WithInput(c) /\ parsing_input_index' = m
       /\ UNCHANGED <<req_type, parsing_output_index, signing_input_index>>
  <2>1. m - 1 + 1 = m
    BY <1>1, <1>2
  <2>2. QED
    BY <1>5, <1>6, <1>7, <1>9, <2>1 DEF SignTxInput
<1>11. tx.tx_inputs \in [InputSlots -> Inputs] /\ m - 1 \in InputSlots
  BY <1>1, <1>2 DEF TypeOK, Transactions, InputSlots
<1>12. /\ tx'.version = tx.version /\ tx'.account = tx.account
       /\ tx'.tx_output_len = tx.tx_output_len /\ tx'.tx_input_len = tx.tx_input_len
       /\ tx'.tx_outputs = tx.tx_outputs
       /\ tx'.tx_inputs = [tx.tx_inputs EXCEPT ![m - 1] = txin]
  BY <1>5, <1>8, <1>10 DEF WithInput, TypeOK, Transactions
<1>13. \A i \in 0 .. m - 1 : tx'.tx_inputs[i] = job.inputs[i + 1]
  <2> SUFFICES ASSUME NEW i \in 0 .. m - 1 PROVE tx'.tx_inputs[i] = job.inputs[i + 1]
    OBVIOUS
  <2>1. CASE i = m - 1
    <3>1. i + 1 = m
      BY <1>1, <1>2, <2>1
    <3>2. QED
      BY <1>11, <1>12, <2>1, <3>1 DEF txin
  <2>2. CASE i # m - 1
    <3>1. i \in 0 .. m - 1 - 1 /\ i \in InputSlots
      BY <1>1, <1>2, <2>2 DEF InputSlots
    <3>2. tx'.tx_inputs[i] = tx.tx_inputs[i]
      BY <1>11, <1>12, <2>2, <3>1
    <3>3. QED
      BY <1>5, <3>1, <3>2
  <2>3. QED
    BY <2>1, <2>2
<1>14. (IF n < OutputCount' THEN n ELSE OutputCount') = OutputCount
  BY <1>1, Counts
<1>15. /\ ~NotASession' /\ tx'.version = job'.version /\ tx'.account = job'.account
       /\ tx'.tx_output_len = OutputCount' /\ tx'.tx_input_len = InputCount'
  BY <1>1, <1>5, <1>10, <1>12 DEF NotASession
<1>16. \A o \in 0 .. OutputCount - 1 : tx'.tx_outputs[o] = job.outputs[o + 1]
  BY <1>5, <1>12
<1>17. parsing_output_index' = OutputCount
  BY <1>5, <1>10
<1>18. Holds(n)'
  BY <1>2, <1>10, <1>13, <1>14, <1>15, <1>16, <1>17 DEF Holds
<1>19. more => rapdu' = SW("SW_OK") /\ screen' = screen
  BY <1>5, <1>6, <1>7, <1>9 DEF SignTxInput, Respond
<1>20. ~more => \/ IsError(rapdu') /\ screen' = screen
                \/ rapdu' = NoResponse /\ screen'.kind = "transaction"
  <2>1. ~more => ReviewTransaction(WithInput(c))
    BY <1>5, <1>6, <1>7, <1>9 DEF SignTxInput
  <2>2. QED
    BY <2>1 DEF ReviewTransaction, DisplayTransaction, Show, Respond, SW, IsError,
                TransactionReview
<1>21. QED
  BY <1>10, <1>18, <1>19, <1>20

\* The signature is over the hash the client computes from its own data
\* (crypto.c:58, sighash.c, test_sign_cmd.py:631).
LEMMA SignatureIsExpected ==
    ASSUME TypeOK, job \in Jobs, job' = job, Holds(LastChunk),
           NEW q \in Nat, q < InputCount, signing_input_index = q,
           NEW junk \in JunkInputs, rapdu' = SignatureResponse(InputToSign(junk), junk)
    PROVE  IsSignatureFor(q)'
<1> DEFINE txin == tx.tx_inputs[q]
           p == InputPath(tx, txin)
<1>1. /\ OutputCount \in 1 .. 2 /\ InputCount \in 1 .. MaxInputCount
      /\ MaxInputCount \in Nat /\ MaxInputCount < ByteMod /\ ByteMod \in Nat
      /\ LastChunk = OutputCount + InputCount
  BY Counts
<1>2. (IF LastChunk < OutputCount THEN LastChunk ELSE OutputCount) = OutputCount
      /\ LastChunk - OutputCount = InputCount
  BY <1>1
<1>3. /\ tx.version = job.version /\ tx.account = job.account
      /\ tx.tx_output_len = OutputCount /\ tx.tx_input_len = InputCount
      /\ \A o \in 0 .. OutputCount - 1 : tx.tx_outputs[o] = job.outputs[o + 1]
      /\ \A i \in 0 .. InputCount - 1 : tx.tx_inputs[i] = job.inputs[i + 1]
  BY <1>2 DEF Holds
<1>4. InputToSign(junk) = txin
  BY <1>1 DEF InputToSign, InputAt
<1>5. /\ rapdu'.kind = "signature" /\ rapdu'.input_index = q
      /\ rapdu'.has_more = (InputCount - q - 1) % ByteMod
      /\ rapdu'.hash = calc_sighash(tx, txin, PublicKey(p), junk)
  BY <1>3, <1>4 DEF SignatureResponse, HasMore
<1>6. (InputCount - q - 1) % ByteMod = InputCount - q - 1
  <2>1. \A x \in Nat : x < ByteMod => x % ByteMod = x
    BY <1>1
  <2>2. InputCount - q - 1 \in Nat /\ InputCount - q - 1 < ByteMod
    BY <1>1
  <2>3. QED
    BY <2>1, <2>2
<1>7. txin = job.inputs[q + 1]
  BY <1>1, <1>3
<1>8. PrevOutputsHash(tx, junk) =
          [k \in 0 .. InputCount - 1 |-> [tx_id |-> job.inputs[k + 1].tx_id,
                                          index |-> job.inputs[k + 1].index]]
  BY <1>1, <1>3 DEF PrevOutputsHash, InputAt, Outpoint
<1>9. OutputsHash(tx) = [k \in 0 .. OutputCount - 1 |-> job.outputs[k + 1]]
  BY <1>3 DEF OutputsHash
<1>10. calc_sighash(tx, txin, PublicKey(p), junk) = get_sighash(job, q)
  BY <1>3, <1>7, <1>8, <1>9
  DEF calc_sighash, get_sighash, InputPath, Outpoint, TxinScript, OutputCount, InputCount
<1>11. InputCount' = InputCount
  BY DEF InputCount
<1>12. QED
  BY <1>5, <1>6, <1>10, <1>11 DEF IsSignatureFor

\* Within an attempt the number of chunks does not change.
LEMMA SameCounts ==
    ASSUME job' = job
    PROVE  OutputCount' = OutputCount /\ InputCount' = InputCount /\ LastChunk' = LastChunk
  BY DEF OutputCount, InputCount, LastChunk

\* What the device holds stays until a chunk or another request comes.
LEMMA HoldsKept ==
    ASSUME NEW n, Holds(n),
           UNCHANGED <<job, req_type, tx, parsing_output_index, parsing_input_index>>
    PROVE  Holds(n)'
  BY SameCounts DEF Holds, NotASession

\* One input is signed: the client gets the signature it expects, and the next
\* one is up, or it gets an error; what the device holds stays
\* (crypto.c:58, sign_tx.c:48-56, validate.c:41-61).
LEMMA SignHeld ==
    ASSUME TypeOK, job \in Jobs, job' = job, Holds(LastChunk),
           NEW q \in Nat, q < InputCount, signing_input_index = q,
           NEW c, NEW s, SignInput(c, s)
    PROVE  /\ Holds(LastChunk)'
           /\ \/ IsError(rapdu')
              \/ IsSignatureFor(q)' /\ state' = "STATE_APPROVED" /\ signing_input_index' = q + 1
<1>1. Holds(LastChunk)'
  <2>1. UNCHANGED <<req_type, tx, parsing_output_index, parsing_input_index>>
    BY DEF SignInput
  <2>2. QED
    BY <2>1, HoldsKept, SameCounts
<1>2. NextIndex = q + 1
  BY Counts, NextIndexCases DEF Byte
<1>3. PICK junk \in JunkInputs :
          \/ /\ state' = "STATE_APPROVED" /\ signing_input_index' = NextIndex
             /\ rapdu' = SignatureResponse(InputToSign(junk), junk)
          \/ rapdu' = SW("CRYPTO_ERROR")
  BY DEF SignInput
<1>4. CASE rapdu' = SW("CRYPTO_ERROR")
  BY <1>1, <1>4 DEF IsError, SW
<1>5. CASE /\ state' = "STATE_APPROVED" /\ signing_input_index' = NextIndex
           /\ rapdu' = SignatureResponse(InputToSign(junk), junk)
  <2>1. IsSignatureFor(q)'
    BY <1>5, SignatureIsExpected
  <2>2. QED
    BY <1>1, <1>2, <1>5, <2>1
<1>6. QED
  BY <1>3, <1>4, <1>5

-----------------------------------------------------------------------------
(* Client and device agree on how far the attempt has come *)

\* Everything the invariant of the attempt is proved from.
HostInv == SafetyInv /\ HostTypeOK /\ AttemptInv

\* How many responses the client has.
LEMMA GotLength == HostTypeOK => Len(got) \in Nat
  BY AppendOne DEF HostTypeOK

\* The first chunk is taken whatever the device held before (sign_tx.c:60).
LEMMA SendHeader ==
    ASSUME HostInv, Send, step = 0, SignTxHeader(HeaderOf(job))
    PROVE  Awaited'
<1>1. job \in Jobs /\ job' = job /\ step' = step /\ Idle
  BY DEF HostInv, HostTypeOK, Send
<1>2. LastChunk' = LastChunk /\ 0 < LastChunk
  BY <1>1, SameCounts, Counts
<1>3. Holds(0)' /\ signing_input_index' = 0 /\ rapdu' = SW("SW_OK") /\ screen' = screen
  BY <1>1, HeaderIsHeld
<1>4. Idle' /\ step' = 0
  BY <1>1, <1>3 DEF Idle
<1>5. QED
  BY <1>2, <1>3, <1>4 DEF Awaited

\* A device that has forgotten the session refuses the rest of it
\* (sign_tx.c:80, :107, :145).
LEMMA SendForgotten ==
    ASSUME HostInv, Send, step > 0, disturbed, NotASession
    PROVE  Awaited'
<1>1. Idle /\ disturbed' /\ SendCommand /\ step \in Nat
  BY DEF Send, HostInv, HostTypeOK
<1>2. \/ SignTxOutput(OutputOf(job.outputs[step]))
      \/ SignTxInput(InputOf(job.inputs[step - OutputCount]), step < LastChunk)
      \/ NextSignature
  BY <1>1 DEF SendCommand
<1>3. rapdu' = SW("SW_BAD_STATE") /\ screen' = screen
  BY <1>2 DEF SignTxOutput, SignTxInput, NextSignature, MaySignNext, Refuse, Respond
<1>4. IsError(rapdu') /\ Idle'
  BY <1>1, <1>3 DEF IsError, SW, Idle
<1>5. QED
  BY <1>1, <1>4 DEF Awaited

\* An output of the transaction is taken (sign_tx.c:84).
LEMMA SendOutput ==
    ASSUME HostInv, Send, step \in 1 .. OutputCount,
           SignTxOutput(OutputOf(job.outputs[step])),
           Holds(step - 1), signing_input_index = 0
    PROVE  Awaited'
<1>1. TypeOK /\ job \in Jobs /\ job' = job /\ step' = step /\ step \in Nat /\ Idle
  BY DEF HostInv, HostTypeOK, SafetyInv, Send
<1>2. LastChunk' = LastChunk /\ step < LastChunk
  BY <1>1, SameCounts, Counts
<1>3. Holds(step)' /\ signing_input_index' = 0 /\ rapdu' = SW("SW_OK") /\ screen' = screen
  BY <1>1, OutputIsHeld
<1>4. Idle' /\ step' < LastChunk'
  BY <1>1, <1>2, <1>3 DEF Idle
<1>5. QED
  BY <1>3, <1>4 DEF Awaited

\* An input of the transaction is taken, and the last one is followed by the
\* review or by an error (sign_tx.c:105-141).
LEMMA SendInput ==
    ASSUME HostInv, Send, step \in OutputCount + 1 .. LastChunk,
           SignTxInput(InputOf(job.inputs[step - OutputCount]), step < LastChunk),
           Holds(step - 1), signing_input_index = 0
    PROVE  Awaited'
<1>1. TypeOK /\ job \in Jobs /\ job' = job /\ step' = step /\ step \in Nat /\ Idle
  BY DEF HostInv, HostTypeOK, SafetyInv, Send
<1>2. LastChunk' = LastChunk /\ (step < LastChunk) \in BOOLEAN
  BY <1>1, SameCounts, Counts
<1>3. /\ Holds(step)' /\ signing_input_index' = 0
      /\ step < LastChunk => rapdu' = SW("SW_OK") /\ screen' = screen
      /\ ~(step < LastChunk) => \/ IsError(rapdu') /\ screen' = screen
                                \/ rapdu' = NoResponse /\ screen'.kind = "transaction"
  BY <1>1, <1>2, InputIsHeld
<1>4. screen' = screen => Idle'
  BY <1>1 DEF Idle
<1>5. CASE step < LastChunk
  BY <1>1, <1>2, <1>3, <1>4, <1>5 DEF Awaited
<1>6. CASE step = LastChunk
  <2>1. Holds(LastChunk)' /\ step' = LastChunk' /\ ~(step < LastChunk)
    BY <1>1, <1>2, <1>3, <1>6, Counts
  <2>2. step' >= LastChunk'
    BY <1>1, <1>2, <1>6, Counts
  <2>3. QED
    BY <1>3, <1>4, <2>1, <2>2 DEF Awaited
<1>7. QED
  BY <1>1, <1>5, <1>6, Counts

\* A further signature is the one the client is waiting for, or an error
\* (sign_tx.c:142-152).
LEMMA SendNextSignature ==
    ASSUME HostInv, Send, step > LastChunk, NextSignature, Holds(LastChunk),
           state = "STATE_APPROVED", signing_input_index = Len(got), Len(got) < InputCount
    PROVE  Awaited'
<1>1. TypeOK /\ job \in Jobs /\ job' = job /\ step' = step /\ step \in Nat /\ got' = got /\ Idle
  BY DEF HostInv, HostTypeOK, SafetyInv, Send
<1>2. MaySignNext
  BY DEF MaySignNext, Holds
<1>3. SignInput(consent, signed) /\ screen' = screen
  BY <1>2 DEF NextSignature
<1>4. Len(got) \in Nat
  BY GotLength DEF HostInv
<1>5. PICK q \in Nat : q = Len(got)
  BY <1>4
<1>6. /\ Holds(LastChunk)'
      /\ \/ IsError(rapdu')
         \/ IsSignatureFor(q)' /\ state' = "STATE_APPROVED" /\ signing_input_index' = q + 1
  BY <1>1, <1>3, <1>5, SignHeld
<1>7. Idle' /\ step' >= LastChunk' /\ Len(got)' = q
  BY <1>1, <1>3, <1>5, SameCounts, Counts DEF Idle
<1>8. QED
  BY <1>6, <1>7 DEF Awaited

\* A command of the client is answered as the client expects, or is under
\* review, or is refused.
LEMMA SendAttemptInv == HostInv /\ Send => AttemptInv'
<1> SUFFICES ASSUME HostInv, Send PROVE AttemptInv'
  OBVIOUS
<1>1. /\ job \in Jobs /\ step \in Nat /\ Between /\ outcome = "running" /\ SendCommand
      /\ IF step <= LastChunk THEN got = <<>>
         ELSE Len(got) = step - LastChunk /\ Len(got) < InputCount
      /\ waiting' = TRUE /\ UNCHANGED <<job, step, got, outcome>>
  BY DEF HostInv, HostTypeOK, AttemptInv, Send
<1>2. OutputCount' = OutputCount /\ InputCount' = InputCount /\ LastChunk' = LastChunk
  BY <1>1, SameCounts
<1>3. /\ OutputCount \in 1 .. 2 /\ InputCount \in Nat /\ InputCount > 0
      /\ LastChunk = OutputCount + InputCount
  BY <1>1, Counts
<1>4. Awaited'
  <2>1. CASE step > 0 /\ disturbed /\ NotASession
    BY <2>1, SendForgotten
  <2>2. CASE step = 0 /\ SignTxHeader(HeaderOf(job))
    BY <2>2, SendHeader
  <2>3. CASE step \in 1 .. OutputCount /\ SignTxOutput(OutputOf(job.outputs[step]))
    <3>1. step > 0 /\ step <= LastChunk /\ ~(step > LastChunk) /\ step # 0
      BY <1>3, <2>3
    <3>2. (step > 0 /\ disturbed /\ NotASession) \/ (Holds(step - 1) /\ signing_input_index = 0)
      BY <1>1, <3>1 DEF Between
    <3>3. QED
      BY <2>1, <2>3, <3>2, SendOutput
  <2>4. CASE /\ step \in OutputCount + 1 .. LastChunk
             /\ SignTxInput(InputOf(job.inputs[step - OutputCount]), step < LastChunk)
    <3>1. step > 0 /\ step <= LastChunk /\ ~(step > LastChunk) /\ step # 0
      BY <1>3, <2>4
    <3>2. (step > 0 /\ disturbed /\ NotASession) \/ (Holds(step - 1) /\ signing_input_index = 0)
      BY <1>1, <3>1 DEF Between
    <3>3. QED
      BY <2>1, <2>4, <3>2, SendInput
  <2>5. CASE step > LastChunk /\ NextSignature
    <3>1. step \notin 1 .. LastChunk /\ ~(step <= LastChunk) /\ step # 0
      BY <1>1, <1>3, <2>5
    <3>2. \/ step > 0 /\ disturbed /\ NotASession
          \/ /\ Holds(LastChunk) /\ state = "STATE_APPROVED"
             /\ signing_input_index = Len(got) /\ Len(got) < InputCount
      BY <1>1, <3>1 DEF Between
    <3>3. QED
      BY <2>1, <2>5, <3>2, SendNextSignature
  <2>6. QED
    BY <1>1, <2>2, <2>3, <2>4, <2>5 DEF SendCommand
<1>5. IF step' <= LastChunk' THEN got' = <<>>
      ELSE Len(got') = step' - LastChunk' /\ Len(got') < InputCount'
  BY <1>1, <1>2
<1>6. QED
  BY <1>1, <1>4, <1>5 DEF AttemptInv

\* A response moves the client on with the device, or ends the attempt.
LEMMA TakeAttemptInv == HostInv /\ Take => AttemptInv'
<1> SUFFICES ASSUME HostInv, Take PROVE AttemptInv'
  OBVIOUS
<1>1. /\ job \in Jobs /\ step \in Nat /\ Awaited /\ outcome = "running" /\ rapdu.kind # "none"
      /\ IF step <= LastChunk THEN got = <<>>
         ELSE Len(got) = step - LastChunk /\ Len(got) < InputCount
      /\ waiting' = FALSE /\ job' = job /\ UNCHANGED vars
  BY DEF HostInv, HostTypeOK, AttemptInv, Take
<1>2. OutputCount' = OutputCount /\ InputCount' = InputCount /\ LastChunk' = LastChunk
  BY <1>1, SameCounts
<1>3. /\ OutputCount \in 1 .. 2 /\ InputCount \in Nat /\ InputCount > 0
      /\ LastChunk = OutputCount + InputCount
  BY <1>1, Counts
<1>4. UNCHANGED <<req_type, tx, parsing_output_index, parsing_input_index,
                  signing_input_index, state, screen>>
  BY <1>1 DEF vars, context, txInfo
<1>5. Idle
  BY <1>1 DEF Awaited, NoResponse
<1>6. screen'.kind # "transaction"
  BY <1>4, <1>5, IdleMenu
<1>7. CASE outcome' # "running"
  BY <1>1, <1>6, <1>7 DEF AttemptInv
<1>8. CASE rapdu = SW("SW_OK") /\ step < LastChunk /\ step' = step + 1 /\ got' = got
  <2>1. ~IsError(rapdu) /\ ~(step >= LastChunk)
    BY <1>1, <1>3, <1>8 DEF IsError
  <2>2. Holds(step) /\ signing_input_index = 0
    BY <1>1, <2>1 DEF Awaited
  <2>3. PICK n \in Nat : n = step
    BY <1>1
  <2>4. Holds(n)'
    BY <1>1, <1>4, <2>2, <2>3, HoldsKept
  <2>5. step' - 1 = n /\ step' \in 1 .. LastChunk'
    BY <1>1, <1>2, <1>3, <1>8, <2>3
  <2>6. Between'
    BY <1>4, <2>2, <2>4, <2>5 DEF Between
  <2>7. step' <= LastChunk' /\ got' = <<>>
    BY <1>1, <1>2, <1>3, <1>8
  <2>8. QED
    BY <1>1, <1>6, <2>6, <2>7 DEF AttemptInv
<1>9. CASE /\ rapdu.kind = "signature" /\ step >= LastChunk /\ WantsMore
           /\ got' = Append(got, rapdu) /\ step' = step + 1
  <2>1. ~IsError(rapdu) /\ ~(step < LastChunk) /\ rapdu # NoResponse
    BY <1>1, <1>3, <1>9 DEF IsError, NoResponse
  <2>2. /\ Holds(LastChunk) /\ rapdu.has_more = InputCount - Len(got) - 1
        /\ state = "STATE_APPROVED" /\ signing_input_index = Len(got) + 1
    BY <1>1, <2>1 DEF Awaited, IsSignatureFor
  <2>3. Len(got) \in Nat /\ Len(got') = Len(got) + 1
    BY <1>9, AppendOne DEF HostInv, HostTypeOK
  <2>4. Len(got') < InputCount
    BY <1>3, <1>9, <2>2, <2>3 DEF WantsMore
  <2>5. Len(got) = step - LastChunk
    <3>1. CASE step = LastChunk
      <4>1. got = <<>>
        BY <1>1, <1>3, <3>1
      <4>2. QED
        BY <1>1, <1>3, <3>1, <4>1
    <3>2. CASE step > LastChunk
      BY <1>1, <1>3, <3>2
    <3>3. QED
      BY <1>1, <1>3, <1>9, <3>1, <3>2
  <2>6. step' > LastChunk' /\ ~(step' <= LastChunk') /\ Len(got') = step' - LastChunk'
    BY <1>1, <1>2, <1>3, <1>9, <2>3, <2>5
  <2>7. Holds(LastChunk)'
    BY <1>1, <1>2, <1>4, <2>2, HoldsKept
  <2>8. Between'
    BY <1>4, <2>2, <2>3, <2>6, <2>7 DEF Between
  <2>9. QED
    BY <1>1, <1>2, <1>6, <2>4, <2>6, <2>8 DEF AttemptInv
<1>10. QED
  <2>1. \/ outcome' # "running"
        \/ rapdu = SW("SW_OK") /\ step < LastChunk /\ step' = step + 1 /\ got' = got
        \/ /\ rapdu.kind = "signature" /\ step >= LastChunk /\ WantsMore
           /\ got' = Append(got, rapdu) /\ step' = step + 1
    BY DEF Take
  <2>2. QED
    BY <1>7, <1>8, <1>9, <2>1

\* A new attempt starts from nothing.
LEMMA BeginAttemptInv == HostInv /\ Begin => AttemptInv'
<1> SUFFICES ASSUME HostInv, Begin PROVE AttemptInv'
  OBVIOUS
<1>1. /\ job' \in Jobs /\ step' = 0 /\ waiting' = FALSE /\ got' = <<>> /\ screen' = screen
      /\ outcome # "running"
  BY DEF Begin, vars
<1>2. screen'.kind # "transaction"
  BY <1>1 DEF HostInv, HostTypeOK, AttemptInv
<1>3. 0 <= LastChunk'
  <2>1. Len(job'.outputs) \in 1 .. 2 /\ Len(job'.inputs) \in 1 .. MaxInputCount
    BY <1>1, JobFacts
  <2>2. \A a \in 1 .. 2, b \in 1 .. MaxInputCount : 0 <= a + b
    BY WidthAssumption
  <2>3. 0 <= Len(job'.outputs) + Len(job'.inputs)
    BY <2>1, <2>2, Zenon
  <2>4. QED
    BY <2>3, Zenon DEF LastChunk, OutputCount, InputCount
<1>4. Between'
  BY <1>1 DEF Between
<1>5. QED
  BY <1>1, <1>2, <1>3, <1>4 DEF AttemptInv

\* Another program, or a restart, ends the session, or leaves it alone
\* (get_public_key.c:36, sign_msg.c:37, app_main.c:43).
LEMMA DisturbedAttemptInv ==
    ASSUME HostInv, ~waiting, UNCHANGED <<job, step, waiting, got, outcome>>, disturbed',
           screen'.kind # "transaction",
           NotASession' \/ UNCHANGED context
    PROVE  AttemptInv'
<1>1. waiting' = FALSE
  BY DEF HostInv, HostTypeOK
<1>2. /\ step \in Nat /\ job \in Jobs
      /\ outcome = "running" =>
             /\ IF step <= LastChunk THEN got = <<>>
                ELSE Len(got) = step - LastChunk /\ Len(got) < InputCount
             /\ Between
  BY DEF HostInv, HostTypeOK, AttemptInv
<1>3. OutputCount' = OutputCount /\ InputCount' = InputCount /\ LastChunk' = LastChunk
  BY SameCounts
<1>4. CASE NotASession'
  <2>1. Between'
    BY <1>2, <1>4 DEF Between
  <2>2. QED
    BY <1>1, <1>2, <1>3, <2>1 DEF AttemptInv
<1>5. CASE UNCHANGED context
  <2>1. UNCHANGED <<req_type, tx, parsing_output_index, parsing_input_index,
                    signing_input_index, state>>
    BY <1>5 DEF context, txInfo
  <2>2. \A n \in Int : Holds(n) => Holds(n)'
    BY <2>1, HoldsKept
  <2>3. NotASession' = NotASession
    BY <2>1 DEF NotASession
  <2>4. LastChunk \in Int /\ step - 1 \in Int
    BY <1>2, Counts
  <2>5. Between => Between'
    <3>1. Holds(step - 1) => Holds(step - 1)'
      BY <2>2, <2>4
    <3>2. Holds(LastChunk) => Holds(LastChunk)'
      BY <1>3, <2>2, <2>4
    <3>3. QED
      BY <1>3, <2>1, <2>3, <3>1, <3>2 DEF Between
  <2>6. QED
    BY <1>1, <1>2, <1>3, <2>5 DEF AttemptInv
<1>6. QED
  BY <1>4, <1>5

\* Another program gets a command in between two exchanges.
LEMMA InterludeAttemptInv == HostInv /\ Interlude => AttemptInv'
<1> SUFFICES ASSUME HostInv, Interlude PROVE AttemptInv'
  OBVIOUS
<1>1. ~waiting /\ Idle /\ disturbed' /\ UNCHANGED <<job, step, waiting, got, outcome>>
  BY DEF Interlude
<1>2. CASE GetInfo
  <2>1. UNCHANGED context /\ screen' = screen
    BY <1>2 DEF GetInfo, Respond
  <2>2. QED
    BY <1>1, <2>1, IdleMenu, DisturbedAttemptInv
<1>3. CASE ReceiveGetPublicKey \/ ReceiveSignMessage
  <2>1. NotASession'
    BY <1>3 DEF ReceiveGetPublicKey, ReceiveSignMessage, handler_get_public_key,
                handler_sign_msg, NotASession
  <2>2. screen' = screen \/ screen'.kind \in {"message", "address"}
    <3>1. CASE ReceiveGetPublicKey
      <4>1. PICK p, len, key, display : Respond(key) \/ DisplayAddress(p, len, display)
        BY <3>1 DEF ReceiveGetPublicKey, handler_get_public_key
      <4>2. QED
        BY <4>1 DEF DisplayAddress, Show, Respond, AddressReview
    <3>2. CASE ReceiveSignMessage
      <4>1. PICK m, r : Respond(r) \/ DisplayMessage(m)
        BY <3>2 DEF ReceiveSignMessage, handler_sign_msg
      <4>2. QED
        BY <4>1 DEF DisplayMessage, Show, Respond, MessageReview
    <3>3. QED
      BY <1>3, <3>1, <3>2
  <2>3. QED
    BY <1>1, <2>1, <2>2, IdleMenu, DisturbedAttemptInv
<1>4. QED
  BY <1>2, <1>3 DEF Interlude

\* The device restarts, in the middle of an exchange or between two.
LEMMA RestartAttemptInv == HostInv /\ DeviceRestart => AttemptInv'
<1> SUFFICES ASSUME HostInv, DeviceRestart PROVE AttemptInv'
  OBVIOUS
<1>1. /\ NotASession' /\ screen'.kind # "transaction" /\ disturbed'
      /\ UNCHANGED <<job, step, got>>
  BY DEF DeviceRestart, Restart, ClearContext, NotASession, Menu
<1>2. CASE outcome' # "running" /\ waiting' = FALSE
  BY <1>1, <1>2 DEF AttemptInv
<1>3. CASE ~waiting /\ UNCHANGED <<outcome, waiting>>
  BY <1>1, <1>3, DisturbedAttemptInv
<1>4. QED
  BY <1>2, <1>3 DEF DeviceRestart

\* The user answers the review of the transaction, and the client is given the
\* first signature or an error, or answers a review of another program
\* (validate.c:33-74).
LEMMA AnswerAttemptInv == HostInv /\ UserAnswer => AttemptInv'
<1> SUFFICES ASSUME HostInv, UserAnswer PROVE AttemptInv'
  OBVIOUS
<1>1. Answer /\ UNCHANGED <<job, step, waiting, got, outcome, disturbed>>
  BY DEF UserAnswer, client
<1>2. screen.kind \in {"transaction", "message", "address"} /\ screen' = Menu
  BY <1>1 DEF Answer, Approve, Reject, ApproveTransaction, ApproveMessage, ApproveAddress,
              RejectTransaction, RejectMessage, RejectAddress, Answered
<1>3. ~Idle /\ Idle' /\ screen'.kind = "menu"
  BY <1>2, IdleMenu DEF Idle, Menu
<1>4. OutputCount' = OutputCount /\ InputCount' = InputCount /\ LastChunk' = LastChunk
  BY <1>1, SameCounts
<1>5. /\ TypeOK /\ job \in Jobs /\ step \in Nat
      /\ OutputCount \in 1 .. 2 /\ InputCount \in Nat /\ InputCount > 0
      /\ LastChunk = OutputCount + InputCount
  BY Counts DEF HostInv, HostTypeOK, SafetyInv
<1>6. CASE waiting
  <2>1. outcome = "running" /\ Awaited /\ waiting' = waiting
    BY <1>1, <1>6 DEF HostInv, AttemptInv
  <2>2. /\ step = LastChunk /\ Holds(LastChunk) /\ signing_input_index = 0
        /\ screen.kind = "transaction"
    BY <1>3, <2>1 DEF Awaited
  <2>3. got = <<>> /\ Len(got) = 0 /\ step >= LastChunk
    BY <1>5, <2>1, <2>2 DEF HostInv, AttemptInv
  <2>4. ApproveTransaction \/ RejectTransaction
    BY <1>1, <2>2 DEF Answer, Approve, Reject, ApproveMessage, ApproveAddress,
                      RejectMessage, RejectAddress
  <2>5. Awaited'
    <3>1. CASE ApproveTransaction
      <4>1. SignInput(TransactionConsent, {})
        BY <3>1 DEF ApproveTransaction
      <4>2. 0 \in Nat /\ 0 < InputCount
        BY <1>5
      <4>3. /\ Holds(LastChunk)'
            /\ \/ IsError(rapdu')
               \/ IsSignatureFor(0)' /\ state' = "STATE_APPROVED" /\ signing_input_index' = 0 + 1
        BY <1>1, <1>5, <2>2, <4>1, <4>2, SignHeld
      <4>4. Len(got)' = 0 /\ step' >= LastChunk'
        BY <1>1, <1>4, <2>3
      <4>5. QED
        BY <1>3, <4>3, <4>4 DEF Awaited
    <3>2. CASE RejectTransaction
      <4>1. /\ rapdu' = SW("SW_DENY")
            /\ UNCHANGED <<req_type, tx, parsing_output_index, parsing_input_index>>
        BY <3>2 DEF RejectTransaction, Answered, txInfo
      <4>2. Holds(LastChunk)'
        BY <1>1, <1>4, <2>2, <4>1, HoldsKept
      <4>3. IsError(rapdu')
        BY <4>1 DEF IsError, SW
      <4>4. step' >= LastChunk'
        BY <1>1, <1>4, <2>3
      <4>5. QED
        BY <1>3, <4>2, <4>3, <4>4 DEF Awaited
    <3>3. QED
      BY <2>4, <3>1, <3>2
  <2>6. step' <= LastChunk' /\ got' = <<>>
    BY <1>1, <1>4, <1>5, <2>2, <2>3
  <2>7. QED
    BY <1>1, <1>3, <1>6, <2>1, <2>5, <2>6 DEF AttemptInv
<1>7. CASE ~waiting
  <2>1. screen.kind \in {"message", "address"} /\ waiting' = waiting
    BY <1>1, <1>2, <1>7 DEF HostInv, AttemptInv
  <2>2. NotASession
    BY <2>1 DEF HostInv, SafetyInv, ScreenInv, NotASession
  <2>3. UNCHANGED req_type
    BY <1>1, <2>1 DEF Answer, Approve, Reject, ApproveTransaction, ApproveMessage,
              ApproveAddress, RejectTransaction, RejectMessage, RejectAddress, context
  <2>4. NotASession'
    BY <2>2, <2>3 DEF NotASession
  <2>5. outcome = "running" => step = 0 \/ (step > 0 /\ disturbed)
    BY <1>5, <1>7, <2>2 DEF HostInv, AttemptInv, Between, Holds
  <2>6. outcome = "running" => Between'
    BY <1>1, <2>4, <2>5 DEF Between
  <2>7. outcome = "running" => IF step <= LastChunk THEN got = <<>>
                               ELSE Len(got) = step - LastChunk /\ Len(got) < InputCount
    BY DEF HostInv, AttemptInv
  <2>8. QED
    BY <1>1, <1>3, <1>4, <1>7, <2>1, <2>6, <2>7 DEF AttemptInv
<1>8. QED
  BY <1>6, <1>7

\* A step of neither client nor device.
LEMMA StutterAttemptInv == HostInv /\ UNCHANGED hostvars => AttemptInv'
<1> SUFFICES ASSUME HostInv, UNCHANGED hostvars PROVE AttemptInv'
  OBVIOUS
<1>1. /\ UNCHANGED <<job, step, waiting, got, outcome, disturbed>>
      /\ UNCHANGED <<state, req_type, tx, parsing_output_index, parsing_input_index,
                     signing_input_index, screen, rapdu>>
  BY DEF hostvars, vars, client, context, txInfo
<1>2. step \in Nat /\ job \in Jobs /\ LastChunk \in Int /\ step - 1 \in Int
  BY Counts DEF HostInv, HostTypeOK
<1>3. OutputCount' = OutputCount /\ InputCount' = InputCount /\ LastChunk' = LastChunk
  BY <1>1, SameCounts
<1>4. \A n \in Int : Holds(n) => Holds(n)'
  BY <1>1, HoldsKept
<1>5. NotASession' = NotASession /\ Idle' = Idle
  BY <1>1 DEF NotASession, Idle
<1>6. IsSignatureFor(Len(got)) => IsSignatureFor(Len(got))'
  BY <1>1, <1>3 DEF IsSignatureFor
<1>7. Awaited => Awaited'
  BY <1>1, <1>2, <1>3, <1>4, <1>5, <1>6 DEF Awaited
<1>8. Between => Between'
  BY <1>1, <1>2, <1>3, <1>4, <1>5 DEF Between
<1>9. QED
  BY <1>1, <1>3, <1>7, <1>8 DEF HostInv, AttemptInv

\* Every step of the composition preserves the agreement.
LEMMA NextAttemptInv == HostInv /\ [HostNext]_hostvars => AttemptInv'
  BY SendAttemptInv, TakeAttemptInv, BeginAttemptInv, InterludeAttemptInv,
     RestartAttemptInv, AnswerAttemptInv, StutterAttemptInv DEF HostNext

\* Client and device agree on how far an attempt has come, in every attempt,
\* through refusals, restarts and commands of other programs
\* (sign_tx.c:48-141, validate.c:41, test_sign_cmd.py:600-631).
THEOREM AttemptInvariant == HostSpec => []AttemptInv
<1>1. HostInit => AttemptInv
  <2> SUFFICES ASSUME HostInit PROVE AttemptInv
    OBVIOUS
  <2>1. /\ job \in Jobs /\ step = 0 /\ waiting = FALSE /\ got = <<>> /\ screen = Menu
    BY DEF HostInit, Init
  <2>2. 0 <= LastChunk
    BY <2>1, Counts
  <2>3. Between
    BY <2>1 DEF Between
  <2>4. QED
    BY <2>1, <2>2, <2>3 DEF AttemptInv, Menu
<1>2. SafetyInv /\ HostTypeOK /\ AttemptInv /\ [HostNext]_hostvars => AttemptInv'
  BY NextAttemptInv DEF HostInv
<1>3. QED
  BY <1>1, <1>2, ClientIsAHost, SafetyInvariant, HostTypeCorrect, PTL DEF HostSpec

\* All that the properties of the client are proved from holds.
LEMMA HostInvariant == HostSpec => []HostInv
<1>1. SafetyInv /\ HostTypeOK /\ AttemptInv => HostInv
  BY DEF HostInv
<1>2. QED
  BY <1>1, ClientIsAHost, SafetyInvariant, HostTypeCorrect, AttemptInvariant, PTL

-----------------------------------------------------------------------------
(* What the client relies on *)

\* A response that is taken as a signature is the one the client waits for.
LEMMA TakenSignature ==
    ASSUME HostInv, Take, rapdu.kind = "signature", step >= LastChunk
    PROVE  IsSignatureFor(Len(got)) /\ Len(got) \in Nat /\ job \in Jobs
<1>1. Awaited /\ step \in Nat /\ job \in Jobs
  BY DEF HostInv, HostTypeOK, AttemptInv, Take
<1>2. ~IsError(rapdu) /\ rapdu # NoResponse /\ ~(step < LastChunk)
  BY <1>1, Counts DEF IsError, NoResponse
<1>3. QED
  BY <1>1, <1>2, GotLength DEF Awaited, HostInv

\* Only the client's own steps change what it has received.
LEMMA GotCases ==
    ASSUME HostInv, [HostNext]_hostvars
    PROVE  \/ UNCHANGED <<job, got, outcome>>
           \/ got' = <<>> /\ outcome' = "running"
           \/ UNCHANGED <<job, got>> /\ outcome' # "done"
           \/ /\ Take /\ job' = job /\ rapdu.kind = "signature" /\ step >= LastChunk
              /\ got' = Append(got, rapdu)
              /\ WantsMore \/ outcome' = "done"
              /\ WantsMore => outcome' = outcome
<1>1. CASE Send
  BY <1>1 DEF Send
<1>2. CASE Take
  <2>1. outcome = "running" /\ job' = job
    BY <1>2 DEF Take
  <2>2. QED
    BY <1>2, <2>1 DEF Take
<1>3. CASE Begin
  BY <1>3 DEF Begin
<1>4. CASE Interlude
  BY <1>4 DEF Interlude
<1>5. CASE DeviceRestart
  <2>1. UNCHANGED <<job, got>> /\ (outcome' = outcome \/ outcome' = "failed")
    BY <1>5 DEF DeviceRestart
  <2>2. QED
    BY <2>1
<1>6. CASE UserAnswer \/ UNCHANGED hostvars
  BY <1>6 DEF UserAnswer, client, hostvars
<1>7. QED
  BY <1>1, <1>2, <1>3, <1>4, <1>5, <1>6 DEF HostNext

\* The k-th signature the client receives is for its k-th input and signs the
\* hash the client computes from its own transaction, in every attempt, after
\* any refusals, restarts and commands of other programs
\* (test_sign_cmd.py:620, :631, sign_tx.c:48, validate.c:41).
THEOREM SignaturesMatch == HostSpec => []SignaturesMatchTheJob
<1>1. HostInit => SignaturesMatchTheJob
  BY DEF HostInit, SignaturesMatchTheJob
<1>2. HostInv /\ SignaturesMatchTheJob /\ [HostNext]_hostvars => SignaturesMatchTheJob'
  <2> SUFFICES ASSUME HostInv, SignaturesMatchTheJob, [HostNext]_hostvars
               PROVE  SignaturesMatchTheJob'
    OBVIOUS
  <2>1. CASE UNCHANGED <<job, got>>
    BY <2>1 DEF SignaturesMatchTheJob
  <2>2. CASE got' = <<>>
    BY <2>2 DEF SignaturesMatchTheJob
  <2>3. CASE /\ Take /\ job' = job /\ rapdu.kind = "signature" /\ step >= LastChunk
             /\ got' = Append(got, rapdu)
    <3>1. /\ rapdu.input_index = Len(got) /\ rapdu.hash = get_sighash(job, Len(got))
          /\ Len(got) \in Nat
      BY <2>3, TakenSignature DEF IsSignatureFor
    <3>2. /\ DOMAIN got = 1 .. Len(got) /\ DOMAIN got' = 1 .. Len(got) + 1
          /\ \A k \in 1 .. Len(got) : got'[k] = got[k]
          /\ got'[Len(got) + 1] = rapdu
      BY <2>3, AppendOne DEF HostInv, HostTypeOK
    <3> SUFFICES ASSUME NEW k \in 1 .. Len(got) + 1
                 PROVE  /\ got'[k].input_index = k - 1
                        /\ got'[k].hash = get_sighash(job', k - 1)
      BY <3>2 DEF SignaturesMatchTheJob
    <3>3. CASE k = Len(got) + 1
      <4>1. k - 1 = Len(got)
        BY <3>1, <3>3
      <4>2. QED
        BY <2>3, <3>1, <3>2, <3>3, <4>1
    <3>4. CASE k # Len(got) + 1
      <4>1. k \in 1 .. Len(got)
        BY <3>1, <3>4
      <4>2. QED
        BY <2>3, <3>2, <4>1 DEF SignaturesMatchTheJob
    <3>5. QED
      BY <3>3, <3>4
  <2>4. QED
    BY <2>1, <2>2, <2>3, GotCases
<1>3. QED
  BY <1>1, <1>2, HostInvariant, PTL DEF HostSpec

\* A client that stops asking has a signature for every input: has_more reaches
\* 0 at the last input and not before, and the client's limit on its turns
\* never cuts it short (send_reponse.c:54, test_sign_cmd.py:623).
THEOREM DoneMeansComplete == HostSpec => []DoneIsComplete
<1>1. HostInit => DoneIsComplete
  BY DEF HostInit, DoneIsComplete
<1>2. HostInv /\ DoneIsComplete /\ [HostNext]_hostvars => DoneIsComplete'
  <2> SUFFICES ASSUME HostInv, DoneIsComplete, [HostNext]_hostvars, outcome' = "done"
               PROVE  Len(got') = InputCount'
    BY DEF DoneIsComplete
  <2>1. CASE UNCHANGED <<job, got, outcome>>
    BY <2>1, SameCounts DEF DoneIsComplete
  <2>2. CASE /\ Take /\ job' = job /\ rapdu.kind = "signature" /\ step >= LastChunk
             /\ got' = Append(got, rapdu) /\ ~WantsMore
    <3>1. /\ rapdu.has_more = InputCount - Len(got) - 1 /\ Len(got) \in Nat /\ job \in Jobs
      BY <2>2, TakenSignature DEF IsSignatureFor
    <3>2. Len(got') = Len(got) + 1
      BY <2>2, AppendOne DEF HostInv, HostTypeOK
    <3>3. Len(got) < InputCount
      <4>1. step \in Nat /\ IF step <= LastChunk THEN got = <<>> ELSE Len(got) < InputCount
        BY <2>2 DEF HostInv, HostTypeOK, AttemptInv, Take
      <4>2. 0 < InputCount /\ Len(<<>>) = 0
        BY <3>1, Counts
      <4>3. QED
        BY <4>1, <4>2
    <3>4. /\ InputCount \in 1 .. MaxInputCount /\ MaxInputCount \in Nat
          /\ MaxResponses \in Nat /\ MaxResponses > MaxInputCount
      BY <3>1, Counts, HostAssumption
    <3>5. Len(got) + 1 < MaxResponses
      BY <3>1, <3>3, <3>4
    <3>6. ~(rapdu.has_more > 0)
      BY <2>2, <3>5 DEF WantsMore
    <3>7. Len(got) + 1 = InputCount
      BY <3>1, <3>3, <3>4, <3>6
    <3>8. QED
      BY <2>2, <3>2, <3>7, SameCounts
  <2>3. CASE WantsMore /\ Take /\ outcome' = outcome
    BY <2>3 DEF Take
  <2>4. QED
    BY <2>1, <2>2, <2>3, GotCases
<1>3. QED
  BY <1>1, <1>2, HostInvariant, PTL DEF HostSpec

\* The chunks of a sound transaction are taken one after the other, whatever
\* an earlier attempt left behind, and only the review of all of it may end
\* the attempt (sign_tx.c:59-141).
THEOREM ChunksAreTaken == HostSpec => []NothingIsRefusedMidway
<1>1. HostInv => NothingIsRefusedMidway
  <2> SUFFICES ASSUME HostInv, waiting, ~disturbed
               PROVE  IF step < LastChunk THEN rapdu = SW("SW_OK") ELSE AllReceived
    BY DEF NothingIsRefusedMidway
  <2>1. Awaited /\ step \in Nat /\ job \in Jobs
    BY DEF HostInv, HostTypeOK, AttemptInv
  <2>2. CASE step < LastChunk
    <3>1. ~(step >= LastChunk)
      BY <2>1, <2>2, Counts
    <3>2. QED
      BY <2>1, <2>2, <3>1 DEF Awaited
  <2>3. CASE ~(step < LastChunk)
    <3>1. Holds(LastChunk)
      BY <2>1, <2>3 DEF Awaited
    <3>2. /\ (IF LastChunk < OutputCount THEN LastChunk ELSE OutputCount) = OutputCount
          /\ LastChunk - OutputCount = InputCount
      BY <2>1, Counts
    <3>3. AllReceived
      BY <3>1, <3>2 DEF Holds, AllReceived
    <3>4. QED
      BY <2>3, <3>3
  <2>4. QED
    BY <2>2, <2>3
<1>2. QED
  BY <1>1, HostInvariant, PTL
=============================================================================
