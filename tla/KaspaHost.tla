----------------------------- MODULE KaspaHost ------------------------------
(***************************************************************************)
(* The application together with the client of its tests                   *)
(* (tests/application_client, test_sign_cmd.py): the client sends one      *)
(* transaction chunk by chunk, waits for the user's answer, and asks for   *)
(* signatures while the responses say that there are more.                 *)
(*                                                                         *)
(* The device may restart at any time, another program may ask it for a    *)
(* key or a message signature between two exchanges, and the client, which *)
(* gives up at the first error, may try again, with the same transaction   *)
(* or another one.                                                         *)
(***************************************************************************)
EXTENDS KaspaSafety

CONSTANTS
    Jobs,           \* the transactions the client may be asked to have signed
    MaxResponses    \* the responses it takes before it gives up: 201

VARIABLES
    job,        \* the transaction of this attempt
    step,       \* the chunks and commands of the attempt that were answered
    waiting,    \* a command was sent and its response is awaited
    got,        \* the signatures received
    outcome,    \* "running", "done" or "failed"
    disturbed   \* history: the device has restarted, or served another
                \* program, during the attempt

client   == <<job, step, waiting, got, outcome, disturbed>>
hostvars == <<vars, client>>

-----------------------------------------------------------------------------
(* Transaction.serialize_first_chunk and the serialize of its parts *)

HeaderOf(j) ==
    [size |-> 13, version |-> j.version, n_output |-> Len(j.outputs),
     n_input |-> Len(j.inputs), change_type |-> j.change_type,
     change_index |-> j.change_index, account |-> j.account]

OutputOf(txout) ==
    [size |-> 8 + ScriptLen(txout.script.kind), value |-> txout.value,
     script |-> txout.script, wellformed |-> TRUE]

InputOf(txin) ==
    [size |-> 46, value |-> txin.value, tx_id |-> txin.tx_id,
     address_type |-> txin.address_type, address_index |-> txin.address_index,
     index |-> txin.index]

\* A transaction the client can serialise into chunks that the application
\* parses; whether it passes the validation is another matter.
SoundJob(j) ==
    /\ j.outputs \in Seq(Outputs) /\ j.inputs \in Seq(Inputs)
    /\ HeaderOK(HeaderOf(j))
    /\ \A k \in DOMAIN j.outputs : OutputOK(OutputOf(j.outputs[k]))

ASSUME HostAssumption ==
    /\ \A j \in Jobs : SoundJob(j)
    /\ MaxResponses \in Nat /\ MaxResponses > MaxInputCount

\* The client is one of the hosts of KaspaApp: its chunks are among the payloads.
ASSUME ClientAssumption ==
    \A j \in Jobs :
        /\ HeaderOf(j) \in Headers
        /\ \A k \in DOMAIN j.outputs : OutputOf(j.outputs[k]) \in OutputPayloads
        /\ \A k \in DOMAIN j.inputs : InputOf(j.inputs[k]) \in InputPayloads

\* Sighash.to_hash: the hash the client expects for input i, from its own data.
get_sighash(j, i) ==
    LET txin == j.inputs[i + 1]
        spent(t) == [tx_id |-> t.tx_id, index |-> t.index]
        public_key == PublicKey(KaspaPath(j.account, txin.address_type, txin.address_index))
    IN  [version      |-> j.version,
         prev_outputs |-> [k \in 0 .. Len(j.inputs) - 1 |-> spent(j.inputs[k + 1])],
         outpoint     |-> spent(txin),
         script       |-> [kind |-> "schnorr", key |-> public_key],
         value        |-> txin.value,
         outputs      |-> [k \in 0 .. Len(j.outputs) - 1 |-> j.outputs[k + 1]]]

-----------------------------------------------------------------------------
(* One exchange: a command is sent, its response is taken *)

OutputCount == Len(job.outputs)
InputCount  == Len(job.inputs)
LastChunk   == OutputCount + InputCount

\* Steps 0 .. LastChunk are sign_tx, the later ones get_next_signature.
SendCommand ==
    \/ step = 0 /\ SignTxHeader(HeaderOf(job))
    \/ /\ step \in 1 .. OutputCount
       /\ SignTxOutput(OutputOf(job.outputs[step]))
    \/ /\ step \in OutputCount + 1 .. LastChunk
       /\ SignTxInput(InputOf(job.inputs[step - OutputCount]), step < LastChunk)
    \/ step > LastChunk /\ NextSignature

Send ==
    /\ outcome = "running" /\ ~waiting /\ Idle
    /\ SendCommand
    /\ waiting' = TRUE
    /\ UNCHANGED <<job, step, got, outcome, disturbed>>

\* has_more > 0, and the limit on the number of turns.
WantsMore == rapdu.has_more > 0 /\ Len(got) + 1 < MaxResponses

Take ==
    /\ outcome = "running" /\ waiting /\ rapdu.kind # "none"
    /\ waiting' = FALSE
    /\ \/ /\ rapdu = SW("SW_OK") /\ step < LastChunk
          /\ step' = step + 1
          /\ UNCHANGED <<got, outcome>>
       \/ /\ rapdu.kind = "signature" /\ step >= LastChunk
          /\ got' = Append(got, rapdu)
          /\ IF WantsMore THEN step' = step + 1 /\ UNCHANGED outcome
                          ELSE outcome' = "done" /\ UNCHANGED step
       \/ /\ rapdu.kind = "sw" /\ rapdu # SW("SW_OK")
          /\ outcome' = "failed"
          /\ UNCHANGED <<step, got>>
    /\ UNCHANGED <<vars, job, disturbed>>

\* The next attempt.
Begin ==
    /\ outcome # "running"
    /\ job' \in Jobs
    /\ step' = 0 /\ waiting' = FALSE /\ got' = <<>> /\ outcome' = "running" /\ disturbed' = FALSE
    /\ UNCHANGED vars

\* The exchange under way fails with the device; between two exchanges the
\* client may not notice.
DeviceRestart ==
    /\ Restart
    /\ disturbed' = TRUE
    /\ \/ outcome' = (IF outcome = "running" THEN "failed" ELSE outcome) /\ waiting' = FALSE
       \/ ~waiting /\ UNCHANGED <<outcome, waiting>>
    /\ UNCHANGED <<job, step, got>>

\* Another program gets a command in, once in an attempt.
Interlude ==
    /\ ~waiting /\ ~disturbed /\ Idle
    /\ GetInfo \/ ReceiveGetPublicKey \/ ReceiveSignMessage
    /\ disturbed' = TRUE
    /\ UNCHANGED <<job, step, waiting, got, outcome>>

UserAnswer == Answer /\ UNCHANGED client

HostInit ==
    /\ Init
    /\ job \in Jobs
    /\ step = 0 /\ waiting = FALSE /\ got = <<>> /\ outcome = "running" /\ disturbed = FALSE

HostNext == Send \/ Take \/ Begin \/ Interlude \/ DeviceRestart \/ UserAnswer

\* The client does not stop in the middle of an attempt, and a user in front
\* of a review answers it.  Nobody has to start another attempt.
HostSpec ==
    /\ HostInit /\ [][HostNext]_hostvars
    /\ WF_hostvars(Send) /\ WF_hostvars(Take) /\ WF_hostvars(UserAnswer)

-----------------------------------------------------------------------------
\* The k-th signature the client receives is for its k-th input and signs the
\* hash the client computes from its own transaction, whatever attempts,
\* failures, restarts and requests of other programs came before
\* (test_sign_cmd.py:620, :631).
SignaturesMatchTheJob ==
    \A k \in DOMAIN got :
        got[k].input_index = k - 1 /\ got[k].hash = get_sighash(job, k - 1)

\* A client that stops asking has a signature for every input
\* (test_sign_cmd.py:623, send_reponse.c:54).
DoneIsComplete == outcome = "done" => Len(got) = InputCount

\* The chunks of a sound transaction are taken one after the other, whatever
\* the previous attempt left behind: only the review of all of it may end it
\* (sign_tx.c:59-141).
NothingIsRefusedMidway ==
    waiting /\ ~disturbed =>
        IF step < LastChunk THEN rapdu = SW("SW_OK") ELSE AllReceived

\* Every attempt comes to an end: each command is answered, by the device or
\* by the user, and the signatures run out (validate.c:41, sign_tx.c:48).
AttemptEnds == outcome = "running" ~> outcome # "running"

-----------------------------------------------------------------------------
(* The inductive invariant behind the safety of the client *)

\* The device holds the header of the job, and the first n of its chunks.
Holds(n) ==
    LET outputs == IF n < OutputCount THEN n ELSE OutputCount
        inputs  == n - outputs
    IN  /\ ~NotASession
        /\ tx.version = job.version /\ tx.account = job.account
        /\ tx.tx_output_len = OutputCount /\ tx.tx_input_len = InputCount
        /\ parsing_output_index = outputs /\ parsing_input_index = inputs
        /\ \A o \in 0 .. outputs - 1 : tx.tx_outputs[o] = job.outputs[o + 1]
        /\ \A i \in 0 .. inputs - 1 : tx.tx_inputs[i] = job.inputs[i + 1]

IsError(r) == r.kind = "sw" /\ r # SW("SW_OK")

\* The response is the signature of input i that the client expects.
IsSignatureFor(i) ==
    /\ rapdu.kind = "signature" /\ rapdu.input_index = i
    /\ rapdu.hash = get_sighash(job, i)
    /\ rapdu.has_more = InputCount - i - 1

\* Between two exchanges the device has what was sent, or a disturbance has
\* made it forget the session.
Between ==
    \/ step = 0
    \/ step > 0 /\ disturbed /\ NotASession
    \/ step \in 1 .. LastChunk /\ Holds(step - 1) /\ signing_input_index = 0
    \/ /\ step > LastChunk /\ Holds(LastChunk)
       /\ state = "STATE_APPROVED" /\ signing_input_index = Len(got)

\* What the client waits for is on its way, or an error is; only a whole
\* transaction is under review.
Awaited ==
    \/ disturbed /\ IsError(rapdu) /\ Idle
    \/ /\ step < LastChunk /\ Holds(step) /\ signing_input_index = 0
       /\ rapdu = SW("SW_OK") /\ Idle
    \/ /\ step >= LastChunk /\ Holds(LastChunk)
       /\ \/ IsError(rapdu) /\ Idle
          \/ /\ step = LastChunk /\ signing_input_index = 0
             /\ rapdu = NoResponse /\ screen.kind = "transaction"
          \/ /\ IsSignatureFor(Len(got)) /\ Idle
             /\ state = "STATE_APPROVED" /\ signing_input_index = Len(got) + 1

\* The client and the device agree on how far the attempt has come, through
\* refusals, restarts and other programs (sign_tx.c:48-141, validate.c:41,
\* test_sign_cmd.py:600-631).
AttemptInv ==
    /\ waiting => outcome = "running" /\ Awaited
    /\ screen.kind = "transaction" => waiting
    /\ outcome = "running" =>
           /\ IF step <= LastChunk THEN got = <<>>
              ELSE Len(got) = step - LastChunk /\ Len(got) < InputCount
           /\ ~waiting => Between
=============================================================================
