# A TLA+ model of the Kaspa application for Ledger devices

The application (`src/src/`, C) signs Kaspa transactions and messages and hands
out public keys. A host sends it one command at a time; the user sees a review
on the device's screen and approves or rejects it. What makes it worth a model
is not concurrency but *protocol*: a transaction arrives in many commands, is
kept in one global structure, is shown once, and is then signed over many more
commands, while the host may send anything at any moment and every command can
fail half-way. The question throughout is whether what is signed is what the
user saw.

## 1. The system

| part | code | state it keeps | operations |
|---|---|---|---|
| main loop, dispatcher | `app_main.c`, `apdu/dispatcher.c` | none | receive a command, check class, instruction, P1, P2 and presence of data, call a handler |
| application context | `types.h`, `globals.h`, `transaction/types.h` | `G_context`: state, request type, a union of three request contexts, a BIP32 path | zeroed at start-up and by new requests |
| transaction parser | `transaction/deserialize.c` | writes into `G_context` | header, output, input |
| transaction rules | `transaction/tx_validate.c`, `transaction/utils.c` | overwrites the BIP32 path | validate, fees, script to address |
| signature hash | `sighash.c` | none | hash of one input |
| SIGN_TX | `handler/sign_tx.c` | transaction context | header, output chunk, input chunk, next signature |
| SIGN_MESSAGE | `handler/sign_msg.c`, `personal_message.c` | message context | read, check, review |
| GET_PUBLIC_KEY | `handler/get_public_key.c` | key context | read a path, derive, answer or review |
| GET_VERSION, GET_APP_NAME | `handler/get_version.c`, `get_app_name.c` | none | answer |
| cryptography | `crypto.c` | path, hash, signature | sign an input, sign a message, compare a change key |
| responses | `helper/send_reponse.c` | none | key, signature of an input, signature of a message |
| reviews | `ui/nbgl_display_*.c`, `ui/bagl_display.c`, `ui/action/validate.c` | the texts on the screen | show; on the answer, sign or refuse |
| message formatting | `common/format_local.c` | none | bytes to text |
| addresses | `address.c`, `import/cashaddr.c` | none | key to text |
| serialisers | `transaction/serialize.c` | none | used by unit tests and fuzzers only |
| blake2b | `import/blake2b.c` | a buffer of one block, a counter | init with a key, update, final |
| menus | `ui/menu_nbgl.c`, `ui/menu_bagl.c` | none | quit |
| debug command | `handler/debug.c` | none | test vectors, optional at build time |
| host client | `tests/application_client/` | what it sent | the intended use of the protocol |

How they interact: the main loop calls the dispatcher, the dispatcher one
handler. A handler either answers, or starts a review and returns with the
answer still owed. The reviews' callbacks (`ui/action/validate.c`) answer
later, from whatever `G_context` then holds. All handlers and callbacks share
`G_context`; there are no locks and no threads.

What is hard:

* *Order.* Every SIGN_TX command is taken in every state of a session. Only a
  handful of tests (`req_type`, `state`, the two parsing indexes) decide what a
  late, early or repeated command may do.
* *Stale data.* The review formats `G_context` once. Signatures read it again,
  many commands later. The BIP32 path serves as the change path of the header
  and as the path of the input being signed.
* *Partial failure.* The parsers write into `G_context` field by field and stop
  at the first error. A rejected header leaves a session open. A signature may
  fail after others have been given.
* *Limits.* One-byte indexes, 64-bit sums, an array of inputs a rejected header
  may announce more than, a path buffer of five components.
* *Restart.* The device can be unplugged at any moment. Nothing is persistent.

What makes each part correct:

* dispatcher: no command reaches a handler that the checks refuse;
* parser: only what parsed to its end counts, and nothing is written outside
  its slot;
* rules: a hidden output belongs to the user; the fees shown are those paid;
* SIGN_TX: no signature without a standing approval, every signature for the
  approved transaction, each input once, and `has_more` reaches 0 exactly when
  the last input was signed;
* SIGN_MESSAGE: the signed bytes are the shown ones, under the shown path;
* GET_PUBLIC_KEY: the returned key is the shown one, and inside Kaspa's tree;
* reviews: an answer is for the request the screen belongs to.

## 2. The modules

```
KaspaTypes          constants, limits, types
  TxDeserialize     the three parsers
    TxRules         validation, totals, fees, paths, what a hash commits to
      AppState      G_context, screen, response; the pieces handlers share
FormatMessage         (also extends into AppState)
        SignTx        SIGN_TX, its review and its answers
        SignMessage   SIGN_MESSAGE
        GetPublicKey  GET_PUBLIC_KEY
          KaspaApp      dispatcher, main loop, user, restart: Spec
            KaspaSafety   the properties
              KaspaRefinement    KaspaApp implements SigningConsent
                MCKaspaApp         payloads for the model checker
                KaspaSafetyProofs  types, safety of signing, fees, order of
                                   signatures, the refinement
              KaspaHost          the client of the tests in place of any host
                MCKaspaHost        its transactions
                KaspaHostProofs    the client and the application (also extends
                                   KaspaSafetyProofs)

SigningConsent      what a signing device promises (abstract)
BaglScreens         screens, buttons and shared buffers of ui/bagl_display.c
                    (proofs: BaglScreensProofs)
Sighash             sighash.c byte by byte (extends TxRules; proofs: SighashProofs)
Blake2b             the streaming hasher (proofs: Blake2bProofs)
CashAddr, Address   the text of an address (proofs: AddressProofs)
MessageContext      the memory of msg_info (proofs: MessageContextProofs)
TxSerialize         parsers and serialisers byte by byte (proofs: TxSerializeProofs)
```

`KaspaApp` composes the components: they interact through the variables of
`AppState`, as the C code does through `G_context`. `KaspaHost` composes the
application with its client. The modules of the second group look closer at what
`KaspaApp` takes in one piece - a hash, an address, a message, a screen, a
payload - and show why it may.

### State

| variable | code |
|---|---|
| `state`, `req_type` | the fields of `G_context` |
| `tx`, `parsing_output_index`, `parsing_input_index`, `signing_input_index` | `tx_info` |
| `message` | `msg_info.message[0 .. message_len - 1]` |
| `raw_public_key` | `pk_info.raw_public_key` |
| `bip32_path`, `bip32_path_len` | the fields of `G_context` |
| `screen` | the menu, or the review the user is asked to answer, with what it shows |
| `rapdu` | the response, or none while one is owed |
| `consent` | history: what was on the screen when it was approved, with the context at that moment |
| `signed` | history: the inputs signed under that consent |
| `header_path` | history: the change path of the session's header |

The history variables are written and never read by the actions. `consent` is
revoked by whatever ends an approval: a new request, a new review, a refused
NEXT_SIGNATURE, a failed signature, a restart.

The three members of the C union are separate variables. That is sound because
a request that starts to use another member zeroes the whole context first
(`sign_tx.c:60`, `sign_msg.c:48`, `get_public_key.c:43`) and each member is read
only under its own `req_type` or from the review of its own request.

### Steps

One action is one command handled to its end (`ReceiveHeader`, `ReceiveOutput`,
`ReceiveInput`, `ReceiveNextSignature`, `ReceiveSignMessage`,
`ReceiveGetPublicKey`, `GetInfo`, `Refused`), one answer of the user
(`ApproveTransaction`, `RejectTransaction`, and so on for messages and
addresses), or `Restart`. Handlers run to their end without interruption, so
this is the granularity of the code. Whatever a handler changes is in its
action: the validation that forces the change path is part of the last input
chunk, the path written before a signature is part of the signature.

A command is received only while no review is pending: `io_recv_command` waits
for the answer to the previous command to be sent, and the answer to a review
is sent by its callback. This is the guard `Idle`.

The host is unconstrained. In every idle state it may send any payload of the
constants `Headers`, `OutputPayloads`, `InputPayloads`, `MessagePayloads`,
`PathPayloads`. A payload is a record: its length in bytes and what its bytes
decode to. The parsers are modelled field by field through the length: which
fields were stored before the parser stopped, and whether it reached the end.

### What is taken from outside the sources

* The SDK's buffer functions store 0 when a field is not all there;
  `buffer_read_bip32_path` refuses 0 and more than 10 components and stores
  components until one is missing.
* Key derivation is injective: a device's key is known by its path. It may fail
  in any call, and so may signing. A failed derivation before the signature of a
  message leaves a zeroed private key, which signing refuses.
* `blake2b` is injective: a hash is known by the fields it commits to.
* Formatting for a review (amount, path) may fail; the handler then answers with
  an error and the session stays in its state.
* A read past `tx_inputs` (possible after a header was rejected for its number
  of inputs, and for `signing_input_index` past the array) yields some member of
  `JunkInputs`. No property depends on what it yields.
* A path of six components or more is written over `bip32_path_len`; the length
  byte then takes any value, and the length check that follows sees it. What a
  seventh component meets behind `G_context` is not modelled.
* One model stands for both user interfaces. They differ in the size of the text
  buffer of a message, which is the constant `TextLen`: `MAX_MESSAGE_LEN` with
  NBGL, six more with BAGL.

### The closer views

* `KaspaHost` - `job` is the transaction the client was given, `step` how far its
  attempt got, `got` the signatures. `Send` and `Take` are the two halves of one
  `exchange` of `kaspa_command_sender.py`: the first 1 + outputs + inputs of them
  are `sign_tx`, the later ones `get_next_signature` in the loop of
  `test_sign_cmd.py:623`. The client gives up at the first error. Around it:
  `Interlude` (another program gets a command in), `DeviceRestart`, `Begin` (the
  next attempt), `UserAnswer`. `disturbed` records whether an attempt was
  interfered with.
* `SigningConsent` and `KaspaRefinement` - the mapping: a review is pending when
  the screen shows one; what is approved is `consent` with the next index
  `signing_input_index`; the output is the response, if it is a signature.
  Reviews of addresses are left out (a key may be asked for without one). A
  review before all chunks had come leaves the content of its signatures open.
* `BaglScreens` - `flow` and `at` are the UX flow and its step, `text` the five
  static buffers, each known by the request it was formatted for, and
  `g_validate_callback` itself. A display function may fail at any text it
  formats: the texts before are overwritten, the failed one is cleared, callback
  and flow stay.
* `Sighash` - `calc_sighash` as the list of its statements (clear a buffer, store
  into it, feed from it), run one at a time; `to_hash` is the client's version
  without buffers. Numbers are bytes, an id, key, script or digest is a value of
  its length.
* `Blake2b` - `S` is `blake2b_state`; the chaining value is the list of what was
  compressed (compression is injective). The reference is RFC 7693's division of
  a keyed message into blocks.
* `CashAddr`, `Address` - bytes and five-bit symbols of their real width, real
  lengths and the real polynomial: the addresses are the real ones. `Read`,
  `ChecksumHolds`, `Program` and `PaysTo` are a wallet's way back.
* `MessageContext` - the cells of `message`, `message_hash`, `signature` and
  `account` one after the other, as the compiler lays out four fields of one
  structure that need no padding between them.
* `TxSerialize` - parsers and serialisers on sequences of bytes: a chunk that is
  accepted, and what the serialiser makes of it.

Definitions whose name ends in `_<Slip>` (`MaySignNext_AnyState`, ...) are
plausible slips in the code of the definition that follows them. No action uses
them; they serve to show that a property fails when the code is wrong there.

## 3. Properties

Type invariant: `TypeOK` - in particular the parsing indexes stay inside the
arrays, which is what makes every store of a parser a store into a slot.

Signing transactions, against any host:

* `SignatureHasConsent` - no signature unless an approval of that kind stands.
* `SignedPaymentIsShown` - the signature commits to the outputs of the approved
  transaction, and the first pays the shown amount to the shown address.
* `SignedChangeIsOwn` - a second output, which is not shown, pays to this device
  under the account that spends.
* `SignedInputIsReviewed` - the signature for an announced input spends that
  input, with the key of its path.
* `SignedFeesAreShown` - inputs = outputs + shown fees, with no borrow.
* `LastSignatureCompletesTheSet` - at `has_more = 0` every input was signed.
* `NoInputSignedTwice` - an action property; holds until the one-byte index has
  taken all its values.
* `CountedOutputsAreScripts` - rejected chunks never count.

The five about contents hold for an approval of a *complete* transaction: all
announced outputs and inputs had arrived. A review may start without that (see
the findings), and for such a review the code makes no promise of this kind.

Messages and addresses: `SignedMessageIsShown`, `ReturnedKeyIsShown`.

Everything above in one: `ImplementsConsent` - the application is a refinement of
`SigningConsent`, in which a review is asked for, approved, and inputs of what was
approved are signed in order, each announcing how many are left, until the
approval ends for good.

With its client: `SignaturesMatchTheJob` (each signature is for the next input
and the hash the client computes itself), `DoneIsComplete`,
`NothingIsRefusedMidway` (what an earlier attempt left behind is in nobody's
way), and the liveness property `AttemptEnds`.

The closer views: `ApprovalSawEverything`, `AnswerGoesToItsRequest`,
`NoStaleText` (screens); `PreimageMatchesClient`, `PreimageIsUnambiguous`
(signature hash); `DigestIsOfTheMessage`, `ABlockIsHeldBack` (hasher);
`AddressLeadsBack`, `ShowsPublishedAddresses`, `MiscopiedAddressIsRefused`
(addresses); `SignatureIsOfTheMessage`, `PathIsOfTheRequest` (long messages);
`RoundTrip` (serialisers).

Inductive invariants, which the runs check as well:

* `ScreenInv` (a pending review belongs to the request in the context and shows
  what the context holds) and `ConsentInv` (a state that permits signatures has an
  approval behind it; an approval of a complete transaction holds on to the
  transaction, because no slot is free any more);
* `FeesInv` (the fees on the screen and those approved are right for a complete
  transaction) and `CountingInv` (the inputs signed so far are those up to
  `signing_input_index`, around the end of the byte when it has wrapped);
* `AttemptInv` (client and device agree on how far an attempt has come: between
  two exchanges the device holds exactly the chunks that were answered, or has
  forgotten the session in a disturbance; while a response is awaited, it is the
  one the client counts on, or an error);
* `BlakeInv` (what came in is compressed block by block, and the rest, 1 to
  `BlockBytes` bytes, is in the buffer; or the digest has been delivered).

## 4. Runs

| run | cfg | what it shows |
|---|---|---|
| `any_host` | `MCAnyHost.cfg` | all properties of signing and the refinement, for any order of requests of every kind, failures, answers and restarts: an approval of one request never serves another |
| `host` | `MCHost.cfg` | the client gets all signatures of its own transaction, and every attempt ends |
| `bagl_screens` | `MCBaglScreens.cfg` | approvals come after all texts of their own request, whatever is pressed |
| `sighash` | `MCSighash.cfg` | the preimage is the client's and identifies the transaction |
| `blake2b` | `MCBlake2b.cfg` | the division into updates does not matter |
| `address` | `MCAddress.cfg` | addresses lead back to the script, equal the published ones, and slips show |
| `message_context` | `MCMessageContext.cfg` | a message longer than its array is signed as it was shown |
| `tx_serialize` | `MCTxSerialize.cfg` | what is parsed is written back as it came |
| `incomplete_review` | `MCIncompleteReview.cfg` | finding 1 |
| `rejected_header` | `MCRejectedHeader.cfg` | finding 2 |
| `stale_path` | `MCStalePath.cfg` | finding 3 |
| `ecdsa_parity` | `MCEcdsaParity.cfg` | finding 4 |

Bounds, and why they are enough to meet every case:

* `any_host`: `ByteMod = 7` - larger than every length and index that
  matters, small enough that `signing_input_index` wraps round within a run.
* `AmountMod = 8` - with values of 1, 2 and 3 the totals are less than, equal to
  and greater than each other; a borrow in the fees is possible.
* `MaxInputCount = 2` - one and two inputs, a header that announces three, and
  signing indexes beyond the array.
* `MaxMessageLen = TextLen = 5` - messages of one and two bytes, escapes, one of
  six bytes, which is too long; the text buffer cuts an escape.
* Headers: sound ones for one and two outputs; rejected at the number of inputs,
  at the account, for missing and for surplus bytes. Outputs: all three kinds of
  script, one cut and one with a surplus byte, two keys of the device, someone
  else's key. Inputs: two sound ones of different value, outpoint and path, and a
  cut one. Messages and paths: one for every check of their handlers.

* `host`: the payloads the application may be sent are the client's own chunks
  and those of the other program; `MaxInputCount = 3`; jobs of one input, of three inputs (two of them
  alike) with change, and one that validation refuses; `MaxResponses = 5` is more
  than any job needs, as 201 is more than 128. One command of another program
  per attempt.
* `bagl_screens`: two requests of each kind are enough for a text of one to be
  mistaken for a text of another.
* `sighash`: `ByteMod = 256` and real lengths; two base transactions and the
  ones that differ from them in one field, so that a width or an order that lets
  two fields run into each other shows.
* `blake2b`: blocks of 4 bytes, updates of 0 to 13 and messages up to 45: every
  alignment of a piece to the blocks, pieces over three blocks; counter words of
  8 values, so that the low one overflows six times.
* `address`: the keys of the unit tests, whose addresses other programs computed;
  all four forms of subject; one letter replaced by either of two, or two
  neighbours exchanged, anywhere in the address.
* `message_context`: an array of 4 cells followed by 2 and 3, messages up to 8 and
  commands up to 11: lengths that end in each of the fields.
* `tx_serialize`: keys of 2 bytes, 8 values of a byte, so that lengths and
  opcodes stay distinct; payloads on both sides of every check.

`any_host`, `host`, `bagl_screens`, `message_context` and `tx_serialize` run with deadlock checking: there is always another command,
answer or button. `sighash`, `blake2b` and `address` are computations that end,
and their cfgs say so.

Fairness is assumed in `KaspaHost` only: weak fairness of `Send`, `Take` and
`UserAnswer`. A client in the middle of an attempt is a program that runs on, so
it sends and reads; the device answers a command it has received in the same
step, because the main loop and its handlers run to their end; and a user in
front of a review answers it, which is an assumption about people - without it
nothing has to happen, since no review has a timeout. No fairness of `Begin`,
restarts or other programs is assumed. With an arbitrary host (`Spec`) no
liveness is claimed.

## 5. Proofs

### The application

`KaspaSafetyProofs` holds for every value of the constants that satisfies
`WidthAssumption` (widths positive, `MaxInputCount` and `MaxMessageLen` below a
byte's range: true of every device in the Makefile), `JunkAssumption` and
`PayloadAssumption` (payload sets are sets of payloads). In particular they hold
for the real widths, for 128 inputs, and for all payloads at once.

* `TypeCorrect`: `Spec => []TypeOK`. `TypeOK` is inductive by itself; one lemma
  per action.
* `SafetyInvariant`: `Spec => [](TypeOK /\ ScreenInv /\ ConsentInv)`. The
  properties of a signature speak of the response only, and say nothing of the
  states in which no signature is on the wire, so they are not inductive. The
  invariant supplies what is missing: what the screen shows is what the context
  holds as long as a review is pending, because no command is received then; and
  once a complete transaction is approved the context keeps it, because
  `NoOutputSlot` and `NoInputSlot` hold. One lemma per action again.
* `ScreenIsCurrent`, `ConsentHolds`: its two parts, which `any_host` checks too.
* `SignatureNeedsConsent`, `PaymentIsShown`, `ChangeIsOwn`, `InputIsReviewed`,
  `MessageIsShown`, `KeyIsShown`: from the invariant, in the step that makes the
  response (`SignatureStep`, `MessageSignatureStep`, `PublicKeyStep`).
* `OutputsAreScripts`: inductive relative to `TypeOK`.
* `FeesInvariant`, `FeesAreShown`. The totals of `tx_validate_parsed_transaction`
  and of `calc_fees` are recursive functions over the inputs. That such a function
  exists, has amounts as values and depends on the parsed slots only is shown by
  induction over the natural numbers, stated with a set in place of a predicate
  (`SetInduction`, from the well-foundedness of `<`). Then the comparison made
  before the review excludes the borrow, and the approval carries the fees on.
* `CountingInvariant`, `LastSignatureCompletes`, `InputsAreSignedOnce` (an action
  property): the set `signed` is an interval that grows at its upper end by the
  index that was just signed. `has_more` is computed modulo a byte, and is 0 for
  an announced input only when the interval has reached the last one.
* `Refinement`: `Spec => ImplementsConsent`, every action of the application
  against the five actions of `SigningConsent`, from the invariants above. Steps are
  told apart by what they do to the screen, the approval and the response
  (`AskStep`, `ApproveTransactionStep`, `NextSignatureStep`, `AnswerStep`,
  `EndStep`).

### The client and the application

`KaspaHostProofs`, from the assumptions above and
`HostAssumption` (the client's transactions are ones it can serialise into chunks
that the application parses, and it takes at least as many responses as there
can be inputs: 201 and 128), `ClientAssumption` (its chunks are among the
payloads, as it is one of the hosts).

* `ClientIsAHost`: `HostSpec => Spec`, so everything proved for any host holds for
  the client, with other programs and restarts around it.
* `AttemptInvariant`, and from it `SignaturesMatch`, `DoneMeansComplete` and
  `ChunksAreTaken`. `SignaturesMatchTheJob` is about signatures the client already
  has; the invariant says why the next one will fit: the device holds the job's
  header and exactly the chunks that were answered (`Holds`), and its index counts
  the signatures the client got.

### The closer views

* `BaglScreensProofs`, for any set of requests: `ReviewsAreOfTheRequest`
  (`UiInv`: request, callback and texts of a review belong together, and the texts
  up to the current screen have been on display), and from it
  `TextIsNeverStale`, `ApprovalComesAfterReading`, `AnswersGoHome`.
* `MessageContextProofs`, for all sizes of the fields with
  `LayoutAssumption` (hash and signature have room for the end of the longest
  message; 128 + 32 + 64 cells for 200): `MsgInvariant` (`MsgInv`: under review
  all of the message is in memory, over whatever fields, and the account behind it
  is intact), `SignatureOfLongMessages`, `PathOfLongMessages`. The order matters:
  the hash is computed before it is stored over the message's end.
* `Blake2bProofs`, for all sizes with `Blake2bAssumption` (a block fits a counter
  word, a key fits a block, the message fits the two words of the counter):
  `BlakeInvariant`, `BlockHeldBack`, `DigestOfTheMessage`. The carry from the low
  counter word is arithmetic (`Carry`); the loop over whole blocks is induction
  over a set again (`AbsorbAllIs`); `UpdateIs` says what one update does to a
  hasher with any number of bytes, and `BlocksIs` that the blocks of RFC 7693 are
  those compressed and the padded buffer.
* `SighashProofs`, from `WidthAssumption` and `SighashAssumption` (the
  transactions are ones the parser accepts: 1 or 2 outputs, 1 to `MaxInputCount`
  inputs, numbers that fit their C types; OP_CHECKSIG, 172, is a byte):
  `DeviceHashesClientPreimage` and `PreimageHasOneReading`.
  `PreimageMatchesClient` speaks of what was fed so far; the inductive invariant
  `PreimageInv` adds what the statements that are left will feed from the buffer
  as it is now: both together are the client's preimage. `Feeds(ss, b, bytes, c)`
  says what a list of statements feeds and leaves in the buffer; it composes
  (`FeedsCat`), goes through loops (`LoopFeeds`) and the hashes inside
  (`FedByAllIs`), and `StatementsFeed` puts the whole of `calc_sighash` together:
  wherever the code feeds bytes it has not just stored, they are zero, because
  the field before was cleared. For the second theorem the fields are taken off
  a preimage again from its end (`PeelFour`): all of them have fixed lengths but
  the outputs inside their digest, where the length before a script tells where it
  ends (`OutputsInjective`); numbers and outpoints are read back (`LEInjective`,
  `TurnsInjective`).
* `TxSerializeProofs`, for keys of any length and any number of values of a byte
  with `SerializeAssumption` (the opcodes and lengths are bytes, a script fits its
  buffer): `ParsedIsWrittenBack`. A number is written with the bytes it was read
  from (`BytesBack`); fields read and written are pieces of the payload that meet
  (`PiecesJoin`); the serialiser of an output finds the end of the script from its
  first bytes, even when the slot holds more (`OutputBack`). The inductive
  invariant `SerialInv` says that the slot of an accepted payload is written as
  that payload and fits the memory.
* `AddressProofs`, for all keys and hashes of 32 bytes, with `AddressAssumption`
  (the inputs are bytes and symbols): `AddressesAreMade`, the inductive invariant
  `AddressMade` (what is on display is an encoding of the program of some key or
  hash, whose script is the subject's, and the copy is one slip away from it), and
  from it
  - `AddressesLeadBack`: `AddressSpec => []AddressLeadsBack`, where the second bytes
    of ECDSA scripts are 2 or 3. Without that hypothesis it is false, which is
    finding 4. A wallet undoes `convert_bits` (`ByteComesBack`: five cases, for the
    five places a byte can begin in; each is a sum of bits), its checksum comes out
    right (`ChecksumComesOut`: a turn of the register is linear, so eight more
    symbols bring it back to its start), and the script in an output's slot is read
    for what it is, whatever the slot held before (`SlotParts`, `ScriptIsRead`).
  - `MiscopiesAreRefused`: `AddressSpec => []MiscopiedAddressIsRefused`, without
    that hypothesis. A turn of the register loses nothing (`TurnIsInjective`, since
    the generators end in the five single bits), so one other symbol stays a
    difference to the end (`OneOtherSymbol`), and two unlike symbols exchanged do
    not cancel (`OrderMatters`, `NeighboursExchanged`).

  The exclusive or of two symbols is defined by their five bits, so that all of
  this is arithmetic on `0 .. 31`.

### Only model-checked

* `AttemptEnds`: liveness under fairness is out of the prover's reach.
* `ShowsPublishedAddresses`: four addresses, letter for letter, are a matter of
  evaluation. It says what no proof can: that the constants of the checksum are the
  ones the rest of the world uses.

## 6. Findings

Where a comment or a document says one thing and the code does another. Each is
shown by a run that violates the property stating the document's claim.

1. `ReviewedTransactionIsComplete`: comments in the header parser
   (`deserialize.c:158`, `:169`) say the announced numbers must match what was
   parsed. Nothing compares them: an input chunk with P2 = last starts the review.
2. `ReviewedAccountIsHardened`: "Account must be hardened"
   (`deserialize.c:190`). The header is rejected but the session is open, and the
   chunks that follow lead to a review with that account.
3. `ReviewedChangeIsAnnounced`: the change path "would've been set by
   transaction_deserialize" (`tx_validate.c:51`). A second review in a session
   compares with the path of the input signed last. The change is still the
   user's (`SignedChangeIsOwn`).
4. `EcdsaAddressLeadsBack`: "either one of 0x02 or 0x03" (`utils.c:75`). The
   parser lets any byte through and the display shows the address of 2 or 3.
   `AddressLeadsBack` holds for outputs with 2 and 3.

Noticed while modelling, and not shown by a run:

* `doc/COMMANDS.md:112` has the context reset after the last signature; nothing
  is reset, and the index runs on (`LastSignatureCompletesTheSet` and
  `NoInputSignedTwice` say what holds all the same).
* `doc/TRANSACTION.md:65` asks for more input than output; the code accepts
  equality, a fee of zero.
* A rejected output is answered with the parser's own negative status
  (`sign_tx.c:98`), not with a word of the table in `doc/COMMANDS.md`.
* "sum(input.values) >= sum(output.values)" (`tx_validate.c:71`) compares sums
  modulo 2^64. With the amounts that exist in practice they do not wrap, and the
  network would refuse such a transaction.
* `address.h:36` has even and odd the wrong way round; the code is right
  (`ShowsPublishedAddresses`).
* `serialize.c:35` and `:81` ask for less room than is written. Only tests and
  fuzzers call these.

## 7. What is not modelled, and the plan

Not modelled:

* contents of stack memory and the wiping of keys (`crypto.c`'s early returns
  inside TRY): no value of the model depends on them;
* the rounds of `blake2b_compress` and the SDK's elliptic curve operations: taken
  as injective, or as failing;
* the debug command: four fixed test vectors handed to the SDK, no state, and no
  build file defines `HAVE_DEBUG_APDU`;
* `menu_nbgl.c` and the pages of NBGL: the SDK draws and navigates them; what
  they show and both answers are in `KaspaApp`;
* the client's commands other than signing a transaction: single exchanges;
* wording and layout of the screens; the formatting of amounts and paths, which
  is the SDK's;
* blake2b without a key and in one call: no caller.
