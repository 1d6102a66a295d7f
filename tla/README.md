# A TLA+ model of the SSH transport

The repository is an SSH transport layer in Rust: a client and a server library
(`src/pkg`), the cryptography and message formats they use, and two small
binaries that run one handshake each. This directory holds TLA+ modules
translated from that source, the TLC configurations that check them on small
instances, and theorems that TLAPS proves for every instance. Paths below are
relative to the repository root.

## Inventory

| Component | Source | State | Operations | Hard part |
|---|---|---|---|---|
| client state machine | `src/pkg/client.rs`, `src/bin/client.rs` | `enum Client`: one struct per stage (ids, codecs, sequence numbers, proposals, DH secret, pending codecs, session id) | `start`, `receive_proto_version`, `receive_server_kexinit`, `receive_kex_reply`, `receive_newkeys`, `send_packet`, `read_packet` | interleaving with the server; failures in the middle of a handler |
| server state machine | `src/pkg/server.rs` | `enum Server`, alike | `receive_proto_version`, `receive_client_kexinit`, `receive_kexdh_init`, `receive_newkeys`, `send_packet`, `read_packet` | the same; it writes before it negotiates and before it derives keys |
| identification line | `src/pkg/mod.rs:17-56` | the bytes read so far | `read_identification_string` | line ends, the limit of 255, the packets follow in the same stream |
| negotiation | `src/negotiation.rs`, `src/pkg/mod.rs:88-119,209-217` | none | `select_first_match`, `client_negotiate`, `server_negotiate`, the `from_str` tables | both ends must come to the same verdict |
| key exchange | `src/kex/dh.rs`, `src/kex/mod.rs`, `src/pkg/mod.rs:58-86,121-207` | the DH secret | draw of the secret, key pairs, shared secret, exchange hash, assignment of keys to directions | each end computes everything from its own record |
| key derivation | `src/pkg/mod.rs:121-260`, `src/negotiation.rs` | none | `derive_keys`, `derive_key_with_hash`, `make_cipher`, `make_mac` | lengths written down twice; inputs of the hash joined without separators |
| binary packet protocol | `src/crypto.rs:11-86,189-312` | cipher keystream position, keys | `build`, `protect`, `decode_from`, `get_payload` | state moves although the call fails; lengths and padding |
| messages | `src/messages.rs`, `src/kex/mod.rs` | none | `serialize`, `deserialize` | truncated and oversized input |
| data primitives | `src/data_primitives.rs`, `src/lib.rs` | none | boolean, uint32, mpint, string and name-list codecs, `check_and_inc` | boundaries |
| host key and ed25519 blobs | `src/crypto.rs`, `src/messages.rs` | the host key | signing, verifying, the blobs around key and signature | |
| server accept loop | `src/bin/server.rs` | the connection being served | accept, handle, next | one connection at a time, no timeouts |
| protocol version parser | `src/protoversion.rs` | none | `new`, `validate`, `identification_string`, `to_bytes`, `from_bytes` | a second parser of the identification line; the transport does not call it |
| network driver | `src/network_driver.rs` | none | `client_init` | nothing calls it |

The components interact through values and one shared medium. A handler of a
state machine takes its state by value, reads one packet from the stream through
its decoder, calls negotiation or the key exchange, builds its answer with its
encoder, writes it, and returns the next state. An error leaves the state
`Failed` and, in both binaries, drops the stream; the other end then sees the end
of its input. The only concurrency is that of the two processes, and the only
thing they share is the TCP stream.

What makes each part correct:

* **state machines**: both ends reach one session, or both find out that they do
  not; they never wait for each other; the change of keys happens at the same
  packet for encoder and decoder; a failed call does not lead to a wrong result
  later;
* **negotiation**: one outcome, from the client's preference, at both ends;
* **identification line**: both ends hash the same line, and no byte of the
  packets behind it is taken;
* **key exchange**: the reply is accepted only if both ends computed the same
  hash, and equal hashes give equal keys, one per direction; secrets are uniform;
* **key derivation**: each string is as long as its codec takes, and no block of
  key material is used twice;
* **binary packet protocol**: no keystream position is used twice, nothing is
  accepted out of order or after a gap, framing loses no payload;
* **parsers**: every input gives Ok or Err, and Ok undoes the serialization;
* **accept loop**: every connection is served in the end, and no error of one
  costs another anything.

`PROJECT.json` lists the hazards behind these, each at its source line, with the
properties that would catch it.

## Modules

| Module | What it is |
|---|---|
| `Negotiation` | proposals, the tables of known names, `select_first_match`, the two `negotiate` functions |
| `KeyExchange` | Diffie-Hellman over given primes; exchange hash, signature and derived keys as records of their inputs |
| `PacketLayer` | encoder and decoder: key, keystream position, whether the decoder still has its place; what decodes, and what a failure leaves behind |
| `Transport` | the two state machines, the stream, failures and damage; all properties. Extends the three above |
| `SecureChannel` | abstract: what a transport promises the owners of its two ends. `Transport` implements it (`ImplementsChannel`) |
| `MCTransport` | primes, identification lines, proposals and bounds for TLC |
| `TransportProofs` | theorems about `Transport`: types, sessions, keystream, sequence numbers, for all faults and damage |
| `ChannelProofs` | extends it: deadlock, the refinement of `SecureChannel`, and the undisturbed handshake |
| `PacketQueue` | abstract: one direction of a transport as a queue of payloads |
| `Framing` | one direction of the binary packet protocol, byte by byte. Implements `PacketQueue` (`ImplementsQueue`) |
| `MCFraming`, `FramingProofs` | payload lengths for TLC; theorems |
| `WireFormat` | `serialize` and `deserialize` of all messages and blobs, field by field |
| `MCWireFormat`, `WireFormatProofs` | messages for TLC; theorems |
| `ProtoVersion` | the functions of `protoversion.rs` |
| `Identification`, `MCIdentification`, `IdentificationProofs` | `read_identification_string`, byte by byte, compared with `ProtoVersion`; texts for TLC; theorems |
| `KeyDerivation`, `MCKeyDerivation` | `derive_keys`, block by block; the real lengths for TLC |
| `SecretKey` | `generate_secret_key`, draw by draw |
| `KeyProofs` | theorems about `KeyDerivation` and `SecretKey` |
| `ArithmeticProofs` | facts about numbers that the other proofs share: induction, recursion, remainders, powers |
| `AcceptLoop`, `AcceptLoopProofs` | the server binary and its clients; a theorem |

`Transport` is the composition: negotiation, key exchange and packet layer are
called by the two state machines, which meet on the stream. The other modules
look into parts that `Transport` takes as one step or one unit: `Framing` into
the packet, `Identification` into the line, `WireFormat` into the message,
`KeyDerivation` and `SecretKey` into the key exchange. `AcceptLoop` looks at
`Transport`'s server from outside, as four calls that return.

### How `Transport` corresponds to the code

`ep[p]` is the Rust enum value of end `p`. Its field `st` is the variant, the
others are the fields of the variant's struct under their own names (`dh` is
`secret` and `public_value`; the serialized KEXINIT payloads are the KEXINIT
records themselves, since serialization is injective on them). `wire[p]` is all `p` has
written, one element per `write_all` of a packet (or identification line), `rd[p]` how many units
of the other's `p` has consumed. The whole history is kept so that properties
can speak of it. A reader never sees the part of `wire` it has consumed again.

Each handler is one action, with everything it does: it reads, changes codecs and sequence
numbers, writes, and stores the next state. That is no loss of interleavings: each end is one thread, shares
nothing with the other but the stream, and between its read and its return it
only appends to the stream; the other end reads packets as whole units.
A handler that can fail while it writes has one outcome per place where the
write can stop (`Cuts`: nothing, some of the packets, a packet cut short, or
everything when the flush failed). `Refuse` is a handler that returns `Err`,
`Proceed` one that returns `Ok` or fails while writing. `Start` borrows the
state in the code, so it may run twice and its failure does not change `ep`.

`SendPacket` and `ReadPacket` follow the code's order exactly: the encoder moves
on before the write, `send_seq` after it; the decoder moves on (or loses its
place, `AfterError`) before the mac is checked, `recv_seq` only on success. Both
leave the state `Ready` on error. `Close` is the owner dropping the transport,
which both binaries do as soon as it is Ready.

The two ends may make different proposals although `default_client` and
`default_server` are the same function: the library speaks to other programs,
and negotiation is only interesting then.

The environment is modelled from the way the code uses it: reads return whole
units in order (`Readable`); a read at the end of the stream, or on one the peer
closed with input unread, fails (`PeerGone`, `Hangup`); when the peer is gone, or
`IoErrors` is set, writes may fail, and with `IoErrors` reads may too. The handlers are
generic over `Read` and `Write`, so a write or flush that fails once and succeeds
the next time (a timeout set on the stream, a buffered writer) is included. `Damage`
alters the next unit to be read: a unit under keys loses its mac's validity, a
plain one becomes another message of its kind or garbage. Damage never makes a
signature that verifies. It does not add, remove or reorder units; damage to a
plain length field, which could make a reader wait for bytes that never come, is
one of the cases not modelled, so liveness is not claimed under damage.

### How `Transport` maps to `SecureChannel`

An end's phase is "left" once its stream is closed, "ready" in state `Ready`,
"agreed" in `WaitingForNewKeys`, "opening" before. The offer is the hash under
the signature of the reply on the server's wire, so damage to the reply is
`Lose`; an end's session is its session id from "agreed" on. `sent` counts the
calls of `send_packet`, `got` lists the numbers of the payloads `read_packet`
returned. The client enters a session only by `Adopt`, which takes the server's
offer, and `Deliver` gives exactly the next payload, to an end whose session is the
sender's. Streams that fail under a sender that goes on are left out here, because of the gap
that `NoSilentGap` describes.

### How `Framing` corresponds to the code

Bytes are counted, not stored. `encoder` and `decoder` are places in the stream
and in the keystream. `Send` is `build`, `protect` and the write, with every
padding `build` may draw. `DecodeFirst` is `decode_from` up to its tests of
`packet_length`, `DecodeRest` the rest of it with the mac and `get_payload`,
`Timeout` a `read_exact` that fails half-way: what it read is gone and was not
deciphered. Where the decoder is not at the start of a packet, or its
keystream is not the encoder's, the four bytes it takes for a length are any
number of `Noise`. A mac verifies exactly for the bytes and the sequence number
it was made for. Lengths wrap at `WordMod`, as in `build`'s casts to `u32`.
In `usize` nothing wraps: the model takes it for 64 bits wide.

### How the parsers correspond to the code

`WireFormat` has one step per field that a `deserialize` reads: the test of
what is left of the buffer, the advance of the cursor, `Err`, or the panic of an
index that is not tested. `Schema` lists the fields of each message in the
source's order. The buffer is a serialized message cut off or extended at any
byte, with any one field changed; behind a field that changed its length nothing
is where it was, and every read is arbitrary (`aligned`).

`Identification` reads one byte per step. Characters are classes: CR, LF, space,
hyphen, any other, and a byte that is not UTF-8. `ReadEnd` is a read that returns 0 or an error at any byte. `ProtoVersion`
is the other parser of the same line as operators; `ParsersAgree` and
`VersionIsRead` compare the two.

### How `KeyDerivation` and `SecretKey` correspond to the code

A block of key material is the record of what was hashed for it. `FirstBlock`,
`MoreBlocks` and `Truncate` are the body of `derive_key_with_hash`, `MakeCodecs`
the slices of `make_cipher` and `make_mac`, which panic past the end of a
string. `SecretKey` has one action, a turn of the loop in
`generate_secret_key`, for bytes of `ByteBits` bits.

### How `AcceptLoop` corresponds to the code

`Accept` and `AcceptError` are the two results of `listener.incoming()`;
`ReceiveOk`, `ReceiveErr` and `Panic` are the results of the four receive calls
of `handle_connection`, `SetupError` a failure before the first. The clients
are of four sorts: honest ones speak when it is their turn and leave after their
NEWKEYS, silent ones may stop, faulty ones may send what a handler refuses, and
crashing ones may send a KEXINIT that ends behind its name lists, at which
`KexInit::deserialize` panics (`WireFormat` shows where). The panic ends the main
thread and with it the process.

## Runs

| Run | Question | Instance |
|---|---|---|
| `undisturbed` | `UnreadDecodes`: are keys, keystream and sequence numbers of both ends in step at every packet, over the change of keys? `NoMutualWait`: are both ever blocked in a read? `FailsOnlyOnMismatch`: is there any other reason to fail than the proposals? `HandshakeCompletes`: do both ends become Ready otherwise? `NeitherIsLeftBehind`: also when the first closes at once? | no errors, no damage; 4 proposals at each end (default; other preferences; no common mac; a common name no `from_str` knows), 2 cookies; `start` up to twice; sequence numbers modulo 4, so they wrap during the run; fairness |
| `faults` | `TypeOK`; `KeystreamNeverReused` across failed sends and reads | I/O errors anywhere and one damaged unit; 2 sends by the client, 1 by the server |
| `retries` | `NoSilentGap` for a sender that goes on after failures | I/O errors; 4 sends by the client, the smallest number in which a flush failure costs a packet and a later one is accepted again |
| `damage` | `SessionAgreement`, `SessionInvariant`, `PayloadSealedAsAgreed`, `NoSilentGap`; `ImplementsChannel`: do the two state machines implement `SecureChannel`? | 2 damaged units anywhere in handshake or payload; 2 proposals, 2 host keys |
| `settles` | `HandshakeSettles`: does every handshake end at both ends? | I/O errors, all proposals, `start` twice, fairness |
| `framing_sizes` | `BlocksAreWhole`, `FailsOnlyOnSize` | enciphered packets; payloads of every length modulo 16, and of 34744, 34745, 34995, 34996 (around the limits of acceptance) and 65543 bytes (wraps); every padding; 2 sends |
| `framing_noise` | `TypeOK`, `ImplementsQueue`: can a decoder that lost its place return anything wrong? | timeouts; one payload length, every padding; 4 Errs that the owner puts up with; lengths misread as 0, 12, 28, 44, 60; 2 sends |
| `accept_loop` | `ErrorsAreContained`; `QueuedAreServed`: is an honest client served in the end? | 4 clients: 2 honest, one that may stay silent or send what is refused, one crashing; a queue of 3; 1 setup error; fairness |
| `wire_format` | `PanicsOnlyAtKexFollow`, `WrittenIsRead`, `NothingElseIsRead` | all 7 message and blob types; lists and numbers at their edges; every cut, up to 2 bytes too many; each field changed, with lengths from 0 to far too long |
| `identification` | `BothHashTheSame`, `RefusedForCause`, `ParsersAgree`, `VersionIsRead` | every text over six classes of characters up to one more than the limit; three ways to end it; a limit of 5 for 255 and a prefix of 1 for 8 |
| `key_derivation` | `KeysFit`, `NoBlockTwice` | both hashes, every pair of ciphers and of macs, with the program's lengths |
| `secret_key` | `SecretsAreUniform`, `LoopEnds` | bytes of 3 bits; orders of up to three bytes, the powers of two and their neighbours among them |

Bounds of the runs of `Transport`: `MaxStarts`, `MaxSends`, `MaxDamage`,
`SeqMod` and the sets of proposals,
cookies, lines and host keys. A handshake has a fixed number of packets, so it
is covered completely; two host keys, two lines besides the refused one and two
proposals are enough for any pair of values of those to differ. Payload
properties compare a packet with the one before it, and the cases that matter
need at most two failed sends around successful ones. The primes are the safe
primes 11 and 7, with three secrets and one.

Bounds of `Framing`: `MaxSends`, `Patience`, `Lengths`, `Noise`, `Cuts`. What
a length does to padding depends on its remainder modulo the block size, so one
of each is enough; two packets suffice for one to be misread as the end or the
start of another. The run `framing_noise` lowers the limit to 76 bytes, which
with paddings of 4 to 52 bytes still has packets of two to four blocks on either
side of every misread length. Four Errs leave its decoder room to be back at
a packet's start. The theorems of `FramingProofs` have no
bounds and cover unprotected packets (`Kind` "Naked") as well, which have no run
of their own.

Bounds of the parsers: the loops treat each field or byte alike, and what a
read does depends on the byte, what is left and the limit only. `MaxLine` 5
leaves room for a prefix, a version, a comment and a line end on either side of
the limit. `Extra` is 2, since a parser sees of the bytes behind a message only
that there are some.

Bounds of `AcceptLoop`: two honest clients and one of each other sort (silent and
faulty may be the same one, which then does either) put an honest client before
and behind any of them in the queue.

`CHECK_DEADLOCK FALSE` is set everywhere because each system ends: both ends
closed, or Ready with the calls used up; all packets sent and read, or an owner out of
patience; the parser returned; every client served.

Fairness of `Transport`: both binaries call `start` and the handlers one after the
other and do nothing else, so a call that can return returns: weak fairness of
the first `Start` and of each end's next handler, including the read that fails
because the peer is gone. No fairness is assumed of errors, damage, `send_packet`,
`read_packet` or `Close`.

Fairness of `AcceptLoop`: the main thread does nothing but accept and handle, so
weak fairness of `Loop`; an honest client, being the other binary, sends what it
owes, so weak fairness of its `Speak`. Nothing is assumed of the others, of
connecting, of hanging up or of setup errors.

What the runs show:

* The handshake has no deadlock and, undisturbed, no failure but a negotiation
  mismatch (or a second `start`). The server's KEXINIT goes out before it
  negotiates, and this is needed: the client then finds the mismatch as well.
* A client that accepts the reply is in the server's session whatever was
  altered on the way, since each altered field is in the hash.
* `NoSilentGap` holds in the form "skips at most as many payloads as sends had
  failed". The plain form "skips only payloads whose send failed" is not true of the code: when
  a flush fails after the packet went out, `send_packet` returns `Err` and the
  packet arrives all the same; the next send repeats its sequence number and is
  rejected, and the one after that is accepted. Of sends that returned Err, Ok, Ok the
  reader then gets the first and the third. The count still agrees.
* `NoSilentGap` needs fewer packets than `SeqMod` (2^32 in the code): a receiver
  that rejected exactly a multiple of it would accept again. The runs about
  payload therefore use a `SeqMod` no run reaches.
* `build` has no size limit and `decode_from` has one. A payload of up to 34744
  bytes always gets through; above that it depends on the padding drawn, up to
  34995, and on a stream without timeouts nothing else is ever refused.
* A decoder that was thrown off its place by a timeout takes arbitrary bytes for a length.
  It may even come back to the start of a packet, but not with the right
  keystream unless nothing was lost, so the worst it does is return `Err`.
* Of all buffers only a KEXINIT that ends right behind its name lists makes a
  parser panic (`src/messages.rs:169`). In the server this ends the process, and
  it is the one way in which a connection costs others theirs
  (`ErrorsAreContained`).
* `validate_list` accepts an empty name that `from_be_bytes` refuses, or reads as
  the empty list when it is the only one. No proposal of the program has one.
* A line may have 256 bytes with its LF, since the line end is tested before the
  length. The two parsers of the line hash the same bytes, except for an empty
  comment; `protoversion.rs` also refuses an empty version and a CR within.
* One silent client keeps all others waiting for as long as it likes; nothing
  else does.

## Proofs

All theorems hold for all values of the constants that satisfy the modules'
assumptions (`PrimeAssumption`, `NobodyAssumption`, `TransportAssumption`,
`FramingAssumption`, `WireAssumption`, `AcceptAssumption`, and the named ones of
`Identification`, `KeyDerivation` and `SecretKey`). Between them they state every
invariant that a run checks, and both refinements. Where a theorem needs more, it has it as a
hypothesis:

| Hypothesis | Of | Why it is needed |
|---|---|---|
| `MaxSends[p] < SeqMod` | `NothingSkippedSilently`, `ChannelImplemented` | sequence numbers are 32 bits and wrap; a receiver that rejected exactly `SeqMod` packets would accept again. The run `undisturbed` has a `SeqMod` that wraps, and `AlwaysDecodes` does without the hypothesis |
| `~IoErrors` | `ChannelImplemented`, `AlwaysDecodes`, `OnlyMismatchFails` | a flush that fails after the packet went out leaves a gap (see `NoSilentGap` above) that `SecureChannel` does not have; and a call that may always fail decides nothing |
| `MaxDamage = 0` | `AlwaysDecodes`, `OnlyMismatchFails` | what was damaged does not decode |
| `TablesAgree` | `KeysFitTheirCodecs` | the slices in `make_cipher` and `make_mac` have the lengths `negotiation.rs` says: true of the program's tables, which `MCKeyDerivation` holds |

`TransportProofs`, through all faults and damage:

* `TypeCorrect == Spec => []TypeOK`. `TypeOK` is inductive. A lemma per operator
  gives its type, a lemma per action shows the action keeps it, `NextType`
  combines them.
* `SessionCorrect == Spec => []SessionAgreement`. `SessionAgreement` is not inductive: from the
  state alone one cannot see why the client's hash should be the server's. The
  invariant `SessionInvariant` adds the reasons: every signature on the server's
  wire that could verify is the server's own, over its own session id, and
  appears only once the server has derived keys (`SignedByServer`); the
  selection an end works with is that of the two proposals it will hash
  (`SelectionFromProposals`); hence each end's two keys are a function of its
  session id (`KeysFromSession`); and the ids are equal (`SameSession`). A client
  that accepts has found a signature over its own hash, so `SignedByServer`
  makes its hash the server's. All steps but `receive_kexdh_init` and
  `receive_kex_reply` are quiet, in a sense `QuietStep` makes precise. TLC checks
  `SessionInvariant` in the run `damage`, and `SessionInvariantHolds` states it.
* `SealingCorrect == Spec => []PayloadSealedAsAgreed`. The property
  speaks of the whole wire, and the signed reply it asks for could be damaged
  later. `SealInv` says why it is not. A client that has keys has read the reply
  over its own session id (`ClientHasRead`), and only unread units are damaged. A
  client's NEWKEYS is on the wire only when the client has read the reply
  (`AnnouncedAfterReply`), so a server that is Ready, having read a NEWKEYS, has had its
  reply read (`ReadyAfterReply`). Hence each payload is sealed by a key whose hash is in a
  reply the client has read (`PayloadsSealed`).
* `KeystreamCorrect == Spec => []KeystreamNeverReused`. The
  encoder of a handshake state has no key (`NakedEncoders`), so nothing is
  enciphered before Ready (`NakedUntilReady`). A Ready end keeps one key, and
  every place it has used on its wire lies behind its encoder (`BehindEncoder`),
  also those of a send that failed half-way; hence all are different
  (`EachPlaceOnce`). The two ends never share a key because the direction is part
  of it (`KeysFromSession`).
* `NothingSkippedSilently`: `NoSilentGap` for every number of failures. `CountInv` ties the
  numbers to the calls: `send_seq` is three plus the calls of `send_packet` that
  returned Ok, `recv_seq` three plus the payloads returned (`ReadyCounts`), and a
  sealed unit has the number of the calls that had succeeded before its own
  (`SealedCounts`). The mac covers the number, so the i-th payload returned was
  sent after exactly i - 1 successes (`GotCounts`); so of the calls from one payload returned
  up to the next exactly one succeeded, and all others failed.

`ChannelProofs`:

* `PlacesHold == Spec => []PlaceInv`: the state of an end determines how many
  units it has written and read, and the place of a unit on the wire which
  message it was, unless damage made it garbage.
* `NeverBothBlocked == Spec => []NoMutualWait`, from `PlaceInv`: two ends that wait have read
  all there is, and no two states fit that.
* `ChannelImplemented`: every step of `Transport` is a step of `SecureChannel` or
  a stutter. `PlaceInv` gives the reply its place and thus the one offer there
  is; `SessionInvariant` makes what the client adopts that offer; `CountInv` and `LeaveInv`
  (a send fails only when its reader has gone) make what is delivered the next
  payload. One lemma per handler (`...Maps`) gives the abstract step.
* `AlwaysDecodes`: `UnreadDecodes` on an undisturbed stream. `AlignInv`: the n-th
  unit behind the handshake is sealed at place n - 1 of the keystream and
  has the number n + 2 modulo `SeqMod`, its writer's encoder stands where the next
  will be sealed, and its reader's decoder where the next to be read was. It is said only of
  ends whose reader has not left: after that writes fail, and `send_seq` falls
  behind the keystream.
* `OnlyMismatchFails`: `FailsOnlyOnMismatch` there. `AgreedInv` follows what each
  end knows through the handshake: its record of lines, proposals and public
  values is what the two ends sent (`ClientKnows`, `ServerKnows`), and the reply
  on the wire is made from them (`Replied`). The client then computes the hash
  the server signed, because the two Diffie-Hellman keys are equal. That is
  `DhAgrees`, from `PowersCommute`.

`FramingProofs`, over every length, limit, mac and number of packets:

* `TypeCorrect`: among others, an accepted length is at most `MaxPacket`.
* `PaddingExists`: `build` always finds a padding length, so its error "No
  possible pad lengths" cannot occur.
* `BlocksAreWholeHolds` and `FailsOnlyOnSizeHolds`: the two size properties. The
  second needs that up to the first Err the decoder is at the next packet, in
  stream and keystream (`InStep`), and that behind an Err it never comes back to
  the packet it refused (`Passed`).
* `QueueImplemented == Spec => ImplementsQueue`: every step of `Framing` is a
  step of `PacketQueue` or a stutter. The mac admits one packet only, the one
  that is next, and its length is then the one that was sent.

`WireFormatProofs`, for any messages, buffers and changed contents:

* `PanicsOnlyAtKexFollowHolds`. The cursor stays inside the buffer (`IInv`).
* `WrittenIsReadHolds` and `NothingElseIsReadHolds`. `WrittenInv`: in a buffer in which
  nothing was changed the cursor is where the next field begins, what was read
  is what was written, and a whole one is refused only for an empty name. Where fields
  begin (`Offset`) is recursive over the fields of a message; `SumsExist` shows
  that it is defined, `SumsGrow` that every field ends inside the message.

`IdentificationProofs`, for every string, prefix and limit:

* `BothHashTheLine` and `RefusedOnlyForCause`. `LineInv`: what was read is
  the beginning of the stream up to its first LF, and why reading stopped.
  `StrippedLine` then says what the stripped line is, for each way to end it.
* `ParsersAlwaysAgree` and `VersionsAreRead`: the operators of `ProtoVersion`
  evaluated on any text, by taking the line apart at the prefix and the first
  space (`SplitPrefix`, `SplitAtSpace`).

`KeyProofs`:

* `NoKeyTwice`: `NoBlockTwice`, for any hash length. `ChainInv`: each string
  begins with its own letter, and every further block hashes all before it.
* `KeysFitTheirCodecs`: `KeysFit`. `SizesInv`: no string has a block more than its
  length takes, nor one less.
* `SecretsUniform` and `LoopHasAChance`: the two properties of `SecretKey`, for
  all orders and byte widths. The bytes drawn are a number of two digits of which the first
  is divided by 2 to the excess; `EachValueAlike` counts the draws that give a number of
  any set with a bijection. `TwoToThe` gets what it needs of powers of
  two from the one fact about them in the library, that they count subsets.

`AcceptLoopProofs`: `ContainmentHolds == Spec =>
[]ErrorsAreContained`, for any number of clients and any queue. `LoopInv` adds
that queued clients are pending, each once and unheard (`QueuedWait`), that what
honest clients send is never bad (`SpokenInTurn`), and that one that has hung up
while pending had sent its NEWKEYS (`HonestStay`).

`ArithmeticProofs` has the induction the others need. The library's induction
theorems take the hypothesis as an operator, which the installed provers cannot
instantiate; `SetInduction` has it as a set, and follows from the strict subset
ordering of finite sets being well founded. `RecursionExists` derives from it
that a recursive function is defined, for one given by its first value and its
step. For this `ModPow` is written as a recursive function (`Powers`).

The proofs about `Transport` rest on the symbolic view of hashes, signatures and keys (equal
exactly when all inputs are), and on damage making no signature.

Only model-checked is liveness: `HandshakeCompletes`, `NeitherIsLeftBehind`,
`HandshakeSettles` and `QueuedAreServed`. Liveness under fairness and `ENABLED`
are out of reach of the prover.

## Plan

Done: all modules and runs above; theorems for every invariant that a run checks
and for both refinements.

Left: the proofs are long where a handler has many fields. Lemmas that several
of them share could be stated once, and `ChannelImplemented` could be extended
to streams that fail, with a `SecureChannel` that has the gaps `NoSilentGap`
allows.

## Not modelled

* The contents of cryptographic primitives, and the libraries that implement
  them: symbolic in `KeyExchange` and `PacketLayer`.
* `kex_follow` (`src/messages.rs:170`) is read and not acted on. Both ends of
  `Transport` are this program, which always sends false; what another
  implementation that guesses would run into is outside the model. The hazard is
  listed without a property. The language lists are read by nothing.
* A length field of a plain packet that is altered on its way could make a
  reader wait for bytes that never come; hence no liveness under damage.
* `src/network_driver.rs`, `SshUint64`, and `payload_len` and `encoded_len` of
  the packet types: nothing calls them. `Disconnect` is modelled as a format
  only, since the transport neither sends nor reads it.
* Platforms with a `usize` of 32 bits; timing; the wording of errors and the
  printed output; command-line parsing.
