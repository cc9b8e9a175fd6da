# Flip-flop in TLA+

TLA+ models of the flip-flop protocol: the exchange of commands and logged
events between a client and a server, their encoding, the frames of the data link
layer, server discovery and software update. TLC checks the models on small instances; TLAPS
proves the most important properties for all values of the constants.

Every model is a translation of the code under `src/`. Where the code and a
document disagree, the model follows the code, and a run that is expected to fail
shows the disagreement (see [Findings](#findings)).

## The system

| Part | Source | State | Operations | Module |
|-|-|-|-|-|
| Application messages | `app/src/lib.rs` | | `CommandRequest`, `EventOf`, `EventReply`, `event_reply`; `serialise_last_field`, `deserialise_last_field` | `FlipFlopApp`, `Datagrams`, `Postcard` |
| Event server | `app/examples/server/main.rs` | circular queue of events, `start`, `end`, `event_offset` | answer a request; store an event; reset; restart | `EventServer` |
| Event client | `app/examples/client/main.rs` | `last_event_offset`, `init_mode`, `recovery_event_offset` | send a request; process a reply; time out; restart | `EventClient` |
| Offset rules | `offset-rules.md` | | what client and server are meant to do | `OrderedDelivery`, `OffsetRules` |
| Data link frames | `data/src/lib.rs` | | `to_packed`, `parse`, `new_nonce`, `to_datagram`, `from_datagram` | `Header`, `DataLink` |
| Discovery | `data/src/discovery.rs`, `data/examples/discovery/main.rs` | addresses known to the client; count per address in a window; address of each server; bitmap and iterator | request, window, reply; `set_address`, `iter`, `next`, `with_random_address` | `Discovery`, `Identify`, `AddressSet` |
| Software update | `data/examples/update/main.rs` | offset and threshold of the client; active update of each server | prepare, chunk, abandon, finish | `Update` |
| Versions | `data/src/update.rs` | | `cmp`, `fmt`, `from_str` | `Version`, `VersionText` |
| Discovery analysis | `data/examples/discovery_analysis/main.rs` | | floating point simulation | not modelled |

Client and server of the application layer interact over UDP, the tasks of
discovery and update over a tokio broadcast channel that stands for an RS-485
bus. The update uses the order of versions to decide what is newer. What makes
these parts hard:

- replies that arrive after the client's 100ms timeout are taken for the answer
  to a later request;
- the server forgets events (overrun) and everything (reset, restart), and tells
  its client by comparing offsets that wrap round;
- frames are filtered by a header that is not authenticated yet;
- servers pick addresses at random and at the same time, hear each other, and
  replies collide or come late;
- the last field of a message has no tag, so a message that was cut off can look
  like a shorter one;
- update datagrams are never acknowledged, so servers have to notice by
  themselves what they missed.

## Modules

`FlipFlopApp`, `EventServer` and `EventClient` are composed twice. In
**`FlipFlop`** the network is the set of all datagrams ever sent: any of them may
be received at any time, again, or never. It is used for safety. In
**`FlipFlopLink`** each socket is a bounded queue, datagrams may be lost but not
reordered, and the steps are fair. It is used for what must happen, and it is
shown to implement **`OrderedDelivery`**, the abstract promise of logged event
delivery: a client moves forward only, past nothing but overrun events, and does
move, until the server restarts or uses an offset again, which ends the promise. The refinement mapping
is the number of the last event of the client and the number of events that have
left the queue. **`OffsetRules`** states what
`offset-rules.md` and comments say, on the states of `FlipFlop`.

**`Header`** represents an integer by the set of positions of its one bits, so
that masks are intersections and shifts are translations. **`DataLink`** sends one
frame over a wire that flips bits of the header, the length or the payload, and
calls `from_datagram` with various filters and keys. The cipher is external: it
opens what it sealed with the same key, nonce and associated data, and nothing
else. `MCDataLink` gives the fields their extreme values.

**`Datagrams`** serialises a message, sends it, and receives it into a buffer that
may cut it off. Values are bytes in the format of **`Postcard`**, which is external
and has what the messages use: varints of `u32` and `u64` numbers, options and
enums. A number is split into groups of seven bits, one after the other, so that its
width is a bound on its last group.

**`Discovery`** has the rounds of `client::task`, the servers' tasks and the loops
of `main` around them. Of the clock it keeps what the code relies on: a reply is
sent 900ms after the request and so finds the client listening, and the window of
1000ms ends when no server that was asked is busy any more. The margin of 100ms is
not guaranteed: up to `MaxLate` windows end while a server is still busy, whose
reply then falls into the next window or between two. Tasks that have not started
yet are not bound by any of this. The addresses known to the client are a set here;
**`Identify`** is the bitmap with its iterator and the loop of
`with_random_address`, one step per bit, and implements **`AddressSet`**, which has
the set operations that `Discovery` uses.

**`Update`** has `client::task` (called again and again with new updates),
`server::task` for each server, and the channel between them, with loss and with
the error that a lagging receiver gets. The bytes of an update are pairs of the
update and a position. History variables record what each server has written,
how much of it has been through its heavy work, which images it finished, and
which updates it did not hear whole. `MCUpdate` picks lengths on and off a
threshold. **`Version`** is the order of versions, next to a reference definition
of the semver.org order. **`VersionText`** is `Display` and `FromStr` over sequences
of tokens (numerals, separators, words), split where the code splits its string.
`VersionOrder` runs through pairs of versions and the texts they may have.

`FlipFlopProofs`, `FlipFlopLinkProofs`, `EventServerProofs` (the server's lemmas,
used by both), `BitProofs` (frames and the bitmap of addresses), `DiscoveryProofs`,
`UpdateProofs`, `UpdateHeardProofs` and `EncodingProofs` (datagrams and versions) hold
the theorems.

Operators named after a plausible mistake (`ReplyHalfOpen`, `SuccNoWrap`,
`ChunkEndPastThreshold`, ...) stand before the definition they are a variant of.
Nothing uses them: replacing the definition by its variant makes a property fail,
which shows that the property depends on it. `PROJECT.json` lists the pairs.

## Runs

`tlc -config X.cfg M` for the runs of `PROJECT.json`. All bounds are CONSTANTS of
the modules: `MaxLogged`, `MaxRestarts`, `MaxInFlight`, `MaxFlips`, `MaxGarbled`,
`MaxLate`, `MaxUpdates`, `CHANNEL_SIZE`.

| Run | Shows | Bounds |
|-|-|-|
| `flip_flop` | `NoEventSkipped`: a client that has processed an event has processed every older one that the server still holds. `NoSpuriousRecovery`: a server that did not restart or wrap never answers with a recovery event a request whose offset, or its successor, is in the history (overruns are the subject of `overrun`). | 4 offsets, a history of 2, 5 events, 1 restart: overruns, wraps and restarts all happen, in one behaviour |
| `link` | `ImplementsDelivery`: refinement of `OrderedDelivery`, with progress. `CatchesUp`: the client settles at the latest event after restarts and resets of the server (restarts of the client are in `flip_flop`) | 5 events for a history of 2 and 2 datagrams in each socket: the client can be overrun and can read stale replies; 2 restarts, so that one can hit the recovery from the other; 6 offsets, so that every event before a restart has an offset that did not wrap, and only the counter after the last one does |
| `data_link` | `AcceptsOnlyTheSent`, `UntouchedIsAccepted` | fields empty, full, and with one outermost bit; every single bit error |
| `datagrams` | `ReceivedIsSent`: a message that was cut off is refused or loses its last field, and is never taken for another one. `MessagesFit` | numbers of every length of varint, up to 2^31 - 1 (TLC's largest integer; a `u32` of five bytes is among them); every cut of the longest request or reply; 27 bytes, the most an update carries, and fewer |
| `discovery` | `KnownIsUnique`, `KnownIsTaken`: each known address is a server's, and no server takes the client's address 0. `DoneIsComplete`, `KnownIsFinal`, `DiscoveryEnds` | 3 servers for 2 addresses (address 0 is the client's), so that addresses run out; 1 garbled reply, 1 window that ends too early |
| `identify` | `ChoiceIsEven`: the spare addresses are those that are not known, each once. `ImplementsAddressSet` | 2 bytes of 4 bits, all bitmaps: the end of a byte, of the bitmap and of the addresses are all met |
| `version_order` | `OrderIsSemver`, `ReadsWhatIsWritten`: `from_str` reads back what `fmt` wrote, with a build identifier behind it or not | all pairs of versions over the least and the greatest number; no build identifier, or one of four that have separators of their own or look like a pre-release |
| `update` | `InstallsWholeImage`, `OnlyNewerIsInstalled`, `BufferSuffices`, `PausesForHeavyWork`, `ReadIsInstalled`, `HeardIsInstalled` | chunks of 2 and a threshold of 3 for lengths 2, 4, 5, 6; 2 updates; a channel of 3. Servers do not interact, so one suffices |

`NoEventSkipped` and `NoSpuriousRecovery` are stated for a *steady* server: no
restart or reset so far, and fewer than N offsets used since it started. After a
restart an old offset can fall into the range of the new log by chance, which
`offset-rules.md` accepts with some probability; `CatchesUp` covers what still
holds then. `CatchesUp` asks for at least one event after a restart, as
`offset-rules.md` does.

`KnownIsUnique` is stated for discoveries without garbled or late replies; with
garbled ones it does not hold (run `discovery_conflicts`). `DoneIsComplete` and the
second part of `KnownIsFinal` are stated for windows that end in time.

The runs of datagrams, discovery and update do not check for deadlock: a message is
received once, the client returns, and servers wait for ever.

### Fairness

`FlipFlopLink`: both loops run for ever (weak fairness of the client's send and
of its wait, which ends with a datagram or after 100ms, and of the server's
receive), and a link that is used again and again does not lose every datagram
(strong fairness of sending and answering without loss). Events, resets and
restarts are not fair. `Update`: the client's sleeps end and a server with a
datagram in its channel reads it. Nothing is assumed about losses.
`OrderedDelivery` has weak fairness of `Deliver`. `Identify`: a call of
`with_random_address` runs to its end.

`Discovery`: tasks that run are scheduled (weak fairness); a server's task need
never be spawned. Addresses are picked at random, which plain fairness does not
express. What is assumed is that the last server to pick in a round, if it again and
again has a spare address that no other server has picked, picks such an address at
some time (strong fairness of `PicksOwnAddress`). The picks are independent and each
has a positive chance, so this has probability one. `DiscoveryEnds` leaves out the
case of more servers than spare addresses (`Crowded`), in which two of them may
collide for ever.

### Findings

Runs that are expected to fail, each a difference between a document and the code:

| Run | Document | Code |
|-|-|-|
| `link_wrap` | offsets count modulo N and do not order events | the range check on `start` and `end` does order them; after a wrap, while `end` is below `start`, every request with an offset is answered with a recovery, and a client recovers again and again |
| `overrun` | an overrun is answered with a recovery event | it is answered with the oldest event |
| `recovery_phase` | the client consumes events from the start offset on | it continues after the start offset |
| `discovery_conflicts` | discovery goes on until there are no conflicts | a garbled reply hides a conflict |

Differences that are plain from a few lines have no run: the client sets
`init_mode` to true where its recovery completes (`client/main.rs:109`) and never
to false, so it only polls; a reset sets `start` and `end` to the offset of an
event that is not there yet (`server/main.rs:113`), and a recovery event names it;
`activate_update_if_new_version` does not look at `server_ports`; the first offset
is drawn from `0..MAX_EVENTS`, not `0..=N-1`; servers reply after exactly 900ms, not
at a random time in a window; the first identify message has bit 0 set;
`Header::parse` masks the version with 0x02 (`data/src/lib.rs:77`), so it does not
look at bit 0 of the two bits of line 105; `from_str` reads a pre-release it does not
know, such as `1.2.3-rc.1` or `1.2.3-alpha`, as the release `1.2.3`, which is newer;
a byte offset of 2^28 or more takes a byte more than `UPDATE_BYTES_OVERHEAD`
reserves (`MessagesFit` has the exact limit).

## Theorems

`tlapm X.tla` for the modules below. All proofs are complete.

**`FlipFlopProofs`** — `TypeCorrect`, `ReliableDelivery` (`NoEventSkipped`) and
`RecoveryNeedsLoss` (`NoSpuriousRecovery`), for every N > 1, every capacity
below N and all bounds. Neither property is inductive. The invariant `IInv` adds
that the history holds the latest events in order, the k-th event with offset
`start + k - 1`; that every offset in a request belongs to an event the client has
processed; that what the client has processed is closed downwards within the
history; and, for each reply on its way, that by now the client has processed all
retained events before the one it carries. The last two are what makes stale
replies harmless: retained events only become fewer and processed ones more.
`SteadyReply` shows that the server's search establishes it.

**`FlipFlopLinkProofs`** — `LinkTypeCorrect` and `LinkDeliversInOrder`, the safety
part of the refinement of `OrderedDelivery`, step by step, for all constants. The
invariant (`LinkInvariance`) is about a steady server. It turns every offset into a
position in the log and says that requests are queued in the order of their
positions and none is past the client; that replies are queued in the order of their
events and none is before the client; and that no reply, nor the client, is past what
the answer to a queued request will be. The second keeps a late reply from moving the
client backwards; the last is what makes the second inductive, since it puts the next
answer behind the replies already queued. That no reply skips a retained event holds
because what has left the history only grows. `ReplyIsNextAfter` shows what the
server's search returns, up to the last offset before the wrap. `LinkSteadyBefore`
carries the invariant past restarts and wraps: a server that is steady after a step
was steady before it. TLC checked the invariant with 3 and 4 offsets, where offsets
do wrap.

**`DiscoveryProofs`** — `DiscoveryTypeCorrect`, `UniqueAddresses`,
`TakenAddresses`, `CompleteWhenDone` and `FinalAddresses`, for any set of servers and
any number of addresses, garbled replies and late windows. The invariant says that
each address that is known, or counted in this window, is *held* by a server: it has
it and will not answer a request that lacks it (`HolderInv`). As long as windows end
in time, every unanswered request is that of the current round (`RoundInv`), and each
server that was asked is known, still busy, or counted, or else the round is not the
last (`OutcomeInv`). As long as moreover nothing is garbled, the counts are those of
the servers that have replied, as far as 0 and 1 are concerned (`CountInv`).

**`BitProofs`** — `HeaderRoundTrip`: `parse` undoes `to_packed`, bit by bit (`PackedBits`).
`OnlyTheSentIsAccepted` (`AcceptsOnlyTheSent`) and `UntouchedFramesArrive`
(`UntouchedIsAccepted`) follow from an invariant, `FrameInv`, that says which parts of
a frame are as they were sent. Assumed: the idealised cipher, and that payloads fit
their datagram (else `to_datagram` panics).

`IdentifyTypeCorrect`, `EvenChoice` and `BitmapIsAddressSet` (the safety part of
`ImplementsAddressSet`) hold for all widths of bytes and lengths of bitmaps up to 256
addresses. The invariant says where the iterator stands: index,
byte and mask agree, and the list of spare addresses is, in order, that of the
unknown addresses below the index.

**`UpdateProofs`** — `UpdateTypeCorrect`, `WholeImages` (`InstallsWholeImage`),
`OnlyNewer` (`OnlyNewerIsInstalled`), `BufferIsNotOverrun` (`BufferSuffices`) and
`PausesMatchHeavyWork` (`PausesForHeavyWork`), for any number of servers, sizes and
losses. The invariant says that the client's threshold is the next multiple of
`UPDATE_BYTES_PROCESSING_THRESHOLD` after its offset, or the length of the update;
that every chunk on its way lies between two of them; that a prepare datagram
describes its update; and that a server's active update is newer, has the bytes
before its next offset, and has been through its heavy work up to the last
threshold. Assumed: updates are not empty (a server never finishes an empty one),
keys differ.

**`UpdateHeardProofs`** — `HeardUpdatesAreInstalled` (`ReadIsInstalled`), the safety half of
`HeardIsInstalled`: once a server has read all it heard, every finished update to a
newer version that it missed nothing of is installed. It needs a second invariant,
`HeardInv`, on top of `IInv`. The datagrams a server has not read are ordered, one
update after the other and chunks after prepares (`OrderInv`). The chunks of an update
it missed nothing of lead, end to end, from the byte the server is at, or from 0 if its
prepare datagram is among them, to the byte the client is at (`StreamInv`). And an
active update is not at its end (`UnfinishedInv`). The case that matters is a prepare
datagram that replaces an active update: nothing of the old one is left to read, so had
the server missed nothing of it, it would be at its end. TLC checked `HeardInv` on the
instance of the run first.

**`EncodingProofs`** — what is written is what is read.

`DeserialiseSerialise`: every message is read back from its bytes, for all `u32`
offsets and `u64` ticks. `DeserialiseCut`: a request or reply that is cut off anywhere
is refused or has lost its last field. `MessagesArrive` (`ReceivedIsSent`) follows with
an invariant that says what the datagram is at each step. The argument goes from the
groups of a number to its varint (`TakeVarintWhole`: the first byte below 128 is the
last one, and the groups make up the number; `TakeVarintCut`: no part of a varint is
one) and from there through options, pairs and events. `BuffersSuffice`
(`MessagesFit`) adds up the lengths. Assumed: enums of at most 128 variants; buffers
of at least 21 bytes, the longest reply; and a frame that has room for at most 127
bytes of an update, as `update.rs` requires, so that their number takes one byte.

`FromStrDisplay`: `from_str` reads back what `fmt` wrote for every version of `u8`
numbers, whatever tokens a build identifier behind it has; `OffersAreRead`
(`ReadsWhatIsWritten`) states it for the run. The core is `SplitFacts`: `split_once`
at a token that does not occur before it yields what is before and what is after.

`VersionCmpIsSemver`: `Ord for Version` agrees with the reference for all versions;
`OffersAreOrdered` (`OrderIsSemver`) states it for the run.

Only model-checked: liveness (`CatchesUp`, `DiscoveryEnds`, `HeardIsInstalled`, the
progress parts of `ImplementsDelivery` and `ImplementsAddressSet`), which is out of
the prover's reach.

## Not modelled

- Clocks: no code branches on `delta_ticks`. Ephemeral events occur in `Datagrams`
  only, the example server has none.
- `data/examples/discovery_analysis`: a floating point simulation of how many
  rounds a discovery takes. It shares no state with the protocol, and its results
  are probabilities.
- The encoding of `PrepareForUpdate`, `Identify` and `Identified`. An `Identify` is
  an array of exactly `MIN_PAYLOAD_SIZE` bytes, an `Identified` two bytes and a
  `PrepareForUpdate` at most 29, so all of them always fit a frame, and they have no
  untagged last field.
- The client's `init_mode` as a source of commands: nothing sets it to false, so the
  example never sends one. `Datagrams` has requests with commands.
- Frame counters and how keys are distributed.
- The field `signed`, which is set but read by no code, and the version a server
  runs after an update, which the example does not change.

## Plan

1. Compose: the tasks of `Update` and `Discovery` over the frames of `DataLink`
   (filters and keys instead of kinds of datagrams); one client that polls several
   servers.
