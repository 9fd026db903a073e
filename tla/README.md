# A verification project for KellerLighting

KellerLighting lights two LED strips. A server on a Raspberry Pi
(`KellerLightServer`, Java) turns requests and sound into packets, a serial line
at 921600 baud carries them, and an ESP32 (`ESPLightController`, C++) turns them
into light; pictures are compressed with the LZ4 library that lies in the
controller's source. These modules model both programs, the line between them,
the page in the browser and LZ4; TLC checks the models on small instances, TLAPS
proves the central facts for all.

## The system

| Part | State | Operations | Talks to |
|---|---|---|---|
| Web client (`res/index.html`) | slider, brightness last sent, socket, time of the last send | draw a frame (and send), mode buttons, colour, reopen the socket | WebSocket API |
| HTTP API (`HttpApi`), WebSocket API (`WSApi`) | none of their own; one thread for HTTP, several workers for the WebSocket | switch mode, set colour, race game data, brightness (absolute, relative), freeze, force hit, force strobe | `LEDCommunicator`, the current helper |
| `LEDCommunicator` | current helper, brightness, port, count of blocking packets | `setHelper`, `sendPacket` (both in its monitor), `setBrightness`, `getHelper`, `getLedBrightness` (neither), `getPort` | helpers, serial port |
| Helpers (Ambient, Strobe, FullColor, RaceGame, S2L) | a colour; for S2L a history of spectra, flags, an audio thread | `start`, `terminate`, one operation each | `sendPacket` |
| Packets (`ArdPacket` and subclasses) | the bytes | `encode`, `data` | LZ4 (server: the Java library) |
| Serial line | bytes under way | deliver, lose | |
| `SerialUtil` | receive buffer, two offsets, done flag | `processByte`, `tick`, accessors | serial driver |
| `main.cpp` | current component, brightness, time of the last packet | `setup`, `loop` | everything on the controller |
| Components (Ambient, RawColor, S2L, Strobe) | hue; wave, flash; flash phase | `start` with a packet, `loop` | LED arrays, FastLED |
| OTA (`ota_util.h`) | web server | blocks `setup` until the LAN is up, is served once per pass, restarts the controller | `loop` |
| LZ4 blocks (`lib/lz4/lz4.c`, `lz4hc.c`) | hash table, dictionary; position of a decoder's ring | decode, decode the next of a stream, compress (three ways to bound the output), load, save, attach a dictionary, reset | RawColor, frames |
| LZ4 frames (`lib/lz4/lz4frame.c`) | stage, buffers with history, sizes announced | `LZ4F_decompress`, `LZ4F_getFrameInfo`, `LZ4F_compressBegin`, `Update`, `flush`, `End`, `LZ4F_compressFrame` | blocks, `xxhash` |

What makes each part correct, and what makes that hard:

- **Parser.** Any byte may come at any time. Memory must stay bounded though the
  length is read as a signed `short` in one place and as an `int` in another, only
  frames the server could have built may be reported, and the parser must find
  its way back after a loss. The checksum is judged one byte *after* the content:
  the spare zero that `ArdPacket` allocates at the end of its buffer is what makes
  a frame complete by itself.
- **Line.** No acknowledgements and no retransmission: order, no duplicates, no
  inventions, and a bound on the damage of a loss.
- **Main loop.** One thread, but three clocks: packets, timeouts, and a web server
  that may hold up a pass. The mode shown has to be the mode ordered.
- **Communicator.** API threads, audio threads, one monitor that only some methods
  take, a `join` inside that monitor, back-pressure that throws packets away.
- **The whole.** Server and controller never hear from each other; what one
  remembers and the other shows agrees only if nothing was lost in between.
- **S2L helper.** Flags in plain fields, set by API threads and taken back by the
  audio thread.
- **Components.** A wave that moves between packets and is overwritten by them;
  index arithmetic at the ends of strips and packets.
- **Client.** Stale copies of the brightness, a socket that breaks.
- **LZ4.** Copies that run over their ends by design, with margins that differ
  from branch to branch; matches that refer to the caller's memory; a decoder that
  has to be able to stop after every byte.

The hazards are listed one by one, each at its line, in `PROJECT.json`.

## Modules

| Module | Models | Uses |
|---|---|---|
| `SerialFrame` | the wire format: `ArdPacket.insertContent`, `data`, `adler32` | |
| `SerialParser` | `SerialUtil.processByte` and the accessors | `SerialFrame` |
| `PacketChannel` | abstract: what a lossy and a reliable packet channel promise | |
| `SerialLink` | `sendPacket`, the line, `tick`; losses and restarts | `SerialParser`, refines `PacketChannel` |
| `LightController` | `setup` and `loop` of `main.cpp` | |
| `LedServer` | `LEDCommunicator`, the APIs, the helpers' life cycle and threads | |
| `LightSwitch` | abstract: a switch for light modes | |
| `KellerSystem` | server, packets under way, controller | instantiates `LedServer` and `LightController`, refines `LightSwitch` |
| `LedStrip` | `NUM_LED`, the strips both drawing components share | |
| `Strobe`, `S2LWave` | `StrobeComponent`; `S2LComponent` | `S2LWave` extends `Strobe` and `LedStrip` |
| `RawColors` | `RawPacket` and `RawColorComponent` | `LedStrip` |
| `S2LFlags` | the flags of `S2LHelper` | |
| `WebClient` | `index.html` | |
| `Lz4Decoder` | `LZ4_decompress_generic` on any block: positions read and written | |
| `Lz4Copy` | the decoder's ways of copying a match: bytes | |
| `Lz4DecodeStream` | `LZ4_decompress_safe_continue` in a ring buffer | |
| `Lz4Format` | the block format's constants and lengths | |
| `Lz4Output` | what `LZ4_compress_generic` writes, and where | `Lz4Format` |
| `Lz4Stream` | how it finds matches; contexts, dictionaries, resets | |
| `Lz4HighMatches` | how `LZ4HC_compress_hashChain` chooses among overlapping matches | `Lz4Format` |
| `Lz4HighOutput` | what it writes, and where | `Lz4Format` |
| `Lz4FrameDecoder` | `LZ4F_decompress`, `LZ4F_getFrameInfo` | |
| `Lz4FrameEncoder` | `LZ4F_compress*`, with the segments of `lz4hc.c` | |
| `MC*` | the instances that TLC checks | |
| `LightControllerProofs`, `Lz4HighMatchesProofs`, `Lz4HighOutputProofs` | theorems about the module they are named after | that module, `TLAPS` |
| `Lz4OutputProofs` | theorems about `Lz4Output` and `Lz4FrameEncoder` | both |
| `Lz4DecoderProofs` | theorems about the block decoder, the frame decoder and the ring buffer | `Lz4Decoder`, `Lz4FrameDecoder`, `Lz4DecodeStream`, `TLAPS` |
| `ControllerProofs` | theorems about `SerialParser`, `SerialLink`, `S2LWave` and `RawColors` | all four |
| `LedServerProofs` | theorems about `LedServer` and `S2LFlags` | both |
| `KellerSystemProofs` | theorems about `KellerSystem` | instances of `LedServerProofs` and `LightControllerProofs` |

Each definition's source lines are in the `map` of `PROJECT.json`. Definitions
marked *Mutant* are plausible bugs of the definition that follows them; they are
not part of the model and serve to show that each property can fail.

**SerialFrame, SerialParser.** Bytes are numbers below `Base`, the magic, the
modulus of the checksum and the limits are constants, so the same definitions are
the real program (`Base = 256`, `Magic = <<74, 172, 163, 87>>`,
`AdlerMod = 65521`, `MaxNetworkLength = 1024`, `MaxType = 20`) and an instance small enough to
check exhaustively. `netData` holds the bytes stored, so `dataOffset` is its
length; what lies behind that in the C++ array is never read. Each branch of
`processByte` is an action; a byte that follows a completed packet first clears
the offsets, which `OffsetMet` and `DataMet` express.

**SerialLink.** Because `sendPacket` is synchronized and passes a whole frame to
`writeBytes`, the line is all frames sent plus a cursor. `Receive` is one round of
the loop in `tick`, `Drop` a byte the receive buffer had no room for, `Reboot` a
restart of the controller while the server runs on.

**LightController.** A pass of `loop` is four actions in the order of the code.
The clock appears only as `millis() - lastPacket` (`age`), counted modulo `Wrap`,
because that is all the code reads of it; the two reads at the top of a pass are
taken at the same instant. `held` is the packet that `getHasNewPacket`
reports: it stays until the next byte arrives, so `Handle` happens again in every
pass in between. `silence`, `lull`, `wanted`, `ordered` and `unhandled` are history variables.

**LedServer.** Every API thread has a program counter; each read or write of the
communicator outside the monitor is a step of its own (`Call` and `Cast` read the helper,
`Check`, `Assign` and `Build` are `setBrightness`), and `setHelper` is a step each for
entering, `terminate`, `join`, installing and starting. The audio thread of an
S2L helper reads a block, enters the monitor, writes; it stops when it finds the
flag. `awaiting` counts packets for which `bytesAwaitingWrite` is positive. That
`join` gives up is possible whenever the audio thread is not finished, which covers
both a slow one and one that waits for the monitor. A WebSocket message with an
operation and a brightness is two requests in a row. The body of `sendPacket`
is one step: nobody else is inside the monitor, packets that leave the port between its
check and its write might as well leave afterwards, and unplugging the port in between
counts as before or after it.

**KellerSystem.** `line` holds packets: the last `awaiting` of them are still in the
server's port, the others in the controller's receive buffer, which has room for
`MaxWire`. Whole packets are enough because `SerialLink` shows what happens to
bytes: a damaged frame completes nothing (`Damaged`), nor does one of which only the first bytes
have arrived (`ReadPartly`); either is the end of the packet held until then. A restart of the controller loses
what it has received, a pulled cable what is in the port; either sets
`disturbed`. `LightSwitch` is the whole as somebody sees it who sends packets and looks at the
strips: the packets that have not arrived, the mode shown, and, because the controller handles a
packet again and again, the mode it may return to. Packets may be lost, one or many, but neither
reordered nor invented, and the mode changes only by a packet, a return to the last one, a timeout
or a restart. The refinement maps the packets on the line and in the receive buffer to its orders
(`Orders`) and the packet `getHasNewPacket` reports to the mode kept (`Kept`).

**Strobe, S2LWave.** `loop` shifts the nodes by the time that has passed and fills
the front lazily; `start` overwrites what was filled since the last packet. Time is
counted in ticks, so a float that only ever holds sums of times is a whole number.
Luminances stay, hues are left out.

**RawColors, S2LFlags, WebClient.** A picture goes through both encoders and both decoders; a
position of the packet that a decoder reads is recorded. The two flags
of the helper are read and written in the order of `makeFlags`, any API thread in between.
The page draws a frame per unit of time. What its socket still buffers (`unsent`, all that
`bufferedAmount` tells it) and what the network has on its way are apart; a socket that breaks loses the one and
any part of the other, and opens again.

**Lz4Decoder, Lz4Copy, Lz4DecodeStream.** Three views of the decoder. `Lz4Decoder` has the two loops
(`LZ4_FAST_DEC_LOOP` or not) with their real margins, for every caller (no dictionary, prefix, external
dictionary, partial decoding): a step records the bytes of block, output and
dictionary it touches, and what the input holds is open, so a damaged block is just one
of the possibilities. `Lz4Copy` executes the `memcpy` calls of each copy on bytes, with the two offset
tables. `Lz4DecodeStream` decodes blocks into a ring of `LZ4_decoderRingBufferSize`, a cell
holding the place of its byte in the stream, and includes the bytes that
copies write too much.

**Lz4Output, Lz4Stream.** Two views of the compressor. `Lz4Output` has the real constants and
leaves the matches open, to ask where bytes are written at a given capacity.
`Lz4Stream` has scaled constants, real bytes and a real (small) hash table, to ask
whether a match is what the decoder will find: indexes that survive resets, tables of 16 and 32 bits,
`LZ4_renormDictT`, a dictionary that the caller overwrites, saves or shares
between contexts, a block that fails or is stored as it is. The
decoder's text goes along in the model.

**Lz4HighMatches, Lz4HighOutput.** The same division for the hash chains of `lz4hc.c`. In
`Lz4HighMatches`, `pc` is the label the code jumps to (`main`, `_Search2`, `_Search3`,
`_dest_overflow`); the three matches it holds are records that remember what was found of
them, and `LZ4HC_InsertAndGetWiderMatch` returns any match its contract allows: of the bytes
asked for, extended backwards to the limit given, longer than the longest so far.
`Lz4HighOutput` has the real constants and any sequences one behind the other. This compressor encodes a
sequence, finds that it has no room, and goes back to where the sequence began (`optr`),
so bytes it has written are written again.

**Lz4FrameDecoder, Lz4FrameEncoder.** A byte of the text is its number, so an order,
a loss or a wrong copy shows. The decoder has one action per stage of
`LZ4F_decompress` (`dstage`), each with what `LZ4F_updateDict` makes of the history in the caller's
memory, in `tmpOutBuffer` or in both. `LZ4F_getFrameInfo` has two: at the beginning of a frame it reads
the header (`DecodeFrameInfo`), later it runs the stages without input. The encoder keeps, for either compressor, what
segments of memory a match may be taken from.

## Runs

The check of several components shares one run where that makes sense: a variable
`part` (or `menu`), chosen at the start and never changed, says which of them
a behaviour is about; the others rest, and each property speaks of its own part. The
states of the run are the sum, not the product, of the parts.

| Run | Question | Bounds |
|---|---|---|
| `parts` | Seven small components, see below | see below |
| `link` | What is delivered when bytes are lost, how many packets does a loss cost, and does everything arrive when none are lost? | 4 packets of 3 types (one contains the magic, one begins like it), 2 losses or restarts anywhere, a length limit of 19 so that a bogus length spans whole frames or is refused |
| `light` | Does the controller do what it was last told? | seconds as unit, the real timeouts, stalls up to 12 s, a clock that wraps after 26 s, three brightness values |
| `strobe_timeout` | Does the strobe end as its comments say? | no stalls; TLC refutes it |
| `server` | Do mode switches and brightness arrive, under races and back-pressure? | 2 clients, 3 helpers, 1 blocking packet tolerated, 4 levels; menu of modes, or of brightness with the port unplugged once |
| `server_served` | Is every request served? | 2 clients, 2 `setHelper` calls, the port unplugged once; nobody sets the brightness (`BusyNext`), which waits for nothing but the monitor of `sendPacket` |
| `server_throw_away` | Is a packet only thrown away after five blocking ones? | the real limit; TLC refutes it |
| `system` | Do server and controller agree at rest, and is the whole a light switch? | 1 client with 2 helpers and audio threads, a receive buffer of one packet, damage and restarts at any time; menu of modes, or of brightness with a cable that is pulled once |
| `system_obeys` | Is an order on an undisturbed line obeyed in the end? | as `system`, with mode requests only and a cable that is pulled once |
| `lz4_block` | The parts of the block format, see below | see below |
| `lz4_frame` | Frames, read and written in pieces, see below | see below |
| `lz4_frame_reset` | Does a reset of the frame decoder start afresh? | two short frames, one reset; TLC refutes it |

Two clients suffice for the races in the server because each of them is between a
reader and one writer; two or three helpers because a helper interacts with its successor
only. The counter of blocking packets is cut from 5 to 1 (0 in `system`) in the passing runs so that
it is at its limit often; nothing depends on its value but the bound itself, which is
proved for all values. With a length limit of one packet less, `DamageBounded` fails in `link`: its bound is tight.

`parts`:

| Part | Property | Bounds |
|---|---|---|
| `parser` | `OffsetsInStep`, `BufferBound`, `DoneMeansFramed`: safe under every byte stream | three-valued bytes (lengths 0-2 legal, 3-4 too long, 5-8 negative), one legal type; no bound on the stream |
| `wave` | `NoGaps`: a loud sound draws a line without gaps | 2 LEDs of 3 nodes, 3 loudnesses, pauses from nothing to longer than the strip |
| `flash` | `FlashesGoOn`: a flash ends, a forced strobe goes on | 2 LEDs, flash of 8 units, passes of 0 to 2 ticks |
| `strip` | `DrawnFromData`: nodes read for an LED exist | the real 121 LEDs with 3 nodes each |
| `colors` | `PicturesDrawn`, `DrawnFromData`: pictures arrive, no byte behind the packet is read | 4 colours, pictures of 1 to 3, strips of 2, both layouts |
| `flags` | `HitsAsAsked`: no hit forgotten or invented | 5 hits |
| `page` | `SliderPrevails`: the slider's value is the server's in the end, and never waits behind another message in the browser | 3 levels, a frame per unit of time, 2 unsent clicks, 2 messages under way, breaks at any time |

`lz4_block` (`InsideBuffers`, `DecodedWhole` and `CompressedWhole` are conjunctions over these parts):

| Part | Property | Bounds |
|---|---|---|
| `safe`, `fast` | nothing outside the buffers is touched; nothing of the block is left out | the real margins; inputs up to 50 and outputs up to 90 bytes, lengths and offsets around each boundary, five kinds of window |
| `copy` | every copy yields what the format says, inside the output | the real tables; offsets 0-40, lengths 4-40, 5-64 bytes of room |
| `short`, `long` | the capacity is kept, the decoder accepts the block, it holds all or as much as fits | real constants; inputs of 0-33 and 290-1100 bytes, capacities around each boundary |
| `highShort`, `highLong` | the same of the high compression | as above |
| `matches` | `SequencesLegal`: what is encoded are parts of matches that were found, one behind the other | inputs of 12 and 26 bytes, any matches, `OPTIMAL_ML` 6 instead of 18 |
| `stream` | `DecodesBack`: every block decodes to what was compressed; candidates are compared inside the window | two letters, window of 12, ring of 15, 4 calls, scaled limits of the indexes |
| `ring` | `RingBufferSuffices`: bytes later blocks refer to survive | window of 32, blocks up to 50, the real margins; the careful loop |

`lz4_frame`: the parts `mixed`, `stable`, `reset` read frames (linked or not, with sizes, checksums,
skippable, stored blocks) with buffers that move, that stay (`stableDst`), and with resets; input and
output in pieces of 0 to 6 and 0 to 5 bytes, blocks of 4, matches reaching back 3. `pieces` and `again`
write frames of up to 7 bytes in pieces up to 4 with blocks of 3, or two frames with one context, for fast and
high compression, linked or not, with and without automatic flush, dictionary,
and text that the caller overwrites. `TextHandedOut`, `NeverRefused`, `KeptInBuffers`,
`CallsMakeProgress` are about reading, `FrameHoldsText`, `BoundSuffices`, and again
`KeptInBuffers` about writing.

Deadlock is checked in every run but `link`, where a behaviour ends when
`MaxSent` packets are through, and `lz4_block`, where it ends with the block.

### What the runs found

- **The strobe does not end in silence.** `isInDoneState` stays set until the next
  byte, `loop()` therefore handles the same packet in every pass and sets
  `lastPacket`. After a complete strobe packet the strobe goes on for ever
  (`strobe_timeout`). The ambient timeout (`main.cpp:63`) is defeated in the same way; only a stream
  that breaks off inside a frame lets the timeouts fire (`SilenceEndsInAmbient`).
- **"The last 5 packets have been blocking"** is not what the counter says: six
  blocked packets, a free one and a blocked one are enough (`server_throw_away`).
- **A reset of the frame decoder leaves `frameRemainingSize`** behind: when a frame
  with a content size is abandoned, a following frame without one is refused at its
  end (`lz4_frame_reset`; LZ4's own comment promises a new start).

Found while modelling, without a run of their own:

- `LZ4F_getFrameInfo`, asked a second time before a block was read, begins the blocks (`dstage_init`), and the
  dictionary of the next `LZ4F_decompress_usingDict` is ignored. The model's caller does not ask then when it has a
  dictionary.
- A packet whose content contains the magic has no bound on the damage of a loss;
  `DamageBounded` is stated for the others.
- A replaced S2L helper may write one packet after its successor's
  (`StaleBounded`), and with the first finding the controller then stays in S2L mode.
- The branch of `S2LComponent::start` with the comment "this should not happen"
  (`S2LComponent.h:103`) is taken by the first packet of every component: it sees a delta of one second.
- The node range of the last LED is empty (`S2LComponent.h:74`), so that one LED stays dark.
- `LZ4_memcpy_using_offset` writes up to 12 bytes beyond, though `lz4.c:472-474` says 8; the margins of its caller cover it.
- The fast loop's copies go further than the 14 bytes that a ring of `LZ4_decoderRingBufferSize` allows for
  (`lz4.c:1818` against `lz4.h:392-395`): in such a ring, bytes that a later match refers to can be overwritten. With
  the careful loop they survive (`RingBufferSuffices`).
- A ring "of any size" (`lz4.h:331`) fails when a block covers the whole of its dictionary: the
  check at `lz4.c:1591` only sees a dictionary that is overwritten in part. `Lz4Stream` keeps callers to rings that hold more than a block.
- After a match was restored (`lz4hc.c:612`) the second match may start two bytes behind the first, with a
  match finder that does no more than its contract says; `lz4hc.c:626` says three. The lengths stay legal,
  because such a second match is longer than five bytes (`TwoHeld`). With real text no such case is known.
- The correction of the second match at `lz4hc.c:707-712` never corrects: it was made at `lz4hc.c:632` with the same
  lengths (step `<1>6` of the lemma `EncodeAscendingInv`).
- `LZ4_loadDict` with an empty dictionary leaves `currentOffset` at 64 KB; followed by a one-shot call with `fastReset`, the
  16-bit table (`lz4.c:744`) would have to hold a larger index. `lz4.h:308` forbids mixing the two.
- `LZ4F_compressBound(size, NULL)` is the bound for default preferences, not the worst case for larger block sizes.

### Fairness

- `SerialLink`: `Receive` is weakly fair; the Arduino core calls `loop()` for ever and
  each pass calls `tick()`.
- `LightController`: a pass is weakly fair, for the same reason. That the wireless
  LAN comes up is not assumed: `FinishSetup` has no fairness. In `KellerSystem`
  it is, as a part of `LightStep`: without it, the controller obeys nothing.
- `LedServer`: threads that can run do, the timeout of `join` expires and an
  unplugged port comes back (weak fairness). Java monitors are not fair; that a
  waiting client gets in if the monitor is free again and again (strong
  fairness of `Enter`) is an assumption about the JVM, made plausible by the audio thread
  spending nearly all its time outside.
- `KellerSystem`: the controller's loop goes on, bytes leave an open port. Nothing is
  assumed of the server: an order is obeyed whatever it does next.
- `S2LWave`: passes go on. `WebClient`: the browser draws frames, the socket opens, hands on what it
  buffers, and the network delivers what it has; that it breaks, or that anybody touches a control, must end for the property to say anything.

## Proofs

`ControllerProofs` proves of `SerialParser`, for every `Base`, magic, modulus and limit allowed by
`FrameAssumption` (the positive lengths up to the limit fit a signed two-digit
number, a type fits one byte):

- `ParserTypeCorrect`, `ParserOffsetsInStep`, `ParserStoresInBounds`, `ParserKeepsToLength`,
  `ParserCompletesOnlyFrames`.

None of them is inductive alone. `BufferBound` needs to know that content never
outgrows a sane header (`ContentWithinLength`), which needs the header not to
change while content is appended (lemma `AppendKeepsHeader`) and the offsets to be in
step (`OffsetsInStep`), so that a header byte is never taken for content. The
conjunction `ParserInv` is the inductive invariant. `DoneMeansFramed` then follows at
the step that completes a packet from `CheckedBufferIsFramed`: a length between
zero and the limit read as a short is the length written as two digits.

`ControllerProofs` proves of `SerialLink`, for every set of packets and any number of losses:

- `LinkTypeCorrect`, `LosslessLineDelivers`, `LosslessLineIsReliable`, `DamageStaysBounded`.

The parser's lemmas carry over: every byte the line hands over is a `ParserStep`, so
`ParserInv` holds of the parser at its end. `LinkInv` adds `InStep`: while nothing is
lost, the parser has stored exactly the part of the current frame it was given (or
nothing, or a completed packet, at the frame's start). The proof that a received
byte preserves it goes through the five places a byte can have in a frame (magic,
header, content, checksum, pad) and shows that only the pad completes it, with the
packet that was sent. `LosslessLineIsReliable` is the refinement: while nothing is lost, `SerialLink` implements
the reliable channel of `PacketChannel`, initial states and steps.

That the checksum of a packet is four bytes (`AdlerBytes`) is an induction over its bytes. The library's
induction theorems cannot be used, since they take a predicate as parameter, but `WFMin` (a set of natural numbers has a least
element) can: `SetInduction` is induction stated for a set, `RecursionExists` that a function defined by recursion over
`0 .. n` exists, and `RunningSumBounded` that the two sums of `Adler32` stay below the modulus. Of that only
`AdlerMod <= Base * Base` is assumed: 65521 fits two bytes.

`DamageBounded` forgets the very thing that decides whether it lasts: how much a parser that took content
for a header may still swallow. `DamageInv` keeps it. Since the last byte was lost the parser either
follows the frame on the line (`InStep`'s second half, `FollowsFrame`), or waits for a magic within the one
frame it will miss (`Hunting`), or is `Astray` with a `Reach` of bytes that a sane header bounds by the length
limit. Every frame that passes meanwhile is paid for by that reach, every loss pays for `DamageLimit`
frames (`DamagePaid`), and the pad that no magic holds (`PadAssumption`, true of `4A AC A3 57`) keeps a match from running
over the end of a frame, so that a hunting parser finds the next one (`NoMagicInside`, `MagicFreeLine`).

Of `S2LWave` and `RawColors` it proves, for strips, passes and pictures of any length:

- `LoudLineUnbroken`, `PicturesShown`, `DrawingReadsContent`.

`NoGaps` is inductive with the types alone, once it is known what shifting, repeating and falling do to a wave
(`ShiftedWave`, `RepeatedWave`, and `FallenWave`, an induction over the nodes): a pass repeats the node that was
first, which is loud if any was (`LoopKeepsLine`), and a packet overwrites as many nodes as were counted since the last one,
so that those which fell away from a quiet node do not stay (`StartKeepsLine`). For pictures it is the arithmetic of the two layouts: `InterleavedPlace` and `PlanarPlace`
invert the encoders' quotients and remainders, `InterleavedDrawn` and `PlanarDrawn` say what each decoder makes of the other end's
bytes. Assumed are `WaveSizes` and `PictureSizes`, which TLC evaluates for the instances of the run `parts`: a
wave of more than two nodes, since `continueWave` compares two, luminances that fit a byte, colours of three.

`LightControllerProofs` proves for every width of the clock, every timeout and every
stall:

- `LightTypeCorrect`, `EveryPacketIsHandled`, `OrderedBrightnessInUse`,
  `OrderedModeShown`, `FrozenPictureIsStrobe`.

`LightInv` needs four facts the properties do not mention: the order in a held packet is
the last of its sort, so that handling it again does no harm (`HeldIsLastOrder`);
`millis() - lastPacket` never exceeds the real silence, so that a clock that wraps
delays a timeout and never hurries it (`AgeIsSilence`); the brightness of the
program and of FastLED differ only before a handler is through (`LevelsAgree`); and a
strobe has painted by the time a timeout can freeze it (`StrobePainted`).

`LedServerProofs` proves for any number of clients and helpers and every limit:

- `ServerTypeCorrect`, `MonitorExcludes`, `BacklogStaysSmall`, `ReplacedHelpersAreTold`,
  `RememberedBrightnessOnLine`, `LateWritesBounded`, `CurrentHelperOnLine`.

`ServerInv` adds what a client holds while it works (`RequestInHand`) and that `setHelper` has
told the old audio thread to stop before it waits for it or replaces it (`ToldToStop`),
which survives the steps of other clients only because of `MonitorHeld`. The last
theorem has an invariant of its own, `BrightnessInv`: while calls have not
overlapped at most one client is between `setBrightness` and its write
(`OneSetsBrightness`), it carries the level remembered (`CarriesLevel`), and the level
remembered is on the line unless that client is about to put it there. The last two have
theirs as well. `HelpersInv` counts who can still write for a replaced helper: of an S2L helper the audio
thread, which was told to stop and writes once more if it was about to; of a colour or game helper the
threads that read it before it was replaced (`Holders`), and a thread that has written has given its
reference up. What has been written late and what may still be stays below the bound together (`LateBounded`).
`ModeInv` says that the last mode packet is the current helper's unless a thread is between
installing a helper and the end of its `start`, the helper only sends when there is something to
say, a helper wrote late or a packet was lost. Assumed are natural numbers for the limits, levels and names that
do not coincide (`ServerAssumption`), and a finite set of at least one client (`ClientsAssumption`).

Of `S2LFlags` it proves for any number of hits `NoHitForgotten` and `NoHitInvented`: the field
is set exactly while a hit is not covered by a packet (`FieldMeansUncovered`), because `makeFlags`
resets it before it sends, so that a hit which comes in between sets it again.

`KellerSystemProofs` proves for every value of the constants that suits both the server and the
controller (`SystemAssumption`):

- `SystemInvariant`, `ModesAgreeAtRest`, `BrightnessAgreesAtRest`, `SystemIsLightSwitch`.

Server and controller are instances, and so are the theorems about them: a step of the whole is a
step of the server, of the controller or of neither (`SystemRunsServer`; lemmas such as `SameServer` and
`SameLoop` say that the others leave a part alone), so `ServerInv`, `BrightnessInv`, `ModeInv` and
`LightInv` hold of the parts. What is proved anew is what lies between them. `SystemInv` says that, while nothing was
lost, the last mode and the last brightness under way are those the server sent last, and that the controller was
told them already if there are none (`ModesUpToDate`, `LevelsUpToDate`); both survive a delivery because the packet delivered is the
first and the one that counts is the last. At rest nothing is under way, and server and controller agree.
`SystemIsLightSwitch` is the refinement of `LightSwitch`, step by step: a write to the port adds an
order, a full receive buffer, a damaged frame or an unplugged port loses orders, the controller's
handler obeys one or returns to the one it has, its timeouts and restarts are the switch's.

`Lz4DecoderProofs` proves for blocks, outputs, prefixes and dictionaries of every size, and
whatever the bytes of the block are:

- `DecoderStaysInside`, `DecoderLeavesNothingOut`.

`DecoderInv` keeps for each label the margins of the code (`Margin`): a token to read, an offset and a byte behind it, 32 bytes
of room behind the literals of the fast loop, `MFLIMIT` behind those of the safe loop unless only a
part was asked for. One lemma for each of the three kinds of copy says what it needs to stay inside,
the lemmas `SafeLiteralKeeps` and `SafeMatchKeeps` do the two branches that both loops fall
back to, and `SourceChecked` and `SimpleSource` that a match which passed the tests starts in the dictionary or
not below the prefix; the second is why an offset needs no test behind 64 KB of prefix. Assumed is that half a token, a byte and an offset
have the ranges of their types, and that the entry points pass the arguments in `CallType`.

Of `Lz4FrameDecoder` it proves, for intact frames of any blocks, however the caller cuts input and output
into pieces, with or without a stable output, a dictionary, frames given up and calls of `LZ4F_getFrameInfo`, before a frame or in it:

- `FrameDecoderTypes`, `FrameDecoderProgresses`, `FrameDecoderInsideBuffers`, `FieldsNeverRefused`,
  `FrameNeverRefused`, `FrameHandsOutText`.

`FrameInv` says where the decoder is in the frame. `TargetsFit` gives each stage the length of its field,
`FieldsFit` that a field which was cut still lacks a byte and fits `tmpIn`, and `InField` that the bytes gathered are the
first ones of the field that is due and the input goes on behind them, so that every
field comes together right (lemmas `GatheredFacts`, `FieldWhole`, `InputEnds`) and only the text as a
whole can be refused, at its checksum. `Buffers` relates the history to `tmpOutBuffer`: each branch of
`LZ4F_updateDict` keeps a history that lies there within `maxBufferSize` (`HistoryFacts`), for which a block being flushed must
begin where its history ends, and a block decoded there fits behind it (`TmpOutFacts`). `GetsAhead` is why no caller gets
stuck: in the loop the call has moved or still has both a byte to read and room. Assumed are how the sizes of the
format compare (`FormatAssumption`) and that the frames are intact (`StreamsAssumption`): their blocks are not
empty and no longer than a block may be, a stored block has as many bytes as its text, and the sizes of the
blocks add up to the frame's.

`FrameNeverRefused` and `FrameHandsOutText` say that the text is right, and need what lies in memory: a second invariant,
`TextInv`, on top of `FrameInv`. `HistoryKept` says that the history ends with the text up to the
caller's next byte and goes back as far as a match may reach (`Reach`: less, while part of a block waits in `tmpOutBuffer`, because the rest of
the block counts as history too), and that it lies in `tmpOutBuffer`, in the dictionary, or in what the caller's
buffer was filled with, the last only as long as the caller may not overwrite it (`Filled`).
`BlockInTmpOut` says that such a block lies there whole, with room in front of it for the history that `Leave` or
`LZ4F_updateDict` still has to put there; `HandedOut` what a call has put into the caller's buffer; `CountsRight`
and `CountsBlocks` that bytes counted, hashed and handed out are those of the blocks so far. The lemmas on memory
(`CopyHolds`, `KeptOutside`, `HeldOn`) say what a copy leaves of a text; `HistoryUpdated` goes through the five cases of `LZ4F_updateDict`,
`HistoryInFront` is the one where the history moves in front of `tmpOut`; `HistoryReady`, `DecodedDirect` and
`DecodedToTmpOut` that a block finds what it refers to, and does not overwrite it; and then one lemma for each stage. At the end of a frame everything is
decoded, so size and checksum are right and nothing is refused. `GivenUpUnsized` is assumed: a frame that is given up in the
middle does not announce its size, or the counter that the reset leaves behind refuses the next one, which is what `lz4_frame_reset` shows.
TLC evaluates it for the three settings of `lz4_frame`.

Of `Lz4DecodeStream` it proves, for any window, blocks of any size and any sequences:

- `RingKeepsWindow`, which is the run's `RingBufferSuffices`.

`RingInv` says that the decoder's prefix starts the ring, that the segment before it, if there is one, ended at least
15 bytes further up than a window (`SegmentsApart`: the caller only wraps when the largest block no longer fits), and
which cells still hold the text (`RingHolds`): all of the prefix, and of the older segment what lies `RunOver` or more
above what was decoded. `RunOver` is 16 before a match and 14 otherwise: what the literals ran over more is taken back by the match
behind them, which has at least four bytes (`RingMatchKeeps`). The theorem is about the careful loop, the one that is built for
the controller's processor; of the fast loop it is not true. Assumed is that sizes are natural numbers, no block is larger than the
largest, and a match has four bytes (`RingSizes`).

`Lz4OutputProofs` proves for every input size, capacity, choice of matches and way to bound
the output:

- `CompressorInsideCapacity`, `CompressedIsAccepted`.

`OutputInv` needs, without a limit, that what was written exceeds what was read by a 255th
at most between sequences (`Expansion`), and with one that every check leaves room for what may
follow without a check: the offset after the literals, the last literals after a match, a
token when the output is filled (`RoomLeft`). `SequenceInv` says, for the same reasons, that what comes behind the
last match is long enough for the decoder's end conditions even if the next sequence is taken back
(`ShortenedMatch`, `EndsFarBehind`). That the sizes are natural numbers is their only assumption.

Of `Lz4FrameEncoder` it proves, for all sizes, preferences and dictionaries, both compressors, pieces that stay or
are overwritten, and any sequence of calls:

- `EncoderInvariant`, `NoCallRefused`, `TmpInInsideTmpBuff`, `FramesEndWell`, `BlocksOfTheText`.

`EncoderInv` has one part for each question. `EncoderRoom` says at every label what the call may still write: `Cost` is
what so many bytes take in blocks, and a piece is paid for block by block (`CostOfBlock`, `CostOfRest`), so that the one test at
the start of a call is enough for all of it (`CostGrows`, `AllCostsMore`); `LZ4F_compressBound` covers it whatever waits in `tmpIn`
(`BoundForUpdate`), a flush (`BoundForFlush`) and, with the smaller blocks `LZ4F_optimalBSID` chooses, a whole frame
(`BoundForFrame`). `TmpInFits` says why text is kept in `tmpBuff` only when there is one: with autoFlush nothing waits, without
linked blocks `tmpIn` stays where it is, and otherwise history that is saved leaves room for a block behind it (`SavesDictInv`), so
that the context `LZ4F_compressFrame` has of its own needs no buffer. `BytesCounted` is what ends in `FramesEndWell`.

`BlocksOfTheText` is that blocks refer to text the decoder has (`BlocksFollow`), and has an invariant of its own about
memory, `FollowInv`. `PlacesKept` and `TextInPlace` say where tmpIn, the piece and the dictionary lie and
which bytes they hold; `LinkedInv` that the history of a linked frame ends in front of tmpIn, with text that stays, or
in front of the rest of the piece (`SegmentInPlace`), that its external segment is none of the memory that pieces
pass through (`ExtInPlace`), and that both hold the text up to the last block (`HistoryHeld`). An external segment in tmpBuff may be
written over while text gathers in tmpIn: then the history itself is in text that stays, the block from tmpIn makes it
the external segment, and the old one is never asked for. `FastFollows` and `HCFollows` say of the two compressors that the history they
use and keep is text when the one they were given is (`GoesOn`), whatever overlapping or short part of it
they drop; `SaveFollows` that text that is about to pass is moved in time; `CallerWrites` and `GrowsFollows` that what the
caller and the encoder write is in nobody's way. It is a part of `FrameHoldsText`, which TLC checks.
Assumed is `EncoderSizes`, which TLC evaluates for both instances: natural numbers, a checksum no longer than
a block's header, a frame header within its bound, and that no preference asks for more than the largest `tmpBuff`.

`Lz4HighMatchesProofs` proves for every input, every match finder that keeps the contract, and any length from four
that a token can hold:

- `SequencesAreLegal`, `SearchGetsAhead`.

`MatchesInv` is what holds at the labels: the skipped match is shorter than the one that replaced it and starts at most two
bytes before (`OneHeld`), so that restoring it never loops, and of two matches the second starts at
least two bytes behind the first, and is longer than five when it is only two (`TwoHeld`), which is what keeps
both at four bytes when they are cut to fit. `SecondFacts`, `FirstBeforeFacts` and
`AscendingFacts` are what cutting does. `SearchGetsAhead` excludes a loop among the gotos: every step
encodes, moves on or reaches further, and the input ends. No run checks it as a property of its own; it is
proved from the invariant of the other.

`Lz4HighOutputProofs` proves, as for the other compressor:

- `HighCompressorInsideCapacity`, `HighBlocksAccepted`.

The checks are per sequence here, so the invariant needs no case for a begun sequence: without limit `Expands`, and
with the output to be filled a token's room in front of every sequence (`HighRoom`); `BehindCode` speaks of `optr` while a sequence is
taken back. `LongestMatch` is the arithmetic of the match cut to `maxMlSize`.

Only model-checked: everything under fairness (`LosslessArrives`,
`SilenceEndsInAmbient`, `RequestsServed`, `OrdersObeyed`, `FlashesGoOn`, `SliderPrevails`), which is out of the prover's reach;
what bytes and texts become in the modules that copy
them byte by byte (`Lz4Copy`, `Lz4Stream`), where a proof would be an induction over the text,
which is possible but not done; and, so far,
`LinkIsLossyChannel` and `DrawnFromData`, which is about the one strip there is.

## Not modelled

FastLED, the DSP library, the HTTP and WebSocket libraries, the Java port of LZ4 and the
flashing of firmware (third-party, not in the repository or only called); the parsing of requests,
static pages and logging; the picture of `RaceGameHelper`, the ambient hue and the spectrum of `S2LHelper`
(arithmetic on floats with no state that a property could be about).

Of LZ4: `LZ4_decompress_fast` (deprecated, trusts its input), the checks for pointers that wrap
around the address space, tables of pointers (`byPtr`, 32-bit machines with large inputs),
`LZ4_compress_forceExtDict` (a test hook), empty blocks in a stream, one-shot calls of 64 KB and more (they differ from the
others by the width of the table, which `Lz4Stream` has), the values of `xxhash`, and of `lz4hc.c`
the hash chains themselves (`LZ4HC_InsertAndGetWiderMatch` is its contract) and the optimal parser of levels
10 to 12, a dynamic program over prices.

Left for later: a theorem for `LinkIsLossyChannel`. It holds only of packets whose checksums tell damaged
content apart; TLC checks it for the packets of its run.
