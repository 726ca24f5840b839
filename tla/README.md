# TLA+ models of the dnstt DNS tunnel server

This directory holds TLA+ models of the dnstt server: the Noise-enabled server in
`src/unnamed/part_000` and the earlier server in `src/dnstt-server/main.go`.
It also holds the TLC configurations that check the models. Every definition
is translated from the Go source. `PROJECT.json` maps each definition to the
lines it models, and lists the runs, mutants, findings and hazards.

## The system

A DNS resolver relays the client's TXT queries to the server. The query name
carries the client's upstream data, base32-encoded. The TXT answer carries the
downstream data.

- **DNS responder** (`responseFor`). Takes a parsed query and checks, in order:
  - QR
  - the EDNS(0) OPT RRs (BADVERS, a second OPT, the payload size, raised to
    512 when smaller)
  - the question count
  - authority, which sets the AA bit
  - OPCODE
  - QTYPE
  - base32 decoding
  - the ClientID length
  - the 1232-byte payload-size minimum

  It returns the response skeleton, the ClientID and the upstream payload.
- **recvLoop**:
  1. Reads a datagram and calls `responseFor`.
  2. Offers the record `{resp, addr, clientID}` to a channel of 100 slots,
     without blocking. The record is dropped when the channel is full.
  3. Cuts the payload into packets with `nextPacket` and feeds them to KCP
     through `QueuePacketConn.QueueIncoming`.
- **sendLoop**. Takes a record from the channel, or the `nextRec` carried over
  from the previous iteration. If the response's header RCODE is NOERROR, it
  fills a TXT Answer:
  1. It first emits `nextP`, the packet left over from the last bundle, with no
     length check.
  2. It then selects on the client's outgoing queue. In its default branch it
     waits on the channel or on a 1 s timer.
  3. A packet that does not fit becomes the new `nextP`.

  After that it serialises the response, truncating it with TC set when it is
  longer than 1232 bytes, and writes it. A temporary write error goes on to the
  next record; any other error ends sendLoop.
- **loop and run**. `loop` starts sendLoop and runs recvLoop. When recvLoop
  returns, `loop`'s deferred `close(ch)` runs. `run` waits for `loop`, logs its
  error, and returns nil.
- **Session fabric**. `acceptSessions` sets the KCP MTU to
  `maxEncodedPayload - 2`. `acceptStreams` puts Noise and smux on each session.
- **Upstream bridge**. `handleStream` copies in both directions between a
  stream and a TCP connection.
- **Key generation** (`generateKeypair`, part_000:516-584, run for
  `-gen-key`). Writes the private and the public key, each to its file when a
  name is given. Every created file goes on `toDelete`. A deferred loop
  removes those files unless both writes and closes succeeded, in which case
  `toDelete` is cleared.
- **main and run's setup** (both servers). `main` checks the positional
  arguments, parses DOMAIN and resolves UPSTREAMADDR. In the Noise server it
  also runs `-gen-key` (which calls `generateKeypair`) and reads the key flags:
  `-privkey-file` through `readKeyFromFile`, `-privkey` through
  `noise.DecodeKey`, or a one-time key when neither is given. `run` starts the
  KCP listener and, only when `-udp` was given, the UDP listener and `loop`.
  It then waits for `loop`.
- **The first server** (`src/dnstt-server/main.go`). It has the same parts
  without Noise. Its `responseFor` sets AA from the start, and BADVERS does not
  end the OPT walk. Its sendLoop bounds each bundle by `dnsMessageCapacity` of
  the question name, with no truncation and a 2 s timer. Its KCP MTU is the
  capacity of a 255-byte name (228), with no length-prefix allowance.
- **turbotunnel.QueuePacketConn**. This code is not under `src/`. It holds
  bounded per-client incoming and outgoing queues, which drop packets when
  full.

## Modules

| Module | Models | State | Actions / operators |
|---|---|---|---|
| `ResponseFor` | `responseFor` (part_000:208-343) | pure | `EdnsWalk` (the OPT loop, 229-269), `responseFor` (the chain of early returns in code order), `Base32DecodeOK` / `Base32DecodedLen` (decoding modelled by what `base32.StdEncoding.WithPadding(NoPadding)` does with an input of that length and alphabet), flag arithmetic `Bit`, `Field`, `SetBits` |
| `PacketFramer` | `nextPacket` driven by recvLoop's loop (181-206, 396-405) | pure | `RecvPackets` (RECURSIVE): padding block, whole packet, stop at a short read |
| `MC_RecvLoop` | the harness for the pure steps of recvLoop | `which`, `query`, `input`, `cut` | a state holds either a query (`ReceiveQuery` varies its flags and question list) or a framed payload (`Receive` cuts it anywhere); the cfg bounds lengths, sizes and versions at their boundaries |
| `Carrier` | `loop`, `recvLoop`, `sendLoop`, `run`, and QueuePacketConn as the spec describes it | see below | see below |
| `MC_Carrier` | the harness | - | the query set: tunnel queries per client, a BADVERS query, and a query for a foreign name |
| `V1ResponseFor` | main.go `responseFor` (183-288) | pure | `EdnsWalk` (204-242: BADVERS ORs `16 & 0xf` and goes on), `responseFor` (its checks in main.go's order), `Answered` (sendLoop's test, 369); shares `ResponseFor`'s constants and decoding through `INSTANCE` |
| `V1Carrier` | main.go `loop`, `recvLoop`, `sendLoop`, `run` | as `Carrier`, plus `written` (the order of writes) | the `Carrier` actions with main.go's control; `DnsMessageCapacity` (140-154), `Mtu` (113-129), `TakeRecord` charging `nextP` to the per-name limit (384-395), `WireLen` of the whole message including the echoed OPT RR |
| `MC_V1Carrier` | the harness | - | tunnel queries with names of 120 and 255 bytes, with and without an OPT RR advertising 512, and a foreign query |
| `Bridge` | main.go `acceptSessions`, `acceptStreams`, `handleStream` (32-138) | `sess`, `fab`, per stream `bPc`, `up`, `down`, `streamClosed`, `connClosed`, and the peers' pending data and FINs | `AcceptSession`, `AcceptStream`, `AcceptStreamsReturn`, `Dial` (success or failure), `CopyUp`, `CopyDown`, `BridgeReturn`, and the environment: `SessionDies` (smux keepalive), `UpstreamSends`/`Closes`, `ClientSends`/`Closes` |
| `MC_Bridge` | the harness | - | two sessions with a stream each: `s1` served as in main.go, `s2` through the Noise handshake |
| `ResponseChannel` | spec.md "Ordering guarantees": what the record channel between recvLoop and sendLoop promises | `pending`, `delivered`, `stopped` | `Accept(s)` (a record of a later query), `Deliver` (the oldest is answered), `Abandon` (sendLoop or the process ends); weak fairness of `Deliver` |
| `KeyGen` | part_000 `generateKeypair` (516-584) | the arguments, `pc`, `files` (content per name), `toDelete`, `err`, history `created`, `removeFailed` | `GenerateKeys`, `SkipKeyFile`, `CreateKeyFile`, `WriteKeyFile` (`noise.WriteKey` and `f.Close`), `Commit` (`toDelete = nil`), `RemoveFile` (one iteration of the deferred loop), `Return`; each external call may fail |
| `Main` | `main` of both servers (main.go 495-525, part_000 634-730) and `run`'s setup (main.go 458-492) | the flags, `mpc`, `exitCode`, `key`, and `KeyGen`'s variables through `KG == INSTANCE KeyGen` | `GenKeyUsage`, `CallGenerateKeypair`, `GenKeyStep` (a step of `KG!Next`), `GenKeyReturn`, `Usage`, `ParseDomain`, `ResolveUpstream`, `RejectKeyFlags`, `ChooseKeySource`, `ReadKeyFile`, `DecodeKeyFlag`, `EphemeralKey`, `ListenUdp`, `RunWithoutUdp`, `LoopEnds`; every parse, read and listen may fail |

In `Bridge`:

- Each `io.Copy` iteration is two steps. `CopyUp`/`CopyDown` is the read,
  which ends the copy on EOF or a read error. `CopyUpWrite`/`CopyDownWrite` is
  a write that fails. A copy that ends closes its destination, as lines 41-57
  do.
- A stream is dead once it is closed locally or its session is dead.
- smux v2 has no half-close, so a write after the client's FIN fails.
- A write blocks until its destination takes the bytes. `ClientReads` stands
  for smux's window coming back, and `UpstreamReads` for TCP's. A stream write
  fails once the stream is dead or the client's FIN has arrived, because smux's
  `writeV2` returns on `chFinEvent` and `die`. A TCP write fails once the
  connection is closed, or once the upstream has closed its socket (the peer
  answers with a reset).
- For a session in `NoiseSessions`, `AcceptSession` leaves it in the
  `handshake` state. `NoiseHandshake` then either starts smux or fails, and
  failing returns from `acceptStreams`, which runs acceptSessions' deferred
  `conn.Close`. Nothing bounds how long the handshake waits.

**The refinement.** `Carrier` and `V1Carrier` each define `RC == INSTANCE
ResponseChannel` under a refinement mapping:

- `pending` is the sequence numbers of `rec` and `nextRec` (those held)
  followed by those on `ch`. It is empty once sendLoop has stopped or the
  process has exited.
- `delivered` is `handled` in `Carrier` and the records in `written` in
  `V1Carrier`.
- `stopped` is `sPc = "stopped" \/ exited`.

A record dropped on a full channel is a stuttering step of the abstract
spec. `ImplementsResponseChannel == RC!Spec` checks three things at once:

- records are answered in query order;
- none is answered twice or out of nowhere;
- each one is eventually answered unless sendLoop or the process ends.

The `Carrier` variables and how they follow the code:

| Variables | Code |
|---|---|
| `ch`, `chClosed` | the record channel and its `close(ch)` |
| `incoming`, `outgoing` | QueuePacketConn's per-client queues, bounded by `QueueCap` |
| `recvAlive` | recvLoop still running |
| `sPc` | where sendLoop is: `recv` (top of loop), `poll` (outer select), `wait` (inner select), `write` (WireFormat/WriteTo), `stopped` (returned) |
| `rec`, `nextRec`, `nextP`, `payload`, `limit` | sendLoop's locals of the same names |
| `lastSent` | the last datagram written: the bundle, the full RCODE, the client, and TC |
| `queued`, `handled` | history: sequence numbers of records put on `ch` and of records written |
| `exited`, `exitCode` | the process has ended, and its status |

`Carrier`'s actions are:

- `RecvQuery`: one whole iteration of recvLoop.
- `RecvFatal`: a permanent ReadFrom error, followed by the deferred `close(ch)`.
- `ServerExit`: run and main returning.
- The sendLoop steps:
  - `SendRecv` / `TakeRecord`
  - `SendReturn`
  - `BundlePacket`
  - `BundleNoPacket`
  - `WaitNextRec`, which includes the nil record received from a closed channel
  - `WaitTimer`
  - `WriteResponse`, with outcome `ok`, `temporary` or `fatal`
- `KcpWriteTo`, `KcpReadFrom`: KCP's side of QueuePacketConn.

`Carrier` uses `ResponseFor` through `INSTANCE`: every record's response is
`responseFor` of one of the model's queries. Datagram size is computed by
`WireLen`, which models `EncodeRDataTXT` (one length byte per 255 data bytes)
on top of the 294-byte worst-case message that the `maxEncodedPayload` comment
derives.

Not modelled in Carrier, because they change no state:

- temporary ReadFrom errors
- unparsable datagrams
- WireFormat errors, which take the same path as a temporary write error

## Runs

| Run | Expect | Checks | Shows |
|---|---|---|---|
| `recvloop` | pass | `ResponseMatchesSpec` | For every query, `responseFor` gives the spec's BuildResponse result: no response to a non-query, the ID and question echoed, and the full extended RCODE (header nibble plus OPT TTL). The AA bit, the OPT presence and the ClientID/payload handed upstream come from the first failing check in the spec's precedence order. |
| `recvloop` (also) | pass | `FramingRoundTrips`, `FramingTruncation` | `nextPacket` recovers exactly the packets of any padded encoding. On a payload cut anywhere, it yields the whole packets before the cut and nothing of a partial one. |
| `recvloop` (also) | pass | `QueryServedIffAnswered` | In the first server, a query's payload is handed to KCP exactly when sendLoop fills its response with downstream data. |
| `carrier` | pass | `TypeOK`, `AnswerWithinBudget`, `ImplementsResponseChannel` | With MTU-sized packets, and BADVERS and foreign queries mixed in, no TXT answer exceeds `maxEncodedPayload`, so none is truncated. The MTU's 2-byte allowance is what makes the unchecked `nextP` fit. The carrier implements `ResponseChannel`: records are answered in query order and eventually, across the `nextRec` hand-over, unless sendLoop or the process ends. |
| `v1carrier` | pass | `ImplementsResponseChannel` | The first server's carrier, mapped through its `written` sequence, implements `ResponseChannel` in the same way. |
| `bridge` | pass | `BridgeEndsOnPeerClose`, `SessionDeathEndsItsBridges` | `handleStream` ends once either peer closes or its session dies. This holds in both servers, with the Noise handshake succeeding or failing, and with writes that block, as long as the peers that have not closed keep reading. |
| `main` | pass | `GenKeyExitLeavesKeys`, `GenKeyFailureLeavesNoPartialFile`, `ServerKeyAsConfigured` | `main` is composed with `generateKeypair`, with any two file names (empty, distinct or equal), any files on disk, and any of key generation, `os.Create`, `noise.WriteKey`, `f.Close` and `os.Remove` failing. Three things hold: `-gen-key` exits 0 only when each named file holds its whole key; when it exits non-zero, it leaves none of the files it created, except one whose removal failed. The Noise server serves with the key the user gave, and with a one-time key only when no key flag was given. A key file that cannot be read ends the process. |
| `carrier_badvers` | violation | `AnswerOnlyForNoError` | A BADVERS response has header RCODE 0 and gets an Answer bundle. |
| `carrier_crossclient` | violation | `PacketsReachTheirClient` | Client c1's 928-byte leftover `nextP` is sent in the response to c2. |
| `carrier_wait` | violation | `FirstPacketWaitedFor` | An action property on the step in which the timer ends the wait: TLC finds the timer firing while a packet for the client, queued during the wait, is still in its outgoing queue. |
| `carrier_fatal` | violation | `FatalErrorEndsServer` | After recvLoop's fatal ReadFrom error, the process exits with status 0. A permanent WriteTo error in sendLoop leaves recvLoop running, so that error never ends the process either. |
| `v1responsefor_badvers` | violation | `QueryNoPayloadFromErrorResponse` | The first server takes the payload of a query it answers with BADVERS. |
| `v1carrier_oversize` | violation | `ResponseFitsRequestor` | The first server sends a 523-byte response to a requestor that advertised 512. |
| `main_udp` | violation | `UdpRequired` | A server started without `-udp` exits with status 0 and has served nothing. |

The violations are reported in `PROJECT.json` as findings.

**BADVERS and cross-client leftover.** These two are defects in the code:

- A BADVERS response gets a TXT Answer and waits for downstream data, which
  sendLoop takes from the zero ClientID's queue (responseFor returned before
  reading the ClientID). TLC's trace shows the empty Answer it gets.
- One client's KCP packet can be delivered to another client.

**The other three.** These are divergences from the spec or from a comment:

- `carrier_wait`: the comment at lines 457-460 says sendLoop waits for the
  first packet, but the inner select listens only on `ch` and the timer. A
  packet queued during the wait does not end it, and the timer then sends the
  response without it. A select that also listened on the outgoing queue
  would have been woken by the packet first, so it satisfies the property.
- `carrier_fatal`: the spec says a fatal I/O error ends the server with a
  non-zero status. In the code, `run` returns nil after a fatal ReadFrom
  error, so the status is 0. After a fatal WriteTo error, sendLoop dies while
  recvLoop keeps running. TLC's counterexample is the shorter first case.

**Both mains.** `main_udp` is a divergence from the spec, which says "`-udp`
address is required" and that argument errors exit 1. The Noise server's
help for the flag says "(required)" (part_000:657), and the first server's
usage line shows `-udp ADDR` as mandatory (main.go:499). Neither `main` checks
the flag. `run` skips the UDP listener (main.go:475, part_000:614), `wg.Wait` returns at once, and the process exits
0. TLC's trace is the first server's: 4 steps from the arguments to the exit.

**The first server.** Three defects, all in `main.go`:

- BADVERS does not return (line 233). A well-formed query with EDNS version 1
  is served and its payload fed to KCP, under extended RCODE BADVERS. A query
  that fails a later check gets RCODE 17, 19 or 20.
- The capacity of a response ignores the 11-byte OPT RR that `responseFor`
  echoes (line 384). A requestor advertising 512 gets 523 bytes, the
  counterexample TLC shows.
- The MTU equals the smallest capacity with no 2-byte allowance. A leftover
  228-byte `nextP` therefore takes 230 bytes of a 228-byte capacity, and the
  response is 514 bytes. The comment at 386-388 promises truncation, which this
  server never does. This also violates `ResponseFitsRequestor`.

Each property of a passing run has a mutant in `PROJECT.json`. A mutant is a
plausible bug in the mapped code, and TLC finds the property violated when the
mutant is in place:

| Property | Mutant |
|---|---|
| `TypeOK` | the MTU without its 2-byte allowance |
| `AnswerWithinBudget` | `limit` not charged for `nextP` |
| `ImplementsResponseChannel` | a `nextRec` forgotten |
| `ResponseMatchesSpec` | BADVERS not returning early |
| `FramingRoundTrips` | padding threshold off by one |
| `FramingTruncation` | a partial packet kept |
| `QueryServedIffAnswered` | the base32 failure returning with NOERROR |
| `ImplementsResponseChannel` (V1Carrier) | sendLoop taking from `ch` before `nextRec` |
| `BridgeEndsOnPeerClose` | the upstream-to-stream copy not closing the stream |
| `SessionDeathEndsItsBridges` | the stream-to-upstream copy not closing the TCP connection |
| `GenKeyFailureLeavesNoPartialFile` | a created file put on `toDelete` only after its key is written |
| `GenKeyExitLeavesKeys` | the error of `f.Close` ignored |
| `ServerKeyAsConfigured` | the error of `readKeyFromFile` not checked, so a one-time key is generated |

`KeyGen` is checked through `Main`, which composes it with `main`; its
`TypeOK` is not checked by a run: every value the code can assign
is within it by construction, and no plausible bug of the code leaves it.

The same holds for `V1Carrier`'s `TypeOK`: its one bound, `Len(ch) <=
ChanCap`, is `RecvQuery`'s guard, and a Go channel cannot exceed its capacity
(a send without the `default` branch would block), so it is not checked either.

## Bounds

**recvloop.** Encoded name lengths are 0, 9, 12, 13, 14 and 16. These give:

- a failing decode (9 and 14 are ≡ 1 and 6 mod 8)
- 7 bytes against 8 bytes of ClientID (12 and 13)
- a payload after the ClientID (16)

Payload sizes are 100 (raised to 512), 1231 and 1232, which straddle the
minimum. EDNS versions are 0 and 1. The model takes 0, 1 or 2 questions, and up
to two Additional RRs, which gives the duplicate-OPT and non-OPT cases. Four
flag values cover QR, OPCODE and RD.

**carrier.** The carrier bounds are:

- 2 clients
- packet lengths 100 and the MTU 928 (a 100-byte packet followed by a 928-byte
  one forces a leftover `nextP`)
- a channel of 2 slots (the full-channel drop happens)
- queues of 1
- 3 queries and 3 KCP packets

The `carrier` and `v1carrier` runs check the refinement, which includes a
liveness part. They use 1 client
with queues of 2, which keeps the temporal check under a minute. Two clients
with 3 packets take 2.5 and 6.7 minutes. The two-client interleavings are
covered by the `carrier_crossclient` run and by `v1carrier_oversize`.

**v1carrier.** Name lengths are 120 and 255: 255 gives the smallest capacity,
228, which is the MTU. `v1carrier_oversize` uses 226-byte packets: two prefix
bytes fill the capacity exactly, and the next MTU packet is left over.

**bridge.** Two sessions with one stream each, with every interleaving of
reads, blocked writes and the peers' reading. `s1` is served as main.go
serves it. `s2` goes through the Noise handshake first. A second stream per
session adds nothing to a stream's control, and it made the state space too
large for the liveness check.

**main.** File names come from `{n1, n2}` plus the empty name. That covers
each flag empty, two distinct files, and both flags naming the same file. Each
name starts absent, holding an old file, a private or a public key, or a
cut-off key. `-privkey` is absent or given, and so is `-udp`. There are 0 or 2
positional arguments, which is valid for one mode and not the other. Every
external call either succeeds or fails, and a failed write or close leaves
either content.

In `recvloop`, the framer uses up to 3 packets, drawn from empty, one byte, and
two bytes starting with a padding-looking 230. Padding blocks are none, or of
0 or 2 bytes.

## Fairness

`Spec` assumes weak fairness of sendLoop's steps and of `ServerExit`:

- sendLoop is a goroutine that is never blocked forever while a step is
  enabled, because the timer always fires.
- `run`'s `wg.Wait` returns once `loop` has returned.

Queries, KCP traffic and I/O errors come from the network and from KCP, so no
fairness is assumed for them. `V1Carrier` uses the same fairness.

`Bridge` assumes weak fairness of the goroutine steps:

- `Dial` and `BridgeReturn`
- each copy's read and failing write
- `AcceptStreamsReturn`

Each of these is enabled until it is taken. The peers and the session's death
get no fairness: data, FINs, reading and keepalive failure may never come.

The two liveness properties are implications from `PeersKeepReading`, which is
weak fairness of `ClientReads` and `UpstreamReads`. It is an assumption about
the peers, not something the code guarantees. Without it, TLC finds both
properties violated. For example, the upstream stops reading while a copy is
blocked writing to it, and the client then closes: the other copy reads from
a silent upstream, and the bridge never ends. That is hazard main.go:43.

`Main` has no fairness and no liveness property. Every path of `main` ends in
an exit, so the run does not check deadlock.

## Not modelled

- **QueuePacketConn idle eviction.** Queues of clients idle for
  `idleTimeout*2` are removed. This cannot strand sendLoop, which looks up
  `OutgoingQueue` afresh on every pass of its outer select. An eviction would
  only drop packets, which the models already allow. The rest of
  QueuePacketConn is not under `src/` and is modelled at its interface inside
  the carriers.
- **Flag parsing itself.** `Main` starts from the values the flags end up
  with.
- **The 65535-byte panic in sendLoop.** Downstream packets are at most the
  KCP MTU (928 bytes, or 228 in the first server), so `panic(len(p))` cannot
  be reached.
- **Temporary accept errors.** No deadline is ever set, so `AcceptKCP` and
  `AcceptStream` return none.
- **Whether KCP ever gives up on a silent peer.** This decides whether a client
  that never completes the Noise handshake holds an `acceptStreams` goroutine
  forever. It is listed as a hazard without a property.
- **The dns wire codec, KCP, smux and Noise.** These are external libraries,
  modelled only at their interface. For example, `kcp.ServeConn` on the
  in-memory conn cannot fail, and `noise.ReadKey` accepts any whole key.
- **Logging and printing.**

Nothing more of this repository's source is left to model. What remains is
library behaviour or I/O with no state that the server keeps.
