# A TLA+ model of wwan-go

wwan-go talks to cellular modems from Go: QMI (over cdc-wdm or QRTR), MBIM,
AT, and SIM cards behind any of them.  Most of its lines encode and decode
messages.  What is hard in it is concurrency: many goroutines share one
device, each with its own context, deadline and right to close, and the device
answers late, twice, never, or with something nobody asked for.  This project
models that part, checks it with TLC and proves its core with TLAPS.

Contents: [inventory](#1-inventory), [modules](#2-modules),
[runs](#3-runs), [fairness](#4-fairness), [proofs](#5-proofs),
[findings](#6-findings), [limits](#7-what-is-not-modelled).  `PROJECT.json` has
the same as data: the source lines of every definition, the hazards, and a
mutant for every property.

## 1. Inventory

Paths are relative to the repository; the number is non-test Go lines.

| component | source | state it keeps | operations | interacts with |
|---|---|---|---|---|
| QMI transport | `qcom/qmi/transport.go` (in 1,391) | `pending`, transaction counters, write gate, connection deadline, `closed`/`terminalErr`, lease flags | `Do`/`Start`, read loop, expiry, `fail`, `closeLease`, `closeCore` | connection, pool, client |
| QMI subscriptions | `qcom/qmi/transport.go` | `subs`; per subscription queue, wake token, channel | `Indications`, `deliverIndication`, `run`, `stop` | transport, watchers |
| device pools | `qcom/qmi/pool.go`, `mbim/pool.go` | one entry per device: core, use count, `opening`, `closed`, `closing` | `acquire`, `release`, `closeEntry`, `connectLease` | transport, dispatcher |
| QMI open | `qcom/qmi/qmi.go` | none | proxy or direct, proxy open | pool |
| QCOM client | `qcom/client.go`, `transport.go`, `mutex.go` | `clientIDs`, `allocatedClientIDs`, running requests, `closing` | `serviceClientID`, `withServiceClient`, dedicated IDs, `Close` | transport, every typed operation |
| QCOM watchers | `qcom/monitor.go`, `nas_watch.go`, `wms.go`, `voice.go`, ... | registration counts and masks, the one refresh watcher | `Watch*`, acquire/release of events | client, subscriptions |
| CAT ownership | `qcom/cat*.go` | CAT service and client ID | claim, probe, release, command stream | client |
| QMI codecs | rest of `qcom` (42,341), `qcom/tlv` | none | typed requests and responses | client |
| QRTR | `qcom/qrtr` (1,471) | one endpoint per service, pending, subscriptions | lookup, `Do`, `Indications`, `Close` | client |
| MBIM dispatcher | `mbim/dispatcher.go` | `pending`, `waiters`, `subs`, `indications`, `receiverErr`, `closing`, `writeMu` | `transmit`, `NextIndication`, `WatchIndications`, receiver, `closeLease`, `Close` | pool, backends |
| MBIM connection | `mbim/mbim.go`, `protocol.go` | open state, version, maximum transfer, fragment collectors | `connect`, `resynchronize`, `openDevice`, `closeDevice` | dispatcher |
| MBIM codecs | rest of `mbim` (16,061 in all) | none | typed CIDs | dispatcher |
| cdc-wdm | `cdcwdm` (349) | descriptor, wake eventfds, deadlines, active operations | `Read`, `Write`, `Set*Deadline`, `Close` | transport, dispatcher |
| modem | `modem/modem.go` (in 3,273) | bearer table, `closed`, change channel | `Connect`, `Disconnect`, `Close`, `Watch*` | backends |
| MBIM backend | `modem/mbim` (3,107) | session-ID slots, `sessionsPrepared`, enabled notifications | sessions, streams, messaging, USSD | MBIM client |
| QMI backend | `modem/qmi` (4,256) | IPA readiness, rmnet links, sessions | sessions, streams, messaging, USSD | QCOM client |
| contract | `modem/contract` (828) | none | types, `PollStream` | modem |
| discovery and open | `modem/discovery*.go`, `client.go`, `open_linux.go`, ... | none | sysfs scan, choice of protocol | everything below |
| SMS | `modem/sms` (999) | parts of incomplete messages | build, parse, assemble | backends |
| AT | `at` (910) | serial reader and its buffer | one command at a time | SIM reader |
| CCID, APDU | `ccid` (206), `apdu` (193) | card handle | transmit | SIM reader |
| SIM reader | `sim/*.go` (2,011), `sim/command`, `sim/card` | selected file, pending proactive commands | read, authenticate, STK polling | AT, CCID, QMI, MBIM |
| STK | `sim/stk` (2,849) | menu, handlers | proactive commands, envelopes | SIM reader |
| SIM files | `sim/simfile` (645), `sim/tlv` (245) | none | decoders | SIM reader |

The behaviours that make this system hard, and the properties to ask for:

- **One connection, many callers.** A response, a timeout, a lease close and a
  connection failure race for every request.  Exactly one must complete it,
  nobody may wait for something that has gone, and no sender may block.
- **Partial writes and deadlines.** The connection has one write deadline for
  all writers; a frame written in part ruins the stream for all.
- **A device that may be open only once.** Pools must never open it twice,
  never close it under a user, and never leave a waiter behind.
- **Device resources that outlive a request.** Client IDs, sessions and links
  whose allocation was answered too late must be known to somebody who will
  release them.
- **Indications.** No loss where the code promises none, drop-oldest where it
  says so, arrival order always, and an error last.
- **Close racing everything.** Each object closes while its operations run;
  Close must return and leave nothing.
- **Stale observations.** Watches write back what they read before a
  disconnect; caches outlive what they describe.

- **Lengths.** Every decoder indexes with numbers the modem sent, and every
  encoder writes a length into a field of one or two bytes.

The hazards list of `PROJECT.json` has the most important ones at their source
lines, with the properties that cover them, or the reason why none does.

## 2. Modules

| module | models | notes |
|---|---|---|
| `RequestService` | nothing in the source: what the transport promises | abstract specification |
| `QMITransport` | request side of `qcom/qmi/transport.go` | |
| `QMITransportImpl` | — | refinement mapping of `QMITransport` to `RequestService` |
| `QMISubscription` | indication side of the same file | |
| `DevicePool` | both pools | `ConnectsLease` selects the MBIM variant |
| `QcomClient` | client IDs and close of the QCOM client | the modem is external |
| `MBIMDispatcher` | `mbim/dispatcher.go` | the device is external |
| `ModemBearers` | bearers of `modem/modem.go` over the sessions of `modem/mbim/bearer.go` | the device is external |
| `CDCWDMConn` | `cdcwdm/cdcwdm_linux.go` | poll and eventfds are the kernel's |
| `QRTRConn`, `QRTRTransport` | `qcom/qrtr/conn.go`, `transport.go` | the second refines `RequestService` once per service |
| `PDNSession` | PDN and IMS sessions of `qcom/ims.go`, the watch of `wds_status.go` | the modem is external |
| `QMIBearers` | data sessions of `modem/qmi`: `bearer.go`, `ipa.go`, `rmnet_linux.go` | the modem, the kernel and other users of the port are external |
| `Registrations` | shared event registrations of the watchers | UIM, NAS, LOC and refresh styles |
| `PDCOperation` | requests of PDC and LOC that are answered by an indication | the modem is external |
| `MBIMConnect` | opening of an MBIM device | the device is external |
| `ATReader` | `at/at.go` | the modem is external |
| `SIMReader` | `sim/reader.go`, loading of `sim/card.go` | the card is external |
| `QMIWire`, `QMIExchange` | the TLV container and the course of one client method | |
| `QMINAS`, `QMIWDS`, `QMIDMS`, `QMIVoice`, `QMILOC`, `QMIWMS`, `QMIIMS`, `QMIDataPath`, `QMIUIM`, `QMIServices` | the messages of `qcom`, by service | in the notation of `QMIWire` |
| `MBIMWire`, `MBIMExchange` | data buffers and their references, and the course of one client method of `mbim` | extend the QMI ones |
| `MBIMTLVTypes`, `MBIMBasicConnect`, `MBIMExtensions`, `MBIMServices` | the messages of `mbim`, by service | in the notation of `MBIMWire` |
| `QMITransportTypes`, `QMITransportProofs`, `DevicePoolProofs` | — | theorems |
| `MC*` | — | TLC instances |

In all of them a process is a goroutine, `pc` says where it is, and an action
is one critical section, one channel operation or one call that leaves the
program (a read or write of the connection).  Everything a handler does under
one lock is one action.  What it does after unlocking is another: results taken
out of a table and sent later wait in `outbox` until `Send` puts them in
their channel.  A context that may end at any time is an action (or a branch)
without fairness, so both outcomes are explored.  Payloads are not modelled:
a response is known by the request it answers, an indication by its number.
Definitions named `Bug_X` are mistaken variants of the definition that
follows; they are not used by any specification.

**QMITransport.** `AddPending` (with `NextTransactionID`) registers a call;
`AcquireWrite`, `WriteFull`, `ReleaseWrite` are the serialized write, with
`StartInterrupt`/`RunInterrupt` the `context.AfterFunc` that sets the
deadline of the connection; `SettleWrite` is the error handling after a write;
`Wait`, `ReceiveResult` the two receives.  `ReadResponse` and `ReadError` are the read
loop, `FailCore`/`FailRequest` are `fail`, `MarkLease`/`SweepLease` the two
critical sections of `closeLease`, `CloseConn`/`CloseCore` close.  A write puts nothing,
part or all of a frame on the stream, and fails by deadline or otherwise.
`ctx` distinguishes a deadline that has passed from a timer that has fired,
because the code's outcome depends on which came first.

**QMISubscription.** One subscription is a queue, a wake token, a channel and
the goroutine that moves indications from one to the other (`Take`, `Push`, `Sleep`,
`Flush`).  `ReadIndication`, `Enqueue`, `Notify` are the read loop's dispatch.
`MarkLease`, `SweepLease`, `Fail`, `Stop`, `Stopped` end subscriptions.  The
histories `sent` and `got` exist only for the properties.

**DevicePool.** One device key.  Entries are numbered in the order made, so
an old entry and its replacement differ.  `Acquire` branches into `AwaitClosed`,
`Join`, `FindStale`, `AwaitOpening` and `Create` as the loop of `acquire` does; `Dialed`,
`InitializeFailed`, `Publish`, `Abandon` are the opening; `Release`, `CloseCore`,
`CloseEntry` the closing; `Fail` a core that dies on its own.

**QcomClient.** Users run `withServiceClient`, sessions hold a dedicated
client ID, and Close runs once.  The modem is a set of (service, ID) pairs it
holds; it may answer late, refuse, answer with the wrong service (`Misanswers`)
and reset.  A context-aware mutex serializes exchanges; `requestStop` cancels
the running one on close.

**MBIMDispatcher.** A caller makes one call: a request, a cancelled
transaction, `NextIndication`, `WatchIndications` or `Close`.  `Send` is the three-step
drop-oldest delivery, each step interleaved with the consumer.  `FragmentFault`,
`ReportLock`, `ReportWrite` are the receiver reporting a fragment error
through the callers' write mutex.  `pooled` is chosen in `Init`, so one run has
both a private client and one shared by leases.

**ModemBearers.** A bearer is named by the call of Connect that makes it.  `Prepare`,
`Clean`, `ReserveSessionID`, `Activate`, `ReadAddress`, `Undo`, `Store`, `Abort` are Connect from the
stale-session cleanup to the table; what precedes them (SIM, power, registration,
attachment) keeps no state here and is one step that may fail.  `LockBearer`,
`DisconnectSession`, `Finish` are the body shared by `Bearer.Disconnect`, `Bearer.Close` and
`closeOwned`; the owner, `DisconnectAll` and `Close` run it on the same bearers.
`QueryConnect` and `WriteConnected` are the two halves of a watch's poll.  An exchange with
the device is one step with an effect or none and a success or an error; an
error after the effect is a timeout.  `device` is what the device has active,
so the properties compare it with what the program believes.  `troubled`
remembers the IDs on which an exchange failed or the network ended the session:
there the code gives sessions and IDs up, and `SessionsOwned` excepts them.

**CDCWDMConn** and **QRTRConn.** What the transports assume of a connection: a
deadline or Close ends a blocked Read or Write, and no descriptor is used after
it was closed.  An operation takes a reference (`AcquireIO`), polls, and gives it
back; Close takes the descriptors out, wakes the pollers and waits for the
references.  The QRTR socket has one eventfd and a sequence number of the
deadline instead of an eventfd per direction: `RegisterPoll` compares the number, because
SetReadDeadline wakes only a registered reader.  Writes to an eventfd by
SetDeadline are assumed to succeed; those of Close may fail, as the code
provides for.

**QRTRTransport.** Requests of several services, each with an endpoint that is
dialed when first needed, under the mutex of the transport.  The endpoint is the
QMI transport's smaller sibling, and the module shows that each service by
itself implements `RequestService`, whatever the others do.

**PDNSession.** OpenPDN, OpenPDNs and OpenIMSPDN over one modem: client ID,
settings, start of a call, run-time settings, and the NAS part of an IMS session;
a failure at every step, a start whose answer was given up, a call the network
ends.  The modem is assumed to end the calls of a WDS client that is released.
Close and the status watch run beside it.

**QMIBearers.** ConnectPort on an embedded port holds `ipaMu` while it agrees on a data
format, if `ipaReady` does not know the port, and creates an rmnet link; then it
opens a packet-data session for each family, and Close, or the failure of a
step, takes all of it back.  A link is known by its name, which stands for the mux
ID, and its index, which the kernel gives once.  Other programs add and remove
links at any time; `robbed` remembers whose was taken.  A netlink exchange may fail with
or without effect.  Three ways of losing a link are the code's own and excepted by
`trouble`: the acknowledgment of the creation does not come, the new link cannot be looked
up (`rmnet_linux.go:61` returns without removing it), and its removal fails.
`ipaReady` is stale after a reset that was carried out and whose answer was lost;
`lost` excepts it.  On other ports a data session is its packet-data sessions only.

**Registrations.** `style` chooses what is registered: a mask (UIM, LOC), a switch
per indication (NAS) or the one refresh watcher.  Watchers acquire under
`watchMu`, which the request holds too, and release when they end; a request may
fail with or without effect, after which `maskUnsure` says that program and modem may
disagree until the next request.  LOCRegisterEvents sets a base mask without the
watchers' knowledge.

**PDCOperation.** Operations that subscribe, ask, and take the indication with
their token, under the mutex of their service.  Some modems echo no token
(`echoes`); LOC has none.  Tokens wrap at `TokenMax` (`TokenMax` = 2^32 - 1 in the code),
and indications of operations that gave up are still in the air.

**MBIMConnect.** Proxy configuration, OPEN, version, slot mapping, activation and its
polling, and the one resynchronisation after a NOT_OPENED, as a conversation of
frames with a device that resets, indicates and answers late.  `session` numbers
the device's sessions, so an indication tells in which it was sent.

**ATReader.** Commands on a line: Transmit takes the mutex, writes, and reads lines
until one ends the response; a context ends it at any time, and the rest of the
answer stays in the port.

**SIMReader.** Programs of APDUs against a card with one selected file and one
response held for GET RESPONSE; the reader is used directly or by a Card that
loads itself (`Plan`), with the Toolkit poll beside it.

**Messages.** Two thirds of the source is the QMI message set: 26 thousand lines of
encoders, decoders and client methods.  A definition of the message modules has
the name of the Go type or function it translates and gives its control: for
a decoder, the TLVs in the order they are looked up, what their absence means,
and every length test, count and read of the value (`Room`, `Count`, `Take`, `Each`,
...); for an encoder, the TLVs it appends with the widths of their prefixes
and the limits tested before; for a method, the exchanges it makes and whether
it judges the result before or after decoding.  `QMIExchange` executes them: one
Go statement is one step, the modem answers anything, and the length of a value is
an interval that each test narrows, so all 65,536 lengths are covered.  A read
beyond the shortest possible length is a panic (`ReadsInside`).  What a field
means is left out, except that a decoder may refuse a value for it.  `int` is taken
to have 64 bits, as on all platforms the library names, so sums of lengths do
not overflow.

An MBIM message is a structure with references, pairs of an offset and a size, into a
data buffer behind it.  `MBIMWire` translates the rules of `mbim/wire.go` for such a
buffer (`validateDataBufferRefs`: values in order, aligned, without gaps, nothing after
them) and `MBIMExchange` executes the methods.  Of a decoder it keeps when a reference has
been read and not yet validated (`loose`): slicing its value then is a panic.
Of an encoder it keeps where each value comes to lie; the references are written
by `appendRefValue` as the buffer grows, or computed in advance, and in both cases have
to lead a decoder of the package to the value and pass its validation: `PrefixesTrue`
covers them, and with them that no two fields of a structure overlap.  An answer
with a status other than success ends the call, with the buffer decoded first
for the commands whose failure carries one (`statusCarriesResponse`).  Each TLV type
of MBIMEx 3 and 4 is also encoded and decoded by itself, as a user of the package
does.

## 3. Runs

Sizes are distinct states; all runs finish within about three minutes on two
workers.

| run | instance | shows | states |
|---|---|---|---|
| `qmi_shared` | pooled core, one allocation, one request, two leases | an allocation is settled or the core ends; a torn frame ends the core unless the call was already completed; the transport implements `RequestService` | 981k |
| `qmi_private` | private core, two requests | nobody is stranded, nothing is left registered, responses reach their request, a deadline belongs to the writer, timed requests return | 258k |
| `device_pool` | four goroutines, five entries | one connection, no close under a lease, every acquire returns | 192k |
| `qcom_client` | two users, one session, two IDs, one reset, wrong answers | no client ID is orphaned without a reset, Close releases all and returns | 541k |
| `mbim_dispatcher` | two callers with a lease each, queue of one, two indications | no indication is lost by a cancelled waiter, order, error last, lease isolation, every call ends | 290k |
| `modem_bearers` | two connects, two session IDs, one watch, any sessions left on the device | exclusive session IDs that come back, no forgotten session, Close retires all and returns | 523k |
| `links` | a subscription (two leases, channel of one, three indications); a cdc-wdm device; a QRTR socket; PDN sessions | order and account of indications, no use of a closed descriptor, a closed session leaves nothing at the modem; blocked I/O, stop, delivery and the status watch end | 81k |
| `exchanges` | every client method of the QMI and MBIM message modules; QRTR with two services; three watchers; three PDC/LOC operations; three AT commands; a SIM reader and a Card; an MBIM connect; two data sessions on a port with two mux IDs | no read past the end, true length fields, no false success; isolation and close of QRTR services; registrations, own indications, own answers, a true file cache, no indication of an old session; a session keeps its rmnet link and leaves none | 883k |
| `qmi_zero_byte_timeout`, `qmi_torn_frame`, `qcom_reset_orphans_cid`, `sim_stale_selection` | as above | violated: see findings | |

`links` and `exchanges` hold several parts that do not interact.  `part` chooses
one in the initial state and the others rest, so the state space is their
sum and each part is explored as if alone.

**Bounds.** `Req`, `Proc`, `Caller`, `User`: two calls are the smallest number in
which one can disturb another; the pool has four so that one can open, one
join, one release and one wait.  `TxnMax` counts transaction IDs and is never
the reason a call is refused in these instances; the theorems hold for every
value.  `MaxEntries` leaves room for each goroutine to replace an entry once.
`ChCap` and `MaxQueue` of one make "full" reachable at once; `MaxInd` exceeds them, so
indications are dropped and queues overflow.  `MaxCID` of two
lets an ID be used again after a reset, which is what the reset run needs.
`MaxCount` = 3 of the messages is the number of entries a
list may have where the code tests no limit: an entry is decoded by the same
code each time, and two after the first show that the cursor moves on.  `TokenMax` = 9
and three operations let a token come back within a behaviour.  `MaxInd`, `MaxReset`,
`MaxPoll`, `MaxStray` and `MaxReads` of one or two let the event happen before and after
what it may disturb.  Of the data sessions, `MaxMux` = 2 makes the mux IDs run out,
`MaxIndex` = 3 lets a name be used again by each of the others, and with `Protocols` = 2
(three in the code, tried alike) the first can fail and the second be there.
Symmetry is not used: most runs check liveness, and in the rest the calls
differ in kind.

**Deadlock.** Checking is off except in `exchanges`, where it shows that a client method
never stops without returning; the other parts there may rest.  Elsewhere a
library whose callers have all returned rests, and what a deadlock check would
find is covered by the liveness properties, and by `NeverStranded` where a run has
none.

**Mutants.** Every property of a passing run is violated when one definition
is replaced by a plausible mistake: a dropped guard, a missing sweep, a lock
kept, a channel not drained.  They are listed in `PROJECT.json`.

## 4. Fairness

Weak fairness is given to the steps of a goroutine that is running and to
nothing the environment decides: not to new calls, contexts ending, answers of
the modem, failures, or leases closing.  Go's scheduler is preemptive, so a
goroutine that can take a step eventually does.  Four assumptions are more
than that:

- a request with a timeout (`Timed`) has its timer fire: `RequestReturns` is stated for
  those only, and a request without deadline may wait for ever;
- a closed connection makes a blocked read return (`WF` of `ReadError` when
  closed), which `cdcwdm` does by its wake eventfd and sockets by themselves;
- `LockWrite` of the MBIM dispatcher is strongly fair: `sync.Mutex` hands itself to
  a waiter after a millisecond (its starvation mode), and without that the
  receiver could win the mutex for ever.  `LockBearer` of Modem.Close is strongly
  fair for the same reason: the owner may call Disconnect again and again.
- an exchange of a session with the device ends (`WF` of `DisconnectSession`): Close
  gives it `closeTimeout`, and an owner who passes a context without deadline
  to Disconnect relies on the client's own request timeout.

In `links` the poll of a blocked operation is fair once it has something to
return: `poll(2)` returns when a descriptor is readable or its time is over.  The
steps of a PDN session's Close and of its watch are those of a goroutine; the
modem is not fair, except that a request made with a timeout ends.

A property about a consumer assumes the consumer reads, in the property.

## 5. Proofs

Proved for every set of requests, leases, goroutines and every bound, from the
named assumptions of the modules (`ConstAssumption`: the lease and kind of a request
are in range; `PoolAssumption`: the goroutines are finitely many, bounds are
naturals).

**QMITransport** (`QMITransportTypes`, `QMITransportProofs`).  `TypeCorrect`, then
`NoCallStranded`, `SendersDoNotBlock`, `NothingIsLeftBehind`, `ResponsesAreOwn`.  The
properties are not inductive: that the read loop never blocks needs to know
that a request is completed once, hence that its entry leaves `pending` before a
result travels, hence that no other call can own that entry.  `IInv` says so in
six parts: keys of started calls differ (`KeyInv`); an entry belongs to the live call
that made it (`OwnerInv`); a result is in one place and alone, and its entry is gone
(`MailInv`); a live call without entry has a result coming (`WaitInv`); a closed core
has no entries and a swept lease owns none (`GoneInv`); responses name their receiver
(`RespInv`).  Two lemmas carry most actions: a step that changes nothing
the invariant mentions, and a live call moving to another live place.

**DevicePool** (`DevicePoolProofs`).  `TypeCorrect`, `DeviceOpenOnce`, `UseCountExact`,
`LeasesStayOpen`, `NoWaiterForgotten`, `ChannelsClosedOnce`.  The invariant: only the current
entry has an open connection or an open `opening` channel (`EntryInv`); what holds of
a goroutine by its place (`ProcInv`); at most one goroutine opens or closes
(`OneWorker`); the use count is the number of users (`CountInv`, by the cardinality
theorems of finite sets).

`TypeCorrect`, `SendersDoNotBlock`, `UseCountExact`, `NoWaiterForgotten` and
`ChannelsClosedOnce` are proved and not run; the other theorems state properties of
`qmi_private` and `device_pool`.

Only model-checked: liveness, which TLAPS cannot prove; the refinements
`ImplementsService` and `EachServiceImplements`; and all other modules.

## 6. Findings

- `qmi_torn_frame`: a partial write whose request has meanwhile been completed
  by somebody else (its lease closed) does not end the core, although the tests
  want a partial write to be terminal; the next frame is appended to half of one.
- `qmi_zero_byte_timeout`: when the connection's deadline fires before the
  request's timer, an interrupted write of no bytes ends the shared core, which
  the tests want to survive.
- `qcom_reset_orphans_cid`: after a modem reset a client ID allocated anew under
  the same number can be forgotten by a call that still holds the old one, and
  is never released.

- `sim_stale_selection`: ListApplications, or a SELECT that failed half-way, moves the
  card's selection and leaves the reader's cache as it was; the next read of the
  cached file is sent without SELECT and returns another file's content.  A Card does
  not meet it, because it never reads the same file twice in a row around a
  list (`CacheIsTrue`).

One behaviour is not a finding, because no text of the repository speaks of
it, but worth knowing: when the network has ended an MBIM session, the device
refuses its deactivation, which `cleanupStaleSessions` tolerates and
`session.Disconnect` does not; the bearer is retired once its watch has seen the loss,
and its session ID stays in use until the backend is closed.
`SessionsOwned` without the exception of `troubled` finds it.

The QMI session has a similar one: an event that its watch handles after Close sets
`Connected` again (`modem/qmi/bearer.go:200`), and if that Close had failed,
`Bearer.Disconnect` (`modem/modem.go:1052`) keeps the bearer, whose every later
Disconnect returns the same stored error; Bearer.Close still retires it.

## 7. What is not modelled

- SMS, the Toolkit codecs and SIM file decoders: sequential
  code on bytes.
- Of the QMI and MBIM messages, the values: names, texts, units, bit meanings, and the
  `String` methods that fill `types.go` and `errors.go`.
- Discovery and network-interface lookup read sysfs; serial-port and PC/SC
  set-up and netlink messages are calls to the system.  Their outcome is an input elsewhere.
- Bytes of a stream: reading resumes at a frame boundary or fails.
- Wrap of transaction IDs: a counter stops at `TxnMax`.
- Claiming of CAT events (`qcom/cat_claim.go`): it takes client IDs away from other
  processes, and what those do meanwhile is not in the source.
- The counted registrations of DMS, DSD, IMS, IMSA, OMA, PDC, PDS, voice and WMS, which are
  copies of the NAS one, and the subscriptions of QRTR, a copy of the QMI ones.
- The watch of a QMI data session, the event streams of both backends, MBIM fragments and
  CLOSE, and the delivery of Toolkit commands to their channel.
