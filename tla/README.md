# pq-boringtun in TLA+

This directory is a verification development for pq-boringtun: a userspace
WireGuard in Rust (`boringtun`), extended with a hybrid post-quantum handshake
(feature `pq`: X25519 plus ML-KEM-768, message types 5 and 6), a command line
program (`boringtun-cli`) and a tool that makes preshared keys (`pq-psk-tool`).
The modules are translated from the code under `src/`; paths below are relative
to `src/boringtun/src/` unless they begin with `src/`.

`PROJECT.json` lists components, runs, the lines each definition models,
mutated forms of the code that each property detects, hazards, findings and
theorems.

## The system and its parts

| Part | Code | Modules |
| --- | --- | --- |
| Data session and replay window | `noise/session.rs` | ReplayWindow, ReplayClear, Session, PacketDelivery |
| Handshakes and the ring of sessions | `noise/mod.rs`, `noise/handshake.rs` | Tunnel, KeyExchange |
| Queue of packets that wait for a session | `noise/mod.rs`, handlers in `device/mod.rs` | PacketQueue |
| Timers | `noise/timers.rs`, `register_timers` in `device/mod.rs` | Timers |
| Rate limiter and cookies | `noise/rate_limiter.rs`, `Cookies` in `noise/handshake.rs` | Cookies |
| Device lock and event loops | `device/dev_lock.rs`, `device/mod.rs` | DevLock |
| Event queue and connected sockets | `device/epoll.rs`, `device/kqueue.rs`, `device/peer.rs`, `event_loop` in `device/mod.rs` | EventQueue |
| Peer indices | `IndexLfsr` in `device/mod.rs` | IndexLfsr |
| Device tables, configuration protocol, endpoints, event registration | `device/mod.rs`, `device/api.rs`, `device/peer.rs`, `device/allowed_ips.rs` | Device, AllowedIps |
| TUN interface, privileges, clock, key parsing, FFI and JNI, errors, command line, PSK tool | the other files | not modelled (see the end) |

How they interact. A *device* runs several event loops. Each loop holds a read
lock of the device lock while it waits for events and handles them; a `set=1`
request on the API socket upgrades to the write lock and changes the tables. An
event is a packet from the interface, a datagram from a listening or a connected
socket, or a timer. The handler finds the peer (by key, index or address), locks
it and calls its *tunnel* (`Tunn`). The tunnel runs at most one outgoing
handshake plus a displaced one, keeps a ring of eight sessions of which one is in
use, queues packets that find no session, and is told of the time by
`update_timers`. A *session* seals with an atomic counter and opens with a replay
window behind a mutex; it is the one part of a tunnel whose methods take `&self`,
though in this program they are only called from methods of `Tunn` that take
`&mut self`, one at a time.
In front of the tunnel, the rate limiter checks the MACs of handshake messages
and answers with cookies when there are too many.

Each boundary fixes the atomicity of the module above it. Session has a step for
each locked section, as its methods are written: the model lets callers interleave
that `Tunn` keeps apart, so what holds of it holds of the program. Tunnel, PacketQueue
and Timers have a step for each call, since a call has the tunnel exclusively.
Device has a step for each line of a request, since the write lock keeps handlers
out (this is what DevLock shows), and a step for each handler, which holds its
peer's lock.

## Modules, state and actions

Operators are named after the functions they model. An operator whose comment
begins with "a fault" is a wrong version of the one below it; no specification
uses it. It records a mistake that a property detects.

**ReplayWindow** is `ReceivingKeyCounterValidator`: `next`, `receive_cnt`, and the
bitmap as the set of its one bits. `WillAccept`, `MarkResult` and
`MarkDidReceive` follow the early returns of the code; sums are taken modulo
`Modulus` (2^64). The loops that clear skipped bits are given by their effect.

**ReplayClear** has those three loops (`AlignLoop`, `WordLoop`, `RestLoop`), one
iteration per step, and checks them against that effect. It starts from every
bitmap that has only bits of counters below `next` and has the newest one.

**Session** is one direction of a session used by any number of sealing and
opening threads. `FetchCounter` and `Seal` are `format_packet_data`;
`QuickCheck`, `DecryptFails` and `Mark` are the steps of `receive_packet_data`
(first lock, decryption, second lock). The network may repeat, reorder, lose and
damage packets. **PacketDelivery** is what it promises: what is delivered was
sealed, and once.

**Tunnel** is two endpoints and a network that keeps every datagram for ever.
State: `state` and `previous` of the handshake, `next_index`, the static keys, the
TAI64N stamps, the ring, its timers, `current`, each endpoint's clock. Actions:
`ForceHandshake`, `Encapsulate`, `ReceiveInit` with its three outcomes (answered;
buffer too small; encapsulation key does not decode), `ReceiveResponse`,
`ReceiveData`, `AdvanceTime`, `Expire`; `Restart` (Tunn::new in place of an old
tunnel: indices, remembered timestamp, handshakes and sessions are gone, the
datagrams of the earlier life are still on the network) and `SetStaticPrivate`
(another private key: sessions go, handshakes stay). `Builds` says which
endpoints may have been built with `pq`; the choice is made initially, so that mixed pairs are
covered. Cryptography is symbolic: a key is the record of what its transcript
binds, the static keys of both sides included. **KeyExchange** is what it
promises: the initiator installs a key only after the responder did, and of the
keys offered for one initiation (a responder that was restarted offers a second
one) at most one is agreed.

**PacketQueue** is `packet_queue` with the handlers of `device/mod.rs` that fill
and flush it. While `flushing` holds, the handler has the peer and runs its
`while let WriteToNetwork` loop, one round per `FlushStep`. Of the handshake only
the two outgoing slots and the existence of sessions are kept. `faults` chooses
whether buffers may be too small for a handshake message, or keys not decode.
The timer handler reaches the peer only when it has an endpoint and the device its
sockets (`Served`); packets are queued also for a peer that it does not reach. A
handler sets the endpoint when its flush loop has ended, `OpenListenSocket` may
lose the sockets.

**Timers** is `update_timers` branch by branch and every call that sets a timer.
All timers hold `TimeCurrent`, which only `update_timers` sets, and the device
does not call that for a peer without an endpoint (`endpoint = FALSE`). `queued` is
a history variable: `encapsulate` queued a packet behind the attempt in progress.

**Cookies** is a peer that keeps sending initiations and a rate limiter under any
load, with secrets that change, cookies that expire and replies that are lost.
It has one message of the peer in flight, because the peer forgets the MAC of
the ones before.

**DevLock** is `Lock::read`, `LockReadGuard::try_writeable` and the event loop,
by places (`pc`). `mutex`, `wants_write`, `readers` and `writer` are the lock's
pieces; `yield_notice` and `exit_notice` the notifiers of the event queue. Those
of parking_lot and epoll are external, modelled from how the code uses them. An
event loop reads a few times before it loops (`peeks`, `Peek`). The owner waits
for the threads (`OwnerWaits`, `JoinsAll`, `JoinPanics`) or drops the handle at
once (`OwnerDrops`), and then reads twice: `OwnerExits` and `OwnerCleans`. A panic
releases the guards of the thread. In a handler that is all (`HandlerPanics`);
under the write lock (`MutatePanics`) it leaves `wants_write` set, so no thread
reads again (`Broken`); the properties make an exception of this one case.

**EventQueue** is the registry of handlers under the event loops, one step per
system call or critical section of its mutex. The kernel's side is state: which
file a descriptor number refers to (`file`; numbers are used again once closed),
and the interest list with the raw `Event` pointer each entry carries and whether
it is on (`interest`). `events` is the vector from which an `Event` is freed,
`guard` each thread's EventGuard. The event that comes and goes is a peer's
connected socket: `Connect` and `InsertAt`/`RegisterEvent` add it, `Shutdown` and
`CloseConn` are all a roaming peer or an expired connection does to it, and
`TakeEvent`/`ClearEventByFd` (EventGuard::cancel) release it when a thread sees
the end of file. Steps of kqueue.rs that differ have actions of their own
(`RegisterKevent`, `TakeKevent`, `ClearKeventByFd`, `StopUserEvent`); `kqueue`
chooses the implementation initially. Handlers may panic, also with the peer locked;
a panic under the write lock is in DevLock. Of the device lock only
what keeps the loop and a writer apart is here; DevLock has the lock itself.

**IndexLfsr** is the shift register; a word is the set of its one bits.

**Device** has the tables `peers`, `peers_by_idx`, `peers_by_ip`, every `Peer`
object ever made (`objects`), sockets, and the event queue as a set of file
descriptors. A request is read line by line: `PrivateKey`, `ListenPort`,
`Fwmark`, `ReplacePeers`, `PublicKey`, `PeerSetting`, `NextSection`,
`LastSectionEnds` (also at the end of the stream, which commits the section), and
`RequestEnds`, after which what was done stays; in a peer's section that is a
line that is refused or a read that fails, and the section is dropped. Handlers:
`Datagram` (with roaming and `connect_endpoint`), `Expire`, `EndOfFile`; and those that end an event loop by a
panic, `DatagramBeforeKey` and `PacketUnconnected`. **AllowedIps** is the table of
networks with longest match.

`MC*` modules add the sets and symmetries that a run needs. `*Proofs` modules have
the theorems; the inductive invariants are at the end of the modules they are about.

## Runs

Run one with `tlc -workers 2 -config MCSession.cfg MCSession`.

| Run | Config | Properties | Shows |
| --- | --- | --- | --- |
| replay_clear | MCReplayClear | ClearsExactlySkipped | From every window and for every skip the three loops clear exactly the bits of the skipped counters. |
| session | MCSession | WindowExact, LossEstimateSound, NonceNeverReused, RefusalJustified, DeliverySpec | With two callers that seal and two that open, nonces are unique, the window knows exactly what was received, a good packet is refused only for cause, and Session refines PacketDelivery. |
| tunnel | MCTunnel | NoncesFresh, InitAnsweredOnce, OwnKeyOnly, NewestInUse, KeyExchangeSpec, SwitchConfirmed | With indices that wrap, slots that are overwritten, failed answers, clocks, timeouts, restarts, new private keys and mixed builds: no key's counter starts over, an initiation leaves one session, no session of an old private key comes back, late packets do not bring an old session back into use, a switch is only to a session that the other side has, and Tunnel refines KeyExchange. |
| queue | MCPacketQueue | EveryPacketOnce, NothingLost, QueuedMeansTrying, FlushEnds, Drained | Waiting packets are neither lost nor doubled, wait only while a handshake is awaited, and leave in the end when the timer handler reaches the peer; the flush loop ends, also with failures. |
| dev_lock | MCDevLock | ReadsNeverBlock, NoLostWakeup, YieldForWriter, NoNewReaders, WritesHappen, ReadersReturn, ExitSpreads, CleanedUp | The lock admits no deadlock with its mutex, loses no wakeup, and gives every thread its access, also when handlers panic; one exit ends all loops, and the owner comes to the end of its clean-up. |
| timers | MCTimers | NeverAhead, SessionsDie, RetriesCease | No subtraction of times is below zero, sessions die in time, attempts end. |
| timers_keys | MCTimersKeys | FreshKeysKept (violated) | See Findings. |
| timers_queued | MCTimersQueued | QueueingResets (violated) | See Findings. |
| cookies | MCCookies | NotLockedOut | A peer that keeps retrying gets an initiation past a loaded rate limiter. |
| event_queue | MCEventQueue | NoDangling, NeverForgotten, OneHolder, Silenced, ShutIsClosed, WriterAdmitted | The kernel never hands out the pointer of a freed handler and no registration is lost, although descriptors are closed and used again; a handler has one holder; a stopped notifier stays silent; shut sockets are closed in the end; the notifier reaches every thread. |
| device | MCDevice | IndicesUnique, TablesAgree, RoutedIsAllowed, KeysAgree, ConnMatches | After any requests, also ones that fail half way, the tables agree, routes lead to peers that accept the address, all tunnels and limiters have the device's key, and a peer's connected socket has the device's port and mark and the peer's address, whatever the order of requests, roaming and expiry. |
| device_listeners | MCDeviceListeners | ListenersClosed (violated) | See Findings. |

### Bounds, and why they are enough

- *replay_clear*: three words of three bits and counters to 20. That is more than
  two turns of the window, every alignment of both ends of a skip, skips that fit
  in a word, span one or two whole words, and exceed the window. Three is not a
  power of two, which checks that the arithmetic does not depend on it.
- *session*: two words of two bits and six counters, so the window slides past its
  first counters; two receivers are what a race between the two locks needs.
  The theorems below remove these bounds.
- *tunnel*: four indices drawn by the two endpoints together, an index space and a
  ring of two. An endpoint's third index is its first again, so both wrapping and
  overwriting happen; two completed handshakes, or one and two failed, fit. Two
  time stamps let a stamp repeat and advance; three data packets in all let a
  counter be reused if it could be, and two sessions be confirmed.
  MaxTurns bounds ticks of a clock, expiries, restarts and new private keys together
  by two (of keys one), of either endpoint and in any order: enough for a datagram
  of an earlier life or of an old key to arrive in a later one, and for sessions that began at
  three different times. At least one endpoint is built with `pq`,
  since a handshake without it takes the same steps.
- *queue*: three packets and a depth of two, so the queue overflows.
- *dev_lock*: two event loops, the owner, three writes: two writers contend and a
  third comes after both. (In the program only the handler of the one API event
  writes; that writers contend is more than it does.) The first loop reads twice
  before it loops and the other three times, as they do without multi-queue (with it
  there is one more). Its safety part is proved for any number of threads.
- *timers*: constants keep their order (RejectAfter > RekeyAfter, RejectAfter >=
  Keepalive + RekeyTimeout) but are as small as that allows; MaxTime is
  3 * RejectAfter, the longest span in the code. Two slots are one in use and
  another. *timers_keys* and *timers_queued* have fewer events and no persistent
  keepalive, since a short counterexample is looked for.
- *cookies*: the limit is two and the secret or the cookie turns twice, which
  makes a cookie stale both before and after it is used.
- *event_queue*: two threads are what a race needs; two sockets and three
  descriptors, of which each socket needs two, force the second socket to use a
  number of the first while that is being released; one panic.
- *device*: two device keys, two peer keys, two overlapping networks with host
  bits, a three-bit register whose sequence from its seed is exhausted at the
  third peer; two addresses, two ports, three sockets: one that listens and two
  more. The constraint MCBound keeps routes and sockets apart: behaviours with
  allowed IPs have three peers (one key may be removed and added again), two keys
  and no socket opened, those with addresses two peers and no allowed IPs. No
  property relates both.
- *device_listeners*: the same without allowed IPs.

Symmetry is used only for sets whose members nothing tells apart, and in no run
with a liveness property. Deadlock is checked in session, queue, cookies and
event_queue.
The others stop because they end (replay_clear, dev_lock after exit) or because
a named bound is used up.

### Fairness

- PacketQueue: weak fairness of the flush loop, and strong fairness of "a response
  arrives or the attempt is given up" while the timer handler reaches the peer.
  `update_timers` sends the initiation again
  every REKEY_TIMEOUT and gives up after REKEY_ATTEMPT_TIME; run *timers* checks
  that part (RetriesCease). A peer that keeps sending initiations of its own makes
  each attempt begin anew; for that case the assumption is that a response gets
  through in the end. Nothing is assumed of a peer without an endpoint
  (`device/mod.rs:549-552`) or without sockets (`:541-544`), and Drained does not
  speak of its packets, which may wait for ever.
- DevLock: threads run and handlers return (weak); parking_lot's mutex does not
  pass a thread over for ever, and epoll hands out ready events in turn (strong).
  No fairness is assumed of GetEvent: no socket has to have data; nor of a panic.
  MaxWrites makes the writers finitely many, and ReadersReturn needs that: a reader
  that waits is not admitted before a writer that comes again and again.
- EventQueue: threads go on with what they do (weak). The kernel queues ready
  entries and hands them out in turn, so the notifier, and a socket at its end of
  file, are not passed over for ever by other events (strong). No handler has to
  shut a socket down, to open one or to ask for the write lock.
- Cookies: the peer keeps sending initiations (weak). The timers do so for
  REKEY_ATTEMPT_TIME only; beyond that it takes a peer that goes on having packets
  to send, each of which begins an attempt. And of messages sent
  again and again some arrive (strong). None is assumed of the load, of resets of
  the count, or of the secret.

## Proofs

Checked with `tlapm`; every theorem holds for all values of the constants that
satisfy the named assumptions. Every safety property of the runs that pass has a
theorem; those of the runs *tunnel*, *session* and *dev_lock* include the
refinements of KeyExchange and PacketDelivery and the action properties
RefusalJustified, SwitchConfirmed and NoNewReaders.

| Module | Theorems | For every |
| --- | --- | --- |
| ReplayClearProofs | LoopInvariant, ClearingIsExact | word size, number of words, counters below the wrap |
| SessionProofs | SessionInvariant, TypeCorrect, WindowIsExact, NoncesAreUnique, LossEstimateIsSound, AcceptsOnce, RefusalsAreJustified, ImplementsDelivery | the same, and any number of threads |
| TunnelProofs | TunnelInvariant, NoncesAreFresh, AnInitIsAnsweredOnce, OwnKeysOnly, KeysAreExchanged | size of the ring and of the index space, number of handshakes, packets, ticks, restarts and new keys, mix of builds |
| TunnelProofs | NewestIsInUse, SwitchesAreConfirmed | the same |
| PacketQueueProofs | PacketsInvariant, EachPacketIsInOnePlace, NoPacketIsLost, WaitingIsForAResponse | set of packets, depth of the queue, set of faults |
| TimersProofs | TimersInvariant, TimersAreNeverAhead, SessionsDoDie, RetriesDoCease | timer constants in the order of the code's, number of slots |
| DevLockProofs | LockInvariant, ReadsDoNotBlock, WakeupsAreKept, YieldIsTakenBack, NewReadersAreKeptOut | set of event loops, number of writes and of reads before the loop |
| EventQueueProofs | QueueInvariant, NoPointerDangles, NoEventIsForgotten, HandlersAreExclusive, NotifierStaysSilent | set of threads and of descriptors, number of sockets and panics, epoll and kqueue |
| DeviceProofs | LfsrInvariant, RegisterIsNeverZero, IndicesAreUnique | width, polynomial with its highest bit set, seed and mask |
| DeviceProofs | DeviceInvariant, TablesDoAgree, KeysDoAgree, ConnectionsMatch, PeersHaveOwnIndices, RoutesAreAllowed | set of keys, peers, networks, ports, marks and addresses, number of requests |

Assumptions.
- `WindowAssumption`: the counters of one session stay more than a window below
  2^64 (a session is replaced long before).
- `SessionAssumption`: None is not a packet or a counter and Receivers and
  Senders are sets of threads.
- `TunnelAssumption`: there are two endpoints, and the size of the index space is
  a multiple of the size of the ring (256 and 8). `NoneAssumption`: None is not
  a session.
- `QueueAssumption`: the keepalive is not a packet of the interface, and the
  queue has room for one.
- `TimersAssumption`: REKEY_ATTEMPT_TIME is not zero, and REJECT_AFTER_TIME is at
  least KEEPALIVE_TIMEOUT + REKEY_TIMEOUT (90, and 180 against 10 + 5).
- `DevLockAssumption`: the owner is not an event loop.
- `EventQueueAssumption`: the four fixed events are different from each other and
  from the sockets, and Nothing is none of them.
- `LfsrAssumption`: the polynomial has its highest bit, which 0xd80000 does in 24
  bits. `DeviceAssumption`, `AddrBitsAssumption`: the prefix length of an allowed
  IP is at most the number of bits of an address.

The arguments:

- *LoopInv*: at each iteration the bits of `first .. i-1` are cleared and no
  other, and the word loop stands on a word boundary or has reached the counter.
  The last part is what makes whole-word clearing safe; without it the step of
  WordLoop is not inductive. At the end `i = counter`, which is ClearSkipped.
- *SessionInv*: WindowInv says that, for each counter in the window, its bit tells
  whether it was accepted, and that nothing at or past `next` was. WindowExact
  itself is not inductive: it does not say that a bit shared with a counter that
  left the window was cleared before it comes round. The proof of Mark rests on
  two counters less than a window apart having different bits (ModDistinct), and
  on ClearSkipped clearing those that are skipped. SendInv says that what was
  fetched or sealed is below the atomic, and OpenInv that what decrypts was
  sealed, which the refinement to PacketDelivery needs.
- *TunnelInv*: NoncesFresh by itself does not exclude that a key comes into the
  ring a second time with its counter at 0. The invariant adds that secrets were
  drawn before they are used (KeysAre), that one secret goes out in one
  initiation with one timestamp and that data is sealed only under installed keys
  (MsgsAre), that an initiation which is awaited has no installed key yet and is
  awaited once (AwaitedAre), and that a session is in the slot of its index while
  the timestamp of its initiation is remembered (SessionsAre). The first answer
  to an initiation takes it out of AwaitedAre, so no later one opens; an answer
  that is sent has a secret newer than all before, so its key is new. That
  indices wrap and that slots are overwritten plays no part: the result does not
  depend on how far the ring has turned. KeysAreExchanged maps the keys that an endpoint installed
  as a responder to `offered` and those installed as an initiator to `agreed`; a
  step of the tunnel is one Offer, one Agree or a stutter, and AwaitedAre gives
  the guard of Agree.
- *UseInv*: NewestInUse compares the times of slots, and needs AgesAre: no slot's
  time is ahead of its peer's clock. When an answer's session goes into the slot in
  use, which it does once indices have wrapped, the slot gets the present time and
  so stays the newest; otherwise the session in use is left alone.
  `set_current_session` compares with the session in use, which NewestInUse makes a
  comparison with all that are known to work, and AdvanceTime drops the slot in use
  only together with every older one. SwitchConfirmed takes TunnelInv: the packet or
  the response that leads to a switch was sealed under an installed key (MsgsAre),
  and the session that opened it is in the slot of its index (SessionsAre).
- *PacketsInv*: EveryPacketOnce counts a packet's places, and each of push, pop
  and the rotation of the flush loop moves one unit (lemmas on Append, Tail and
  cons). QueuedMeansTrying needs AlwaysAnswered: without faults, no call ends in
  InitReceived, from which `encapsulate` would not start a handshake.
- *TimersInv*: no timer is ahead of TimeCurrent, nor TimeCurrent of the clock.
  SessionsDie and RetriesCease speak of the clock at which a session or an attempt
  really began, and the code compares timers; SessionTimed and AttemptTimed say
  that the timer is not later. Because `update_timers` sets TimeCurrent before it
  compares, what is older than the limit is dropped in the same call.
- *LockInv*: each piece of the lock is a function of where the threads are, and
  at most one thread is in the section that begins with `wants_write = true` or
  panicked inside it.
  ReadsNeverBlock, the claim of the comment "There is no race here because
  wants_write blocks other threads", follows because the writer bit is held only
  inside that section and a thread reaches its read lock outside of it only with
  the mutex held and the flag down.
- *QueueInv*: GuardIs and LocksAre make a thread's guard and locks a function of
  where it is. EntryIs says that the kernel's entry of a file carries that file's
  pointer and is off while a guard exists, DescriptorIs which numbers refer to
  which socket, HeldIs that what a thread has is still registered. PendingIs and
  DeletedIs describe the two windows in which kernel and registry disagree: the
  socket being added, and the one being deleted, whose number under epoll may
  already refer to a new socket, but to none that is registered, since
  InsertAt waits for the mutex. Without that last part the deletion could take a
  new registration with it, and NeverForgotten would not follow.
- *LfsrInv*: the registers so far are a chain from the seed without repetition
  and without zero. Step is injective because the polynomial's highest bit tells
  whether it was mixed in, so the first repetition could only be the seed, where
  the assertion stops the generator.
- *DeviceInv*: IndicesAre ties the objects' indices to the register's chain, so
  that a new peer takes nobody's entry in `peers_by_idx`. RoutesAre says that a
  route's peer is live and has that very network; RoutedIsAllowed, which is about
  longest matches, follows from it (a network that matches in the device's table
  is in the peer's). ConnsAre ties a connected socket to its peer, so that what is done to
  one peer's socket leaves ConnMatches of the others alone.

TLC has checked every one of these invariants on small instances before its
proof, with the constants of the runs.

Most leaves name Zenon. That is not about difficulty: the translation for the SMT
solver slows down with every obligation of a module, and in modules of this size
later obligations reach their time limit; SMT is left for arithmetic, and for
steps that Zenon does not find.

Only model-checked: liveness under fairness (FlushEnds, Drained, WritesHappen,
ReadersReturn, ExitSpreads, CleanedUp, ShutIsClosed, WriterAdmitted and
NotLockedOut, the one property of Cookies). It is out of the prover's reach, as
are ENABLED, induction over data and RECURSIVE operators (none is used).
FreshKeysKept, QueueingResets and ListenersClosed do not hold (see Findings).

## Findings

Three places where the code does something else than a comment beside it says; each
has a run in which TLC exhibits it.

1. *timers_keys* (`noise/timers.rs:125`). `timer_tick` stamps a new session with
   TimeCurrent, which only `update_timers` sets, and the device does not call
   `update_timers` for a peer without an endpoint (`device/mod.rs:549-552`). When
   the first handshake of such a peer comes more than 3 * REJECT_AFTER_TIME after
   its tunnel was made, the session is stamped with time 0, and the next
   `update_timers` drops it and expires the connection. The comment at
   `noise/timers.rs:206-207` says keys are zeroed after that time "if no new keys
   have been exchanged".
2. *timers_queued* (`noise/mod.rs:324`). Without a session `encapsulate` queues the
   packet, and when an initiation is awaited already it changes no timer. The attempt
   ends REKEY_ATTEMPT_TIME after it began, and `clear_all` drops the packet with it,
   even one that was queued a moment before. The comment at
   `noise/timers.rs:218-221` says of the end of the attempt "If a packet is
   explicitly queued up to be sent, then this timer is reset." The first half of that
   comment, that retries cease, holds (RetriesCease).
3. *device_listeners* (`device/mod.rs:418`). The handler of a listening socket is
   registered under the descriptor of a clone (`:446-447`), and
   `open_listen_socket` clears the event of the original, which has none. The
   comment at `:414` says "First close any existing open socket, and remove them
   from the event loop".

### Observations

Met while modelling and seen in traces of TLC, without a run of their own. Each
limits what a property above can say.

- `handshake.previous` is overwritten by every new initiation and by every
  initiation received, so of several outgoing initiations the last two, or the
  last one only, are awaited (`noise/handshake.rs:823`, and the comment at `:339`).
- When indices wrap around, a new session can be put into the slot that is in use
  before it is confirmed, and `current` then names an index that the slot does
  not have (`noise/mod.rs:311`, `:65`). So it is not true that every packet is sealed
  with a session that the other side has; SwitchConfirmed says it of the moment at
  which a session is put into use by `set_current_session`, and NewestInUse counts the
  overwritten slot by its time.
- Packets for a peer without an endpoint are queued, and wait until the peer's first
  datagram: `update_timers`, which would give them up, is not called
  (`device/mod.rs:549-552`). Drained says so.
- When `encapsulate` fails inside `send_queued_packet` it has queued the packet
  already, and `requeue_packet` adds it again (`noise/mod.rs:636`). Only callers
  with a buffer too small for an initiation meet it; EveryPacketOnce excludes them
  and NothingLost does not.
- The comparisons that decide about keepalives and about silence are strict
  (`noise/timers.rs:271`, `:282`), so data handled within the same run of the timer
  as the event it is compared with is not answered by a keepalive.
- A panic under the write lock (`device/mod.rs:323`, `:330`, `:884`) leaves
  `wants_write` set (`device/dev_lock.rs:94` is not reached): every thread that
  asks for a read lock afterwards waits for ever, the owner's clean-up included.
- A cookie is not cleared while the connection is expired (`noise/timers.rs:195`).
- A responder that was restarted has forgotten `last_handshake_timestamp` and
  answers an initiation of before again (`noise/handshake.rs:468`). The initiator
  takes one of the answers only, so KeyExchange lets a key be offered that is
  never agreed.
- `cancel` calls `clear_event_by_fd` with the event loop running, which the comment
  on the latter forbids (`device/epoll.rs:338`). It is safe, and NoDangling holds,
  because an entry that has been handed out is off until its guard is dropped.
- The taken `Event` is dropped before EPOLL_CTL_DEL (`device/epoll.rs:343`), which
  closes its descriptor first; that the mutex is held over both keeps a new event
  from being registered under that number in between (NeverForgotten). kqueue.rs
  deletes first. Where its `register_event` replaces an event it adds before it
  deletes (`device/kqueue.rs:237-245`), which would delete the new filter; no caller
  registers a descriptor twice.
- `device/epoll.rs:123` says that the period of a timer is counted from the release
  of its guard; the timerfd has a fixed rate. Timers lets any time pass.
- A network that is given to another peer is routed to that one, and the first still
  accepts packets from it: `insert` into `peers_by_ip` does not touch the first peer's
  own `allowed_ips` (`device/mod.rs:347`). RoutedIsAllowed is the other direction.
- `clear_peers` does not shut down connected sockets (`device/mod.rs:503`), as
  `remove_peer` does. ConnMatches is about peers that the device still has.
- Settings other than `allowed_ips` carry over from one peer's section of a request
  to the next (`device/api.rs:342-352`); NextSection models it so.

## What is not modelled, and why

- TUN interface, dropping of privileges, `sleepyinstant`, the command line: system
  calls in a fixed order, with no state of their own that others share.
- Key parsing, packet formats and the Noise computations: pure functions of bytes.
  A message is the record of what it binds, a line of a request either parses or
  does not. ML-KEM, X25519, ChaCha20-Poly1305 and BLAKE2s are symbolic.
- FFI and JNI: wrappers of `Tunn` behind a mutex. The PSK tool: sequential.
- In modelled parts: the counters of `stats()` (Tunnel); answers that fail (in Tunnel and PacketQueue, not in Timers);
  which thread the owner joins first (DevLock: any); `get=1`, preshared keys
  and keepalive settings, errors of system calls other than bind, connect and
  set_mark (Device); several limiters at once and the reset period (Cookies); events for writing, which
  nothing uses, and errors of epoll and kqueue (EventQueue).

## Plan

Done so far: every stateful part has its module and its run, with restarts, new
keys, panics and reused descriptors where the code meets them, and every safety
property that holds has a proof. Next, in this order:

1. *Prove*. A safety part for Cookies (an answer with a cookie is accepted as long as the secret and
   the address stay), which has a liveness property only.
2. *Extend*. Failing answers in Timers; a composition of Timers with PacketQueue, so
   that the strong fairness of PacketQueue becomes a consequence of the timers;
   the reset period and concurrent use of one limiter in Cookies; the start of the program and the life
   of its API socket (`src/boringtun-cli/src/main.rs`, `register_monitor`).
