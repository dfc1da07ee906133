# ProxyDge in TLA+

A verification development for ProxyDge, the gateway that normalises the PROXY
protocol: clients connect with a PROXY v1/v2 header or without one, the
downstream always receives a header. The modules model the gateway's
concurrency and its decisions; TLC checks them on small instances, TLAPS proves
the most important results for every instance.

## 1. The system

| Component | Code | State | Operations |
|---|---|---|---|
| UDP gateway | `internal/udp/gateway.go` | listener, configuration | `Serve` loop, `handleDatagram`, `Close` |
| UDP session manager | `internal/udp/manager.go` | `sync.Map` key -> session, atomic `count`, `WaitGroup` | `Load`, `Create`, `remove`, `ExpireAll`, `StoreInputSource` |
| UDP session | `internal/udp/session.go` | upstream socket, idle timer, `done`, `once`, `inputSource`, `inputSrcKind`, `headerSent` | `newSession`, `startReader`, `refresh`, `expire`, `readLoop` |
| TCP gateway | `internal/gateway/gateway.go` | listener, atomic `active` | `Serve` (accept, cap), `handle` |
| TCP pipe | `internal/gateway/pipe.go` | two goroutines per connection | deadline reads, copy, half-close |
| Decision | `internal/gateway/decide.go`, `trust.go` | none | `Decide`, `IsTrusted` |
| PROXY codec | `internal/proxyproto/**` | none | `HeaderFromAddrs`, `FamilyMatchesAddrs`, `ParseDatagram`, `FormatDatagram`, stream reader and writer |
| Configuration | `internal/config/config.go` | merged settings, the YAML file | `Load`, `Validate`, v1 -> v2 file migration |
| Process | `main.go`, `gateway_runner.go`, `service_program.go` | error channel, `done` channel, log file, exit status | start, signal, stop, fatal error |
| Service control | `service_ctrl.go` | the service manager's unit | install, start, stop, uninstall, status |
| Build numbers | `.github/scripts/alloc-build-number.sh` | the branch `build-counter`, a tracking ref per job | fetch, reuse, commit, push with a lease, retry |
| Messages, version | `internal/i18n`, `internal/version`, `compute-version.sh` | none | lookups |

**Interactions.** The gateways share the decision and the codec; both decide
with `Decide` on the socket's address and rebuild a header from the socket when
a header is absent or stripped. A UDP datagram is handled by the `Serve`
goroutine itself; it calls the manager, which creates the session, which runs a
reader goroutine and a timer goroutine; both call back `onExpire -> remove`
under the session's `sync.Once`. `Close` runs in the main goroutine and expires
every session it finds. A TCP connection has one handler and two pipe
goroutines. The main goroutine meets the gateway through the error channel and
the closer function; a service manager starts the process, asks it to stop and
starts it again when it ends. The release workflows run beside all this and meet
only in the remote repository.

**What is hard.**

- *UDP*: the map, the counter, the done channel and the two `inputSource` fields
  are each atomic and nothing makes them atomic together. The timer, the reader, the
  handler and `Close` may each start the same expire block, at any moment of the
  others. `Create` arms the timer before the session is in the map, reserves a
  slot before it knows whether it will keep it, and may return another
  goroutine's session. `ExpireAll` ranges over a map that the `Serve` loop may
  still be writing.
- *TCP*: the slot is counted in one goroutine and released in another; a
  handler ends only when both directions end; only reads carry a deadline.
- *Both*: which header goes out depends on trust, policy, family guard and
  stored source, in that order.
- *Codec*: lengths from the wire, IPv4 inside IPv6, unspecified destinations.
- *Configuration*: the migration rewrites the user's only file in place, at
  start-up, and may break off anywhere; the next start meets what is left. The
  file it wrote is read one way by the start that wrote it and another way by
  every later one.
- *Process*: a signal, a service stop and a fatal error may meet; `Close` has no
  timeout of its own; whatever ends is restarted.
- *Build numbers*: jobs race for the branch, a fetch may fail and be ignored, a
  push may arrive without its answer, a run may be cancelled and started again.

**What makes each part correct.** UDP: the map finds exactly the live sessions;
the count is the number of slots held and the cap is never exceeded; no socket
leaks; a source is remembered only if its peer may declare it, and then neither
forgotten nor replaced while the session lives; expiry always completes; `Serve`
and `Close` return, and `Close` leaves at most the session of the datagram it met. TCP: the counter is exact, the cap holds, nobody is refused
early, every handler ends, the writer never sees a header that contradicts
itself and that guard costs only declared headers, a declared source is passed on only for a trusted peer. Codec: no header
outside its datagram, and the next gateway reads what this one wrote.
Configuration: what the user wrote is never lost, and a gateway that runs from a whole
file runs by it, which does not quite hold (section 4). Process: what it opened is
closed, a failure is reported and leads to a restart, a stop ends it. Build numbers: a
number names one run, for all its attempts, and the branch forgets nothing.

## 2. The modules

| Module | Models | Notes |
|---|---|---|
| `ProxyDecision` | `decide.go`, `trust.go` | pure operators, used by both gateways |
| `ProxyHeader` | `proxyproto.go`, `family.go`, `reader.go` | an address is its *form*: IPv4, IPv4-mapped, IPv6, nil |
| `BoundedPool` | abstract | what the UDP cap promises: at most `Capacity` holders, acquired and released one at a time |
| `FlowTable` | abstract | what the UDP sessions promise: a flow opens, learns one source at most, and expires |
| `UdpGateway` | `internal/udp` | one action per shared access or system call |
| `TcpGateway` | `internal/gateway` | accept loop, handlers, pipe halves |
| `ProxyDatagram` | `goproxyproto/datagram.go` | the parser, and two gateways in a row |
| `ConfigMigration` | `config.go`: `Load`, `fileSource.Apply`, `generateMigratedConfig` | starts, failed writes, restarts |
| `GatewayProcess` | `main.go` `cmdStart`, `gateway_runner.go`, `service_program.go` | main goroutine, Serve goroutine, monitor |
| `ServiceControl` | `service_ctrl.go` over `GatewayProcess` | composes commands, service manager and process |
| `BuildCounter` | `alloc-build-number.sh` | jobs over one remote branch |
| `MC*` | instances for TLC | model values, small sets, symmetry |
| `TcpGatewayProofs` | theorems on `TcpGateway` | section 5 |
| `UdpGatewayProofs`, `UdpSlotProofs`, `UdpFlowProofs` | theorems on `UdpGateway`: types and the map; slots; sockets, sources and flows | section 5; the other two extend the first |
| `ProxyDatagramProofs`, `ConfigMigrationProofs`, `ServiceControlProofs`, `BuildCounterProofs` | theorems on the module of that name | section 5 |

**UdpGateway.** `hpc[h]` is where a goroutine is in `handleDatagram`/`Create` and
`loc[h]` its local variables (`sess`, `proxyHeader`, `src`, the socket just
dialled). `expPc[s]` is the progress of the block under the session's
`sync.Once`: `idle` until somebody enters it, `finished` when it has returned.
Closing `done` is the first statement of the block, so "done is closed" is
`expPc[s] # "idle"`. The loser of `LoadOrStore` runs a shorter block (no
`onExpire`), the states `lostStop` and `lostClose`. `reader[s]` is the reader
goroutine; `sessions` and `count` are the manager's. `wire[s]` is a history
variable, whether the socket has carried a datagram, kept only in
`first_datagram` mode.

Abstractions: a key is its client; a header is a model value (the header
`HeaderFromConn` builds from a peer is named by the peer); time is gone, an
armed timer may fire at any moment; payloads do not matter. `Done(s)`
is read where the code reads `done`. In `readLoop` the read and the look at
`done` that follows are one step, because the outcome of the read does not
matter once `done` is closed. Datagrams that are dropped before any state is
touched (oversized, malformed, read errors that are retried) take no step.

`TimerMayBeatStore` says whether the idle timer may fire between `newSession`,
which arms it, and `LoadOrStore`, a few instructions later. The code does not
exclude it (a goroutine can be descheduled for longer than any timeout), but it
needs a stall as long as `idle-timeout`. Runs and theorems other than
`UdpZombie` set it FALSE; `UdpZombie` shows what happens otherwise. `Answering`
names the sockets on which the downstream's host sends something back, a response
or a refusal. A response only resets a timer that may fire at any moment anyway,
and a refusal ends a session as the timer does, so the safety runs `UdpFlow` and
`UdpSlots` leave the set empty (6.6 million states instead of 300 thousand for
`UdpFlow`); the theorems hold for every set. In `UdpClose`, where responses keep
sessions alive, one of the two sockets answers. `HeadersAssumption` keeps the name
of a header that a client declares apart from the name of a header built for a
direct client: the model names the latter by the client itself.

`Flow(k)` maps a client's session to the `FlowTable`: absent, fresh, or the
source it has learnt. `ImplementsFlowTable` says that the four separate writes of
the code (`LoadOrStore`, the two `Store`s, the deletion) amount to the three
operations of the table, in any interleaving with expiry. `ImplementsPool` says that
the counter of `Create`, with its overshoots and rollbacks, hands out slots one at a
time. TCP has no such refinement: a handler takes one step at a time and the counter
has no overshoot, so `CapRespected` says it all.

**TcpGateway.** `stage[c]` follows a connection through `Serve` and `handle`;
`half[c][d]` are the two goroutines of `pipeStream`. What the peers send,
withhold, close or refuse to read is the environment's choice. A deadline may
pass at any moment of a read that has one.

**ProxyDatagram.** A datagram is the shape the parser looks at: how it starts,
its length, its declared address length, family byte, address forms. The module
takes it through `ParseDatagram`, the header the gateway sends, `FormatDatagram`
and the next gateway's `ParseDatagram`. The bytes of a v2 header are written by
the external go-proxyproto library: `FormatDatagram` models what it does with
each family and address form.

**ConfigMigration.** A file is a function from key paths to texts. A text is
where its value comes from (the key the user wrote it under, the default, the
injected `legacy`), how it is quoted and how many backslashes stand where the
value has one: that is all that `fixWindowsPaths`, YAML and `%q` can change.
Seven settings stand for the ways the migration treats a setting: kept
(`policy`), a list, a string with backslashes, moved below `tcp:` or `udp:` as a
string or as a number, renamed, injected; one more key is unknown to the
program. Each `os.WriteFile` is one step that succeeds or leaves any prefix of
its text, whether by an error or by a crash, and the process may end at any step
and be started again. `Validate` and the parsing of values are not modelled
beyond "may fail". One process uses the file at a time. `RestoreBackup` is the
user who, as `release-notes/v0.3.2.md` says, copies `config.yaml.bak` back.

**GatewayProcess, ServiceControl.** `main` is where the main goroutine is (in
service mode the one on which the service library calls `Start` and `Stop`),
`serve` and `monitor` the other two, `errc` and `done` their channels. Of the
gateways only what they owe the process is left: `Serve` returns once the listener is closed
(`ServeStops` of both gateways), and the `Close` of the UDP gateway need not
return (the exception of `CloseReturns`). Goroutines that
still hold a connection when the process ends die with it. `ServiceControl` adds
the unit (`installed`, `wanted`) and the command in progress (`cmd`): each call
of the service library may succeed or be refused. The manager restarts a wanted
unit, as `newServiceController` configures it. Messages, flags and `status` are
left out; they change nothing.

**BuildCounter.** A commit is its tree: the number and a number per run. A step
of a job is one exchange with the remote or the local work between two: the
checkout, a fetch that succeeds or fails, the look at the run's record, the commit, a
push that is accepted, rejected, found up to date or lost before or after it
arrived, a cancellation. `atStart` is a history variable: the counter at the
checkout, as long as no fault has hit the job. `CommitMayFail` says whether git
may fail to write the commit; the script does not notice (section 4).

## 3. Runs

| Run | Instance | Shows |
|---|---|---|
| `UdpFlow` | 1 handler, 2 clients (one trusted), 2 declared sources (one cannot be encoded), 2 sockets, cap 1, `first_datagram`, silent downstream | `SocketsAccounted`, `InputSourceTrusted`, `NoForgottenSource`, `HeaderOnlyFirst`, `ImplementsFlowTable` |
| `UdpSlots` | 2 handlers, 1 client, 3 sockets, cap 2, silent downstream | the races of `Create` for a key and for a slot: `MapConsistent`, `CountExact`, `CapRespected`, `ImplementsPool` |
| `UdpClose` | 1 handler against `Close`, 2 sockets, one of which answers | `CloseLeavesOneAtMost`, `ServeStops`, `CloseReturns`, `ExpiryCompletes`, `IdleReclaimed` |
| `TcpSlots` | 2 connections (one trusted), cap 1, every header, strangers' headers refused, dual-stack listener | `ActiveExact`, `CapRespected`, `RefusedOnlyWhenFull`, `WriterNeverMixed`, `GuardFollowsDecision`, `DeclaredOnlyIfTrusted`, `HandlersEnd`, `ServeStops` |
| `ConfigMigration` | 1152 files: no version, old, current, newer; each setting absent, flat (of the right type or not), nested or both | `NeverLost`, `TakenOverAsMeant` |
| `ProxyDatagram` | every boundary length, family and address form | `HeaderInsideDatagram`, `NextHopAgrees` |
| `BuildCounter` | 3 runs, one with two attempts, 2 tries each, every fault | `NumberNamesRun`, `BranchOnlyGrows`, `RetriesJustified` |
| `ServiceControl` | terminal and service, TCP and UDP, every command, `kill -9` at any step | `FatalNotMasked`, `ExitReleases`, `UninstallLeavesNothing`, `StopsWhenAsked`, `FatalRestarts` |
| `UdpZombie` | timer before store | violates `DoneEntryPendingDeletion` |
| `ConfigMeaning` | one version 1 file: a number for `detect-timeout`, a path with a backslash | violates `RunsAsMeant` |
| `TcpStuckWriter` | a receiver that does not read | violates `IdleDirectionCloses` |
| `BuildCounterEmpty` | 2 runs, git may fail to write a commit | violates `NumberNamesRun` |

**Bounds.** A session and its socket are used once, so two sockets allow a session, its
expiry and a successor under the same key, and two sessions at once. Two
handlers are enough for every race of `Create`: lost, refused, rolled back.
Production has one handler (the `Serve` loop), and the single-handler runs have
richer data: two clients and two declared sources, enough for a second
source that must not replace the first and an untrusted peer that must not leave
one. The caps are small so that they are reached; `UdpSlots` has three sockets over a cap of two, so that both handlers can be in
`Create` while an expired session still holds its slot. Two TCP connections with cap 1 make one
wait for the other's slot, and be refused; other TCP configurations (no cap, no
timeouts, stripping, every policy) are left to the theorems, which hold for all of them. Once its sockets are used up an
instance can dial no more and a further datagram ends in `DialFails`, which the
code allows at any time. The datagram lengths sit on both sides of
each bound of the parser (16, 16+12, 16+36 and the declared address length).
`UdpFlow` uses `first_datagram` because it has more states and the attribution of
a datagram does not depend on the mode; the other UDP runs use the default mode.
The configuration files combine every place of each moved setting with quoted
and unquoted paths; a broken write may leave any number of keys.
`BuildCounter` has four jobs with two tries each: enough to lose both tries to two
other runs, and for two attempts of one run side by side. `MAX_RETRIES` is 10 in
the code; the theorems do not depend on it.
The process is finite as it stands.
Sockets, and the runs and attempts of `BuildCounter`, are interchangeable in the safety runs (symmetry); the liveness runs use
no symmetry.

**Fairness.** Weak fairness on each goroutine's steps: the Go scheduler runs every runnable
goroutine. Nothing is assumed of clients and downstream: no datagram, response,
connection, read or close is owed. An armed timer fires *or is reset*, since
traffic may keep it from firing, and a `Read` with a deadline ends, with
data or without. A read on a closed socket returns an error. `ReadingSpec` adds
that a receiver takes what is written to it or its connection breaks; that is
an assumption on the peer, and `TcpStuckWriter` shows it is needed. In
`GatewayProcess` each goroutine is weakly fair, ten seconds pass, and `Serve` sees
its closed listener; nothing promises that `ExpireAll` returns, so
`StopsWhenAsked` excepts exactly that wait. `Restart` is weakly fair because the
unit is installed with `Restart=always` and `OnFailure=restart`; no command and no
signal is owed. `BuildCounter` claims no liveness: retries are bounded, and a job
may fail.

## 4. What does not hold

1. **`UdpZombie`.** `gateway.go:249` says of a session returned by `Create` that
   is already done that "its map entry is pending deletion". If the idle timer
   fires between `newSession` and `LoadOrStore`, expire deletes the key before
   the session is stored, counts down, and the dead session is then stored for ever: every
   later datagram of that client is dropped or races with it.
2. **`ConfigMeaning`.** `config.go:817-822` says the migration preserves the values of
   the user's fields and "never silently drops user content"; `migration_test.go:83`
   says fields the user set are preserved. Two kinds of text are not. A version 1
   `detect-timeout: 0` is a number to YAML, the migration looks for a string
   (`config.go:868`), and the gateway runs with the default; the same goes for
   `idle-timeout`, `udp-output` and `header-mode`, and for a `max-sessions` written as a
   string. And `%q` doubles the backslashes of a string (`config.go:997`): the start that
   migrates reads them back as they were, every later one passes the file through
   `fixWindowsPaths`, which doubles them once more, and takes two for one. `RunsAsMeant` states what the
   repository says, without exceptions. TLC's shortest trace is the number; with the path
   alone in the file the property is violated one start later. The passing run's
   `TakenOverAsMeant` claims the rest, and the theorem `PlainFilesRunAsMeant` that
   nothing but these two kinds of text is at fault.
3. **`TcpStuckWriter`.** `README.md:130` says a direction without data for
   `tcp-idle-timeout` is closed. The deadline is on reads only; a direction
   blocked in `Write` has none.
4. **`BuildCounterEmpty`.** `alloc-build-number.sh:2` promises a "Global,
   monotonic, cross-workflow build-number allocator". `set -e` does not apply inside `allocate_once`
   (a command substitution in the condition of an `if`): when
   `git write-tree` or `git commit-tree` fails, `newcommit` is empty, the push of
   `:refs/heads/build-counter` deletes the branch and succeeds, the job prints its
   number, and the next run is given 1. A check that `newcommit` is not empty closes it.

Met while modelling, without a run of their own. UDP: `manager.go:96` says `ExpireAll`
expires all active sessions and waits for all readers; the `handleDatagram` in flight when the
listener closes can store a session after `Range` has passed its key and start its
reader after `Wait` has returned. `CloseLeavesOneAtMost` bounds the damage: that
session is all that a `Close` leaves, in every interleaving with timers and readers.
UDP and TCP: in
`first_datagram` mode the header is lost for good when the datagram that carried it
could not be encoded or written; the reader may write one response to the
client after the session is done; `LoadOrStore` may return a session that has
begun to expire, and its datagram is dropped; without a TCP cap `active` is
only ever decremented, and nothing reads it. Configuration: a migration that breaks off after the version line
leaves a file that the next start accepts, with defaults for what is missing;
the backup has the user's text with double quotes turned into single ones;
unknown keys survive at the top level only. Process and service: `Stop`'s ten
seconds start only after `closer()`, so a UDP `Close` that hangs holds it for good,
and a second Ctrl-C is read by nobody; `Stop` may see `done` before the monitor's
`os.Exit(1)`, so a service that fails while it is being stopped may end with 0;
`uninstall` does not look at the error of `Stop`; an `install` whose start failed
reports success when repeated and starts nothing; `multiHandler` drops the file
record when the console handler fails, although the sinks are called independent.
Others: `helpText`'s comment names `PROXYDGE_LANG`, which `DetectLocale` is not
given there; `read_file` takes a file that cannot be read for one that does not
exist.

## 5. Proofs

`TcpGatewayProofs`, for any finite set of connections, cap and configuration
(`ModeAssumption`, `ConnsAssumption`):

- `TypeCorrect`; `WriterNeverSeesMixedFamilies`, `GuardIsLast`,
  `OnlyTrustedDeclare`: what handle knows at each stage is an invariant of the
  stage (a header built from the socket before the guard, a decision taken).
- `CounterExact`, `CapNeverOvershot`, `NobodyRefusedEarly`: the invariant says
  `active` is the cardinality of the slot holders, the connection in Serve's hand
  is in no handler, and at most `MaxConns` handlers run. `CapRespected` alone is
  not inductive: the comparison is on the counter, so the counter must be exact.

`UdpGatewayProofs`, for any clients, sockets, finite set of handlers, cap and
configuration:

- `TypeCorrect`. TypeOK is not inductive: what a local variable holds depends on
  where the goroutine is (`LocalsOK`).
- `MapStaysConsistent`, assuming `TimerMayBeatStore = FALSE`. `remove` deletes by
  key and `LoadOrStore` stores by key, so consistency needs: a socket has one
  owner while `Create` runs (`OwnersDistinct`, `HandlerInv`), a session's stage says
  what its timer, once block and reader can be doing (`StageInv`), and `Close`
  holds a session that was in the map (`CloserInv`).

`UdpSlotProofs`, on top of that and under the same assumption: `CountStaysExact`,
`CapHolds`, `SlotsArePool`. Every step is shown to be one of five (`SlotStep`): it
acquires a slot under the cap, overshoots the cap, takes the overshoot back, frees
a slot, or leaves slots and counter alone; `OwnersDistinct` and `StageInv` say that a
slot has one owner, so no step frees another's. The inductive invariant (`SlotInv`)
counts firm slots and overshoots apart: the cap bounds the firm ones only, and an
`Add(1)` compared with a counter that includes others' overshoots can only be too
cautious.

`UdpFlowProofs`, on top of `UdpGatewayProofs` and also with
`TimerMayBeatStore = FALSE`:

- `NoSocketLeaks`, for any handlers: each open socket has an owner (`SocketsInv`). A
  session that is stored has it until the close step of its once block, one that is
  not stored is in the hand of exactly one goroutine of `Create`, and the loser of
  `LoadOrStore` closes its socket before it lets go.
- `RememberedSourceTrusted`, for any handlers: the invariant (`SourceInv`) follows a
  declared header through the locals of `handleDatagram` from the decision to
  the two `Store`s (`AttributedInv`), and says that a session not yet in the map
  remembers nothing (`BlankInv`).
- `SourceNeverForgotten`, `HeaderNeverLate`, `SessionsAreFlows`, with a single handler
  (`SingleHandler`: `Serve` handles one datagram at a time, `gateway.go`). The invariant
  (`LoopInv`) says what the loop knows at each place of `handleDatagram`: while it
  creates a session its client has no live one; a datagram without a declared source
  holds a session that remembers none, or a done one (`FlowInv`); only the loop itself sees the two
  stores of a source half done (`KindInv`); a header that is about to be written is the
  first thing on its socket (`HeaderInv`, `WireInv`). With a second handler this is not
  so: it may store a source between the look at the session and the write.
  `SessionsAreFlows` shows that each step of the gateway is a step of `FlowTable` or a
  stutter. A flow ends when its session's `done` is closed, so the later steps of the
  expire block, which clear the two source fields and delete the key, are stutters.
- `CloseLeavesAtMostOne`, also with a single handler. Once the listener is closed,
  `CloseInv` has all sessions but one `Covered`: gone, under a key `Range` has yet to
  visit, under `Range`'s hand, or closed with `Wait` to come. Before the loop has dialled
  there is no exception, since no datagram follows the one it handles; in `Create` the
  exception is the session in its hand. It needs `MapConsistent`, since `Range` finds a
  session by its key, and `SocketsInv`, for sessions that `Range` no longer finds.

`ProxyDatagramProofs`, for datagrams of any length and any 16-bit length field:
`HeaderNeverBeyond` and `ChainAgrees`. The first rests on `ParserInside` (the declared
length is compared with the datagram before anything is cut off), the second on
`OutHeaderForwarded` (every header a gateway sends has two addresses, also on a
dual-stack listener) and `FormatParses` (what the library writes for
two addresses, of one family or of both, the parser accepts).

`ConfigMigrationProofs`, for any set of files a user may have written
(`FilesAssumption`: what is not parsed is not among them):

- `DataNeverLost`. `NeverLost` is not
  inductive, since `Backup` overwrites the backup; the invariant (`MigrationInv`) adds that a file the
  migration has touched has the current version or none, so that what is backed up
  is always the user's own file, as written or as restored from a backup. A restored
  file has passed `fixWindowsPaths` and passes it again (`FixTwice`).
- `TypeCorrect`, with `MigrationInv`: what is written is well formed because what is
  migrated is the user's own file.
- `RunsByWhatIsTakenOver` (`TakenOverAsMeant`) and `PlainFilesRunAsMeant`: for users whose
  old files have no backslashes in settings and the expected type in every flat place
  (`Plain`), or who have current files, `RunsAsMeant` itself holds. `FileInv` says that a whole
  file is the user's own or the migrated form of an old one, and which of them each place of
  `Load` can see; `SettingsInv` carries what `Apply` parsed through the environment and
  the flags. Between them stand lemmas about the text of a setting:
  where its migrated value comes from (`MigratedFrom`), that it is written so that it is
  read back (`MigratedText`), and what it means to the start that migrates and
  to later ones (`MigratedMeans`). `Runs`, which the proof carries, says what the code does with
  every text, the two failing kinds included; `TakenOverMeans` says that with a text that is
  taken over this is what the user meant.

`ServiceControlProofs`: `TypeCorrect`, `FailureReported`, `ExitsClean`,
`UninstallComplete`. The state space is finite and TLC visits all of it; the theorems are kept for
their invariant (`ControlInv`), which says why: for each place of the main goroutine what is
open and whether a stop was asked for (`OpenedInv`, `WayInv`), how the error channel and the
monitor agree with the way `Serve` ended (`ResultInv`), and from which step of `uninstall` on
the unit is no longer wanted (`CommandInv`).

`BuildCounterProofs`, for any runs, jobs, attempts and number of tries, assuming
`CommitMayFail = FALSE` (finding 4): `TypeCorrect`, `NumbersUniqueAndStable`,
`BranchIsALog`, `RetriesEndForCause`. `NumberNamesRun` speaks of numbers printed;
the invariant ties each to the branch, where it stays: the records of the branch
are distinct (`Wellformed`), what a job has fetched is an `Older` state of the
branch, what it pushes is that state with one record more for a run that had none.
A push the lease accepts therefore `Extends` the branch; one it rejects has a
branch with a greater number, which is what `Measured` counts the tries by.
`BranchIsALog` needs the same facts for the step.

Every invariant and every action property of the passing runs has a theorem.
Only model-checked is liveness (`ServeStops`, `CloseReturns`, `ExpiryCompletes`,
`IdleReclaimed`, `HandlersEnd`, `StopsWhenAsked`, `FatalRestarts`), since fairness and
`ENABLED` are out of the prover's reach. The theorems do not cover what section 4 shows
to fail: the UDP ones assume that the timer does not beat the store, the ones on
`BuildCounter` that git can write a commit, and `PlainFilesRunAsMeant` that the files
are plain.

## 6. What is not modelled

- The stream parser and the byte layout of headers: the external go-proxyproto
  library, modelled by what the code hands to it and takes from it.
- The text of CIDRs, durations and levels, `Validate`'s tables, the sample file,
  the start-up banner: data without control.
- `internal/i18n`, `internal/version`, `internal/protocol`, `compute-version.sh`:
  lookups and formatting.
- `cmdInit`, `cmdVersion`, help, `service status`: one call each, no state shared
  with anything else. Logging: levels and formats of the two sinks.
- git, the service library and the service manager, modelled by how the code uses them.
- UDP `Serve`'s distinction between a transient read error, after which it goes round its
  loop, and others; the limit on a datagram's size once a header is put before it; `-h`
  for the service commands, which prints and changes nothing.
- Real time: an idle timeout's length. Only its order with other events matters.

## 7. Plan

1. Proofs of what the liveness properties rest on and safety can say: that no place of
   `handleDatagram`, of an expire block or of `Close` waits for one that waits for it.
2. The bound that follows from `SocketsAccounted` and `CapRespected` together: open
   sockets number at most the cap and the handlers.
3. `NoForgottenSource` for several handlers, as far as it holds: which interleavings a second `Serve`
   goroutine would have to exclude.
