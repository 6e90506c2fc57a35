# ArenaGate in TLA+

Specifications of ArenaGate, the WebSocket game gateway in this repository,
with TLC configurations that check them on small instances and TLAPS proofs of
their safety properties for all instances. Paths are relative to the repository;
line numbers are those of the commit modelled.

## 1. The system

A client opens a WebSocket, authenticates, and asks for a match; the gateway
creates a ticket in CoreRank, polls for it, and pushes the match. GameOps, if
configured, supplies bans and maintenance switches.

| component | state it keeps | operations | properties that make it correct |
|---|---|---|---|
| Match flow (`internal/gateway/server.go`) | per session the player and `PendingTicket`; per ticket a `pollMatch` goroutine | `enqueue_match`, `cancel_match`, `match_status`, `pollMatch`, `pushMatch` | clients hear two outcomes of a ticket only where CoreRank gave both; matches are pushed, and to who enqueued or asked; no poller ends in silence; no ticket is dropped; a waiting ticket is the pending one |
| Admission (`server.go`, `internal/opsclient`) | none of its own; reads GameOps and the local settings | ban check of `auth` and `enqueue_match`, merged maintenance state | banned players stay out, nobody else does; maintenance is kept, and is real |
| Session registry (`session.go`) | `byID`, `byPlayer`, each session's player | `Add`, `BindPlayer`, `Remove` | a reconnected player stays indexed; closed sessions leave; gauge and registry agree |
| Rate limiter (`session.go`) | window start, counter | `Allow` | bounded bursts, bounded long-run rate, no unearned refusal |
| WebSocket connection (`websocket.go`, `handleWebSocket`) | write mutex, socket, read deadline | `acceptWebSocket`, `readFrame`, `writeFrame`, `Close`, the read loop | whole frames, as long as announced; idle connections end; no writer waits for ever |
| Metrics and health (`metrics.go`) | atomic counters | counting, `/metrics`, `/healthz` | the gauge follows the registry; a scrape is not behind what clients know, and its numbers fit together |
| Process (`cmd/gateway/main.go`) | the HTTP server | start, listener failure, signal, `Shutdown` | a signal ends the process although sessions are open; what the process leaves behind in CoreRank does no harm |
| Messages and configuration (`protocol`, `config`) | - | `NormalizeEnqueue`, `getenvInt`, waits and intervals | the polling interval is positive, or the start of a poller panics, and that only for a setting that overflows a Duration |
| HTTP clients (`coreclient`, `opsclient`) | - | one HTTP request per call | a call returns within its timeout, with its effect or without |

Interaction. Each accepted connection has one goroutine, the read loop, which
handles messages one after the other. Each announced ticket adds a poller, which
shares with the read loop the session (under `Session.mu`), the connection (under
`wsConn.mu`) and a context that the read loop cancels when it returns. CoreRank
and GameOps are called over HTTP, with timeouts, by all of them. The registry
(under `SessionManager.mu`) and the metrics (atomics) are shared by all sessions.

What is hard here: pollers of old tickets meet the state of new ones; answers of
CoreRank are written some time after they were read; any call may fail before or
after its effect; checks against GameOps precede what they allow; frames of
several goroutines share a connection that may stall. PROJECT.json lists these
places under "hazards", with the properties that watch each of them.

## 2. Modules

| module | models | proofs |
|---|---|---|
| `CoreRank` | the external matchmaking service as the gateway uses it | - |
| `Verdicts` | abstract: each ticket is decided once, a decision may be overturned where cancellations of decided tickets are accepted, and whoever hears of a ticket hears what was given | - |
| `Matchmaking` (extends `CoreRank`) | the match flow, every call and write a step of its own | `MatchmakingProofs` |
| `Admission` | ban and maintenance checks against a GameOps that changes | `AdmissionProofs` |
| `SessionManager` | registry, index by player, session gauge | `SessionManagerProofs` |
| `RateLimiter` | the fixed-window limiter of a session | `RateLimiterProofs` |
| `Outbox` | abstract: frames are sent in one step or refused, in one order, and reach the peer once each | - |
| `Frames` | the three length forms of a frame, written and read; no state | in `WsConnProofs` |
| `WsConn` (extends `Frames`) | one connection: write mutex, read loop, idle deadline, stalled peers | `WsConnProofs` |
| `Waiting` | the ticker and the timer of `pollMatch`, durations in wrapping integers | `WaitingProofs` |
| `Gateway` (extends `SessionManager`) | the process from start to end, upgrades, all counters, the scrape | `GatewayProofs` |
| `MCMatchmaking`, `MCAdmission` | symmetry sets for TLC | - |

Definitions keep the names of the code. Operators called "Mutated form" in their
comments are variants with a plausible bug; no specification uses them. They
show that the properties can fail: substituted for the operator they follow, each
makes TLC find a violation.

### Correspondence with the code

*Matchmaking.* `reader[s].at` is the program point of the session's read loop,
`reader[s].ticket` and `.seen` its local `ticketID` and the last answer;
`poller[t]` is the same for `pollMatch`. `pending` and `player` are fields of
`Session`. A step ends wherever another goroutine can come in between: at a call
to CoreRank, at `Session.mu`, at a write. `told` is history: what was written to
an open connection. `given` is the history of the outcomes CoreRank has given each
ticket, and `claims` of what entitles a session to news of one: it enqueued the ticket
for the player it was bound to then ("own"), or its client named the ticket in a
`match_status` ("asked"). Messages that change nothing (ping, errors, the maintenance
answer) have no action. `match_found` is the news "matched" whatever status text
it carries. A call to CoreRank has its effect in one step and its reply or
failure in a later one, so a lost reply leaves the effect. Calls of a poller whose
context is cancelled may fail too. `Faults` says which other calls may fail, and
with "exit" that the process may end at any step: its readers and pollers are
gone, CoreRank keeps the tickets, a DELETE that was on its way may still arrive
(`OrphanCancels`), and the sessions that had not begun belong to the next process.
`Trouble` are the tickets whose polls may fail (and GetResult, with "result" among the
`Faults`), or be so late that the timer fires on a settled ticket. `Habits` says how clients restrain themselves, `{}` being any
client.

*Admission.* Two HTTP reads, a judgement by the gateway's clock and the final act
are separate steps of `at[s].step`; administrators and the clock move between
them. `bans` and `modes` are history: the ban records and switches in force since
the message was taken up. `ops == nil` is a GameOps whose calls always fail,
since both take the same branches. The announcement is left out.

*SessionManager.* Each method holds the manager's mutex throughout and is one
step; the gauge is a step of its own, before the read loop and after `Remove`.

*RateLimiter.* Calls come from one read loop, so they are serial. Time is a
counter; `Window` is one second in its units.

*WsConn.* A frame is a header and, unless empty, a payload, each a `Write` that
needs room in the kernel's buffer (`Room` chunks). `size[w]` is the length of the
payload a writer is at; a chunk keeps what its header announces or what its payload
has. The client sends any frame of `ClientFrame`, and the stream may end
anywhere; the sets `Texts`, `Pongs`, `Refused` and so on are what `readFrame` and
`ReadJSON` make of it. A panic of a handler runs its deferred calls and is
recovered by `net/http`. A peer "reads", "stalls"
(stays connected and never reads again) or is "gone". One frame stands for all
the answers to a message. Towards `Outbox` a frame is sent by the write that
completes it: its payload, or its header when it has none. A writer
asks for a frame from the call of `writeFrame` to its return; `sent` are the frames
complete in `stream`, `got` those among the chunks the peer has `taken`, and the
connection is `down` once it is closed or the peer has gone. Deadlines are the flag `due`; bytes in the bufio buffer
when the deadline passes count as having come before.

*Frames.* A header is its length code and the bytes after it. 125, 2^16 and 2^63
are the constants `Short`, `Wide` and `Half`, so that TLC can use small ones.

*Waiting.* One ticket and its poller, which acts at once when its `select` has a
case that is ready. `tick` is the ticker's channel of one element, `due` the
timer. A call takes any time up to `CallTime`, the client's timeout, and CoreRank
answers GetTicket at some moment of it; a failure may be an answer lost. For a match
with an id GetResult is a call of its own (`at = "result"`), after which the match is
told or, when it fails, the poller ends in silence. `PollEnv` are values of the
environment variable, as sets because it may be empty or not a number; those whose
milliseconds overflow wrap as in `config.go:33`, and `at = "panicked"` is the panic of
`NewTicker` on an interval that is not positive.

*Gateway.* `todo[<<s, "reader">>]` and `todo[<<s, "poller">>]` are what the read loop
and the poller of a session still do for the message or poll at hand: the counters
they add to and the answers they write, in the order of the code. Which list it is
depends on the message and on CoreRank, and is left open here; `Matchmaking` and
`Admission` have the reasons. Each entry is a step of its own, and any write may
fail. "other" stands for all the answers no counter is about. A session has one
poller at a time: a second one would add to the same counters in the same way. A
scrape loads the numbers in the order of `Order` and keeps those a property reads.
When the process ends, `todo`, the counters and an open scrape go with it. `Shutdown`
waits for what `net/http` still owns, that is a scrape and a request for `/ws` that
is not hijacked yet, and gives up after five seconds ("cut").

## 3. What the runs show

| run | instance | shows |
|---|---|---|
| `limiter` | limit 2, window 3, time to 7 | `BurstBounded`: 2·limit+1 messages span more than a window; `LongRunRate`; `RefusalsEarned` |
| `registry` | 3 sessions, 2 players | `NewestBinderKept`, `OnlyReauthLingers`, `GaugeFollowsRegistry` |
| `outcomes` | 2 sessions, 1 ticket, 2 players, all faults, ends of the process, any client, a CoreRank that cancels settled tickets | `OutcomesAgree`; refinement of `Verdicts`; `OnlyMatchesGoUntold`; `FoundReachesOwner` |
| `pending` | 2 sessions, 2 tickets, 1 player, all faults but GetResult's, clients that wait for the poller and name no old ticket, a CoreRank that cancels settled tickets | `PendingIsPolled`, `NoSilentEnd` |
| `polling_live` | 1 session, 2 tickets, the polls and GetResult of one of them in trouble, clients that name only the current ticket, a CoreRank that cancels settled tickets | `PollingIsAnswered` (unless GetResult failed), `NoTicketDropped`, and `MatchIsPushed` for the other |
| `lost_pending` | 1 session, 2 tickets | finding: an old poller empties the new pending ticket |
| `silent_poller` | 1 session, 1 ticket, GetResult may fail | finding: the match is never pushed and no error is told |
| `admission` | 1 session, 2 players, 2 changes in GameOps, time to 2 | `BannedStayOut`, `OnlyBannedRefused`, `MaintenanceIsKept`, `MaintenanceIsReal` |
| `connection` | 2 pollers, room 2, 3 frames, lengths 0 to 3 | `FramesWhole`, `PeerFindsFrames`, mutex released on all paths; refinement of `Outbox`; `IdleEnds`, `WritersReturn` unless the peer stalls |
| `connection_stalled` | 1 poller, room 2 | finding: a stalled peer keeps its session for ever |
| `waiting` | six settings of the interval, calls up to 3, four values of `max_wait_ms`, 32 durations | `TypeOK` with the panic; `PromptlyTold`, `OutcomeBeatsTimer`, `PollRate` |
| `gateway` | 1 session with its poller, 2 messages, 2 polls, 1 scrape | `SeenIsCounted`, `ErrorsAreRequests`, `ActiveWereAccepted`, `StopEnds` |

Bounds and why they are enough. Seven clock units are more than two windows of three, so
bursts across a boundary and the drift of windows occur. Three sessions give an old, a
new and a foreign session of a player. Two sessions on one ticket give two readers and a
poller that race on it; two tickets of one session give an old and a new poller, which
is what every hazard of `PendingTicket` needs. In `outcomes` the two players let a
session re-authenticate while its ticket is polled for. `pending` has one player, since
none of its properties is about players. In `polling_live` faults of the reader's calls,
foreign ticket ids and the end of the process are left to `outcomes` and `pending`, for
the sake of its size. Symmetry is used in `outcomes` and `pending` only, which have no
liveness property, and every property there treats sessions, tickets and players alike.
Two changes in GameOps let a ban or switch change and change back within one handling;
time 0 to 2 puts `banned_until` before, at and after the clock. Sessions meet only
through GameOps in `Admission`, so one suffices for TLC, and the proofs are for any
number. Two pollers and the read loop are three writers, and a buffer of two chunks is
full between the header and the payload of a frame. With `Short` 1, `Wide` 3 and `Half`
4 a JSON message has the long form, and pings have the empty payload, the short form and
the middle one, each at its limits. In `waiting` the interval is 3 (the default, which
an empty variable and zero give), or 6, or wraps: of the three settings that overflow
one gives a negative interval, which panics, and two give 1 and 4, not what was set.
Calls last up to 3, which is longer than an interval of 1 and shorter than one of 4 or
6, so ticks are dropped and kept; of the four waits one is replaced by the default, one
is ordinary, one fits a Duration only without the five seconds and one not at all. In
`gateway` two messages are what a client needs to enqueue and be answered or fail, and
two polls an error and an outcome; sessions meet only in sums and in the registry (which
`registry` checks with three of them), and the proofs are for any number of sessions,
messages and polls.
Deadlock checking is off where the instance really stops, when all sessions are closed,
tickets are used up and histories are bounded; it is on for `limiter` and `waiting`.

Fairness. Goroutines that can run do (weak fairness of their steps). CoreRank calls
return, since the HTTP client has a timeout of 3 s (`main.go:19`). A Go `select` chooses
at random among the cases that are ready, so a timer or a cancelled context that stays
ready cannot lose for ever (strong fairness of `PollStops` and `PollTimesOut`).
`sync.Mutex` hands itself to waiters that starve (strong fairness of `Lock`). Nothing is
assumed of clients, of CoreRank's matching or of peers that stall. `MatchIsPushed` is
about tickets whose polls keep their interval and whose GetResult does not fail:
CoreRank has settled them by `max_wait_ms`, and the timer fires five seconds later.
`Waiting` shows what that takes: if CoreRank is at most `Lag` late and `Fails` polls
fail, `Lag + (Fails + 1) * Beat` must stay below the five seconds, `Beat` being the
longer of interval and timeout (so with the 0.5 s and the 3 s of the defaults it is
enough if no poll fails). In `Gateway` handlers of HTTP requests and `main` run (weak
fairness of `Requests`); nothing is assumed of sessions, pollers, clients or the expiry
of the five seconds, so `StopEnds` rests on none of them.

CoreRank. No property assumes that CoreRank refuses to cancel a ticket it has settled.
The repository's own fakes accept that, and `handleCancel` (`server.go:207`) takes
whatever CoreRank accepts, so the passing runs are with `CancelSettled = TRUE`; as a
cancel may also fail without effect there, the behaviours of a CoreRank that refuses are
among those of `outcomes` and `pending`. A client may then hear "cancelled" after
"matched", or the reverse, for the gateway has no defence of its own. `OutcomesAgree` says
that this is all: two outcomes are told only where CoreRank gave both, the second a
cancellation, so that "matched" and "timeout" are never both told of a ticket, and with a
CoreRank that refuses no two outcomes are (`OneOutcomeEach` in `MatchmakingProofs`).
`MatchIsPushed` has the corresponding exception: a match without a match id that is
cancelled before it is polled is told as cancelled (`server.go:281`).

What the properties of the match flow do assume: `NoSilentEnd` that GetResult does not
fail (finding 2 is the other case, and `OnlyMatchesGoUntold` bounds it), `NoTicketDropped`
that replies to CreateTicket arrive, `PendingIsPolled` clients that enqueue only when the
last ticket's poller has ended and name no other ticket (finding 1 is the other case),
and the liveness properties the fairness above.

## 4. What is proved

All theorems are for any sessions, players, tickets, faults, habits, limits,
windows, buffers, lengths, waits and bounds; sessions must be finite for the gauge and
the counters only, and in `Waiting` the default interval must be a Duration (the
setting need not be).

* `RateLimiterProofs`: all four properties. The invariant
  ties the histories to the window: messages are charged to the window that holds
  them, windows do not overlap, and a window is charged at most `Limit`, so
  messages `Limit` apart belong to different windows and those `2 * Limit` apart
  have a whole window in between. For `LongRunRate` the windows
  before the open one took `Limit` messages each at most, and the open one began at
  least as many `Window`s after the first message.
* `SessionManagerProofs`: all four properties. The index names the newest session
  to bind the player or that session has ended or gone over to another player;
  the gauge is the cardinality of the sessions between open and close.
* `MatchmakingProofs`: ends and restarts of the process are among the steps of
  every theorem.
  - `TypeOK`; `OutcomesAgree` and `ImplementsVerdicts`, without hypotheses. The
    invariant says that every settled answer on its way to a client, in a local of a
    reader or poller, is among what CoreRank has given that ticket, which only grows;
    that nothing has been given on a queued ticket; and that what is given on any
    ticket is one outcome and at most a cancellation besides. CoreRank's record alone
    would not do: a cancellation erases that the ticket was matched or expired. In
    the refinement CoreRank's answer to a queued ticket is `Decide`, a cancellation
    of a settled one `Overturn`, and a write of an outcome `Hear`.
  - `OnlyMatchesGoUntold`, without hypotheses, and from the same invariant
    `NoSilentEnd`, assuming that GetResult does not fail: a poller about to end has
    told, or its client has gone, or the answer it holds is a match with an id. The
    record keeps the id whatever happens to the ticket later.
  - `NoTicketDropped`, assuming that the replies to CreateTicket arrive. Each ticket of
    CoreRank is in the hands of the reader that created it until its poller starts, the
    match is told, GetResult fails for a match (which CoreRank's record shows by its
    match id) or a write has failed, and a lost connection stays lost.
  - `FoundReachesOwner`, without hypotheses: whatever a session enqueues, waits for or has
    a poller for it has claimed as its own, and whatever it shows it has claimed or been
    asked for; claims are never withdrawn, so re-authentication changes nothing.
  - `PendingIsPolled`, for clients that wait for the poller of a ticket before the next
    enqueue and name no old ticket: a session has one poller at most and none while it
    enqueues, its reader works on the ticket that waits, and whoever empties
    `PendingTicket` does so for a ticket that is settled, which the invariant of
    `OutcomesAgree` gives.
* `AdmissionProofs`: all five properties. The invariant says that the answer being
  judged and what is in force now are among what was in force since the start.
* `WsConnProofs`: `TypeOK`, `FramesWhole`, `PeerFindsFrames`. The invariant says that
  a header without payload is the last chunk, announces the length its writer is at,
  and its writer, the holder of the mutex, is still at it, or the connection is
  broken. `HeadersAnnounce`: a header announces the length it was made for, in each
  form. `AcceptedFit`: an accepted frame has the length its sender announced.
  `ImplementsOutbox`, step by step under the mapping of section 2: the steps
  that complete a frame are `Send`, a failing write is `Refuse`, the peer's read of a
  last chunk is `Deliver`, the end of the connection is `GoDown`, and the others stutter
  or begin a call. Frames take their places from the chunks that end them, which stay
  where they are as `stream` grows.
* `WaitingProofs`: all four properties. The interval is positive while a poller runs,
  because those settings of which it is not make it panic at its start, and if the
  milliseconds fit a Duration it never does. The next tick comes within an interval of the
  last one taken or is there already, so the next poll after the settlement begins
  within `(fails + 1) * Beat` of it, and a poll that has read "queued" began before
  it; GetResult adds one call at most; each poll has used up one tick of the ticker.
* `GatewayProofs`: `GatewaySpec => Spec` of `SessionManager`, by a step-by-step
  mapping that is the identity, which carries the theorems of the registry over
  (`RegistryHoldsInGateway`); and the four invariants. The lists of `todo` have a shape: "found" comes right after
  "match_found", "error" after "errors" and "core_errors" after "core_requests". So the
  clients' answers plus the goroutines that have counted and not yet told are at most
  the count, and likewise for failures and requests, by cardinality of the
  goroutines at that point. Counters only grow, which carries it over to a scrape;
  sessions opened are the connections counted plus those inside `OpenSession`.

Only model-checked: liveness under fairness, which is out of the prover's reach (`PollingIsAnswered`,
`MatchIsPushed`, `IdleEnds`, `WritersReturn`, `StopEnds`).

## 5. Findings

1. `server.go:282` (and `:212`): `PendingTicket` is emptied without asking whether
   it is still the ticket concerned (`docs/protocol.md:128`).
2. `server.go:278`: a failing `GetResult` ends the poller in silence
   (`docs/protocol.md:104`).
3. `websocket.go:166`: no write deadline, so a stalled peer keeps its session
   (`README.md:22`).

Worth knowing, and not claimed otherwise by any property:

* The limiter counts in fixed windows (`session.go:130`): within one second across
  the end of a window up to twice the limit passes, where `README.md:74` says at most
  20 messages per second. `BurstBounded` is what holds.
* `arenagate_match_found_total` (`server.go:320`) counts before the write, so a failing
  write makes it exceed the messages "sent to clients" of its HELP text.
* One scrape may show more core errors than core requests and more active sessions than
  connections, because it loads them one after the other (`metrics.go:51`).
* `MATCH_POLL_INTERVAL_MS` of 9223372036855 or more overflows in `config.go:33`. Where the
  wrapped interval is zero or less, `NewTicker` (`server.go:252`) panics in the goroutine of
  the first poller, which nothing recovers, and the process ends; where it is positive the
  gateway polls at that rate. `Waiting.TypeOK` says that no other setting does this.
  `IDLE_TIMEOUT_MS` overflows in the same way (`config.go:32`); the model of the
  connection leaves the value of the idle timeout open.
* Where CoreRank cancels tickets it has settled, clients may be told both outcomes (see
  section 3).
* A match goes to the connection that enqueued the ticket, also when the session has
  authenticated as another player since (`server.go:132`), and any authenticated client is
  shown the match of any ticket whose id it sends (`server.go:225`): `FoundReachesOwner` says
  exactly that.
* A `max_wait_ms` that does not fit a Duration makes the poller's timer fire at once
  (`server.go:190`), while CoreRank was asked for the long wait.
* `Shutdown` does not wait for sessions (`main.go:43`): they are cut when `main` returns,
  and CoreRank keeps their tickets.
* A lost reply to CreateTicket (`server.go:171`) leaves a ticket in CoreRank that no
  session polls for and no client knows: it may be matched without anybody being told.
  `NoTicketDropped` is about all other tickets.

## 6. What is left out

Not modelled: texts, the announcement, `LastActive` and ids (nothing decides by
them); the accept key of the handshake and masking, which are functions of bytes; HTTP
and JSON encoding in `coreclient`, `opsclient` and `json.go` (the modules have what a
call may do and how it may fail); `/healthz`, which reads the registry's size and
the settings; `Decode`, which the server does not call; strings and switches of the
configuration; the demo and benchmark scripts.

Not composed: the match flow over the write mutex. A stalled push of one poller holds
up the other's, but each write of `Matchmaking` is a step that may come arbitrarily
late already, so its safety properties cover it, and its liveness is that of
`WritersReturn`. That a write may be one step there is what `Outbox` says: a frame is
sent at one moment of the call, or not at all. Admission in front of `HandleEnqueue`: a refused enqueue leaves the
match flow as it was, which is a step that `Matchmaking` need not take.
