# A verification development for macp-sdk-python

TLA+ specifications of the Python SDK of the Multi-Agent Coordination Protocol
(`src/macp_sdk`), the TLC configurations that check them on small instances, and
theorems that the TLA+ proof system checks for every value of the constants.
`PROJECT.json` lists the components, the runs, the source lines behind every
definition, the mutants that show each property can fail, the findings, the hazards
and the theorems.

The SDK is a *client*. It builds envelopes, sends them to a runtime that decides
which are accepted, and replays the accepted history through a *projection*, the
local view a coordinator acts on. Nothing is persisted, and the view is advisory.
So what can go wrong is not that a session is decided wrongly but that a client
believes something the session never said, misses something it did say, says
something its caller did not mean, acts on advice the runtime will refuse, or never
notices that the session is over.

## 1. Inventory

| Component (source) | State | Operations | Correct when |
|---|---|---|---|
| Projection core (`base_projection.py`) | transcript, seen message ids, phase, commitment, anomalies | `apply_envelope` | each envelope takes effect once, in feed order, or not at all; `Committed` absorbs; the view is the replay of the transcript |
| Decision (`projections.py`) | proposals, evaluations, objections, votes | one arm per message type; tallies | the first vote of a sender stands, no vote of a known proposal vanishes, the phase is the session's |
| Quorum (`quorum.py`, threshold of `policy.py`) | requests, ballots | request, three ballots; `has_quorum`, `is_threshold_unreachable` | first ballot stands; never two verdicts, never none once everyone voted, none taken back |
| Task (`task.py`) | tasks, reports, rejections, the session's one assignee slot | six messages; `can_accept`, `has_declined`, `negative_commit_eligible` | slot and task records agree; the slot changes hands only through its holder; advice equals the runtime's answer |
| Handoff (`handoff.py`) | handoffs with their status | offer, context, accept, decline; `can_offer_to` | settle once; the phase is terminal exactly when no offer is pending |
| Proposal (`proposal.py`) | proposals, accepts, latest accept per sender, rejections | five messages; `accepted_proposal` | the newest position of everyone counts; only a terminal Reject of a proposal that was seen ends the session |
| Multi-round (`multi_round.py`) | roster, initiator, latest contributions, round, convergence | SessionStart, Contribute | sticky convergence equal to the runtime's; a late joiner is never ahead |
| Session helpers (`base_session.py`, `async_session.py`, the `*Session` and `Async*Session` classes, `validation.py`) | a projection, the session's id, versions, credentials | start, one builder per action, commit; send, apply on ack | only acked envelopes are applied; a call says what its caller meant, in the name its credentials are bound to; nothing is refused that the runtime would take |
| Clients (`client.py`, `async_client.py`, `auth.py`) | cached capabilities, defaults, channel | 30 RPCs each | the outcome told is true; gated calls follow what was advertised; calls with a deadline end |
| Retry (`retry.py`) | none that lasts | `retry_send` | a final answer is never sent again; a duplicate counts as success; attempts end |
| Streams (`MacpStream` of `client.py`, `AsyncMacpStream` of `async_client.py`) | response queue, pump thread or task, closed flag; request queue or write lock | `send`, `send_subscribe`, `read`, `close`, `cancel`, leaving `async with` | errors and the end reach the reader, once and durably; nobody waits on a call that is over |
| Participant (`agent/participant.py`, `dispatcher.py`) | stop flag, transport, projection, last reported phase, cancel-callback server | `run`, `stop`, `_process_envelope`, `_process_message` | handlers see each phase once, the callbacks tell one story, the end stops the loop; `stop()` ends `run()` |
| Transports (`agent/transports.py`) | stop flag, open stream, resume cursor / `last_seq` | `start` (a generator), `stop`, `cancel` | at least once, in order, no gap; cancellable from another thread |
| Cancel callback (`agent/cancel_callback.py`) | HTTP server thread, shutdown threads | POST -> `stop()`; `close` from any thread | released without deadlock, and only when the participant cannot run again |
| Strategies (`agent/strategies.py`), bootstrap (`agent/runner.py`) | none | evaluate, vote and commit decisions on a projection | a commitment rests on a majority; the session does not get stuck |
| Watchers (`watchers.py`) | handle, a fold of lifecycle events | iterators | not modelled, section 7 |
| Pure layers (`envelope.py`, `errors.py`, `proto_registry.py`, `canonical_json.py`, `commitment_hash.py`, `receipt.py`, `a2a.py`, policy builders, telemetry) | none | construction, encoding, checks | mostly not modelled, section 7 |

**Interactions.** A session helper calls `MacpClient.send`, blocks (or awaits), and
feeds its own projection on the ack. A participant reads envelopes from a transport's
generator, feeds its own projection, and calls user handlers, which send through the
client and may raise or call `stop()`. `stop()` also comes from other threads: a
supervisor's, or the cancel-callback server's. The transport reads a `MacpStream`,
whose pump thread turns the gRPC call into a queue, or polls an HTTP endpoint. Threads
share a client, and with it the capabilities the last `initialize` heard. Nothing of
this holds a lock except `run()` itself; `apply_envelope` is documented as not
thread-safe.

**What is hard.** Redelivery after a reconnect, with and without a cursor; a feed from
two sides in different orders; an ack that is lost, and the retry of what was already
accepted; exceptions between recording a message and its effect, or between reporting
a phase and the end of the session; `stop()` at every point of `run()`; a server that
is shut down by a request it is serving; answers computed from a history that is
partial or not conforming; agents that decide on projections of different age;
rounding and boundaries of thresholds; a participant whose session goes quiet. The
`hazards` list of `PROJECT.json` names each at its line.

## 2. The modules

    ProjectionView            shared parts of a view
      BaseProjection          apply_envelope; ModeStep is the mode's arm
        ProjectionFeed        runtime, session, stream around one projection
          ProjectionFeedProofs    theorems
          MCDecisionFeed      Decision session, for TLC
          AcceptedHistory     (INSTANCE) the abstract specification it implements
        EnvelopeFeed          a projection fed by anything, instantiated by
      <Mode>Projection        the mode's messages and queries
        <Mode>Session         conforming histories, properties of the mode
    ClientRpc                 the table of RPCs, deadlines, errors, identities
      ClientCalls             callers sharing one client and one session
        MCClientCalls
        ClientCallsProofs     theorems
      SessionBuilders         (with Validation) the helpers of all six modes
        ModeSessions          all six modes, helpers and peers, one specification
          MCModeSessions
          ModeSessionsProofs  theorems: under any feed
            ModeAdviceProofs  theorems: on accepted history
    DecisionRuntime           external: what a Decision session accepts
    DecisionAgents            agents on the built-in strategies
      MCDecisionAgents
      DecisionAgentsProofs    theorems
    Dispatch                  _process_envelope, _process_message
      ParticipantDispatch     a history delivered with exceptions and replays
        MCParticipantDispatch
        ParticipantDispatchProofs    theorems
    ParticipantRun            run() || stop() || cancel-callback server
      MCParticipantRun
      ParticipantRunProofs    theorems
    MacpStream                queues, pump, readers, writers of one stream
      StreamPromise           (INSTANCE) the abstract specification it implements
      AsyncStream             AsyncMacpStream beside it: the same, between tasks
        StreamProofs          theorems about both flavours

`<Mode>` is Decision, Quorum (with `QuorumPolicy`), Task, Handoff, Proposal and
MultiRound.

### Envelopes and projections

An envelope is a record `[id, mode, type, sender, subject, value, ok]` and, in
some modes, `flag`. `subject` is the identifier the payload is about, `value` the
one payload field that the mode's logic reads, `ok` says whether `ParseFromString`
succeeds. Ids are model values or short names; `NoId` is proto3's empty string,
which the dedup gate deliberately lets through. Reasons, titles, confidences and
times are left out: no branch of a projection reads them.

A projection is `[transcript, seen, view]`. `ApplyEnvelope` is `apply_envelope`
after the call, exception or not; `Apply` and `ApplyFails` are its two outcomes,
which share the early returns (`Ignored`), the entry (`Enter`), and differ in
`WithEffect` and `Rollback`. The rollback restores transcript and seen ids only,
as in the code. That this is enough rests on every mode arm parsing before it
mutates anything, which is why a payload that does not parse is the only failure
(`Raises`) and leaves the view untouched. Each mode is a pure
function `ModeStep(view, envelope)` with one operator per message type, in the
order of the `if` arms, and operators for the queries.

`ProjectionFeed` puts one projection, of any mode (`Mode`, `ModeStep`, `Messages`
and `Admissible` are constants), between a runtime and two feeds:
`SessionSend` / `RuntimeReceive` / `AckReturns` / `RpcFails` are `_send_and_track`
around the blocking RPC, with the answer lost at either end; `Subscribe`,
`Deliver`, `DeliverUncounted`, `DeliverRaises`, `StreamBreaks` are the adapter's
generator and its consumer, where the cursor is counted only when the consumer comes
back for the next envelope; `Restart` loses everything in memory. The runtime is external:
it accepts what `Admissible` allows and refuses an id it knows.

### Sessions and their helpers

`SessionBuilders` holds, for each mode and each flavour (sync, async), the table from
a method to the builder it calls, and what the builder does: which arguments it
refuses (`Refused`, `SenderRefused`, `ContributeRefused`, `CommitRefused`), how it
spells the value (`BuiltValue`: votes, recommendations and severities are folded to
the runtime's spelling by `Validation`), which outcome a commitment infers from its
action's suffix, and whose name the envelope carries. The sync and the async table
are read from their own files; that they agree is what `CallsTake` checks.

`ModeSessions` is one specification over all six modes. With `obedient` the feed
carries only what a conforming runtime accepts after the transcript so far: each
`<Mode>Session!Conforming` restates the admission rules that the SDK's comments and
the mode guides cite, and reads *only the log*, never the view, so comparing it with
the projection's queries compares two independent computations. Envelopes then come
from `Peers`, or from `Calls` of this process through the helpers, after a start whose
arguments were taken (`Starts`). A ballot needs the request it is about at the head of the
history, and a multi-round SessionStart comes from the initiator. What an instance may put into
`Peers` and `Calls` is stated beside the properties that depend on it: `CallsMean` and
`SoundIsMeaningful` say what a call's annotations are, by the code's own spellings, `ContributionsTell` and
`OneTask` which contributions and task messages there are. `MCModeSessions` assumes them
(`CallsAnnotated`), so TLC evaluates what the theorems of section 4 have as hypotheses.
Without `obedient` the feed carries anything.

### Clients

`ClientRpc` is the table of the RPCs of `MacpClient` and of `AsyncMacpClient`: must
credentials resolve, which capability gates the call, what is checked, which errors a
failure becomes, what answers it. `ClientCalls` runs *callers* (threads or tasks), each with
a program of calls: `Begin` resolves credentials and checks, `Gate` reads the cached
capabilities when the probe has answered, `Serve` is the external runtime, `Return`
classifies and applies to the session's projection, `Resend` is the next attempt of
`retry_send`. `Break`, `Deadline` and `Abandon` are what may happen to a call in flight; a
request whose caller has given up may still arrive, so a deadline leaves open whether it was
accepted. `Upgrade` changes what the runtime advertises. In the async client the steps of a
task between two awaits are one action, as with threads, since a thread shares nothing
else than these variables.

### Agents

`DecisionAgents` is a Decision session whose participants run the built-in
strategies: an evaluation handler on Proposal, `majority_voter` on Evaluation,
`majority_committer` on Vote. `Open` starts the session and its kickoff, `Deliver(a)`
hands the next accepted envelope to an agent's projection and runs the handler,
`Answer(a)` is the runtime's verdict on what the handler sends, against a history that
has moved on. A refusal raises in the handler and ends that agent's run. A *wiring*
says who evaluates and how, what quorum a committer waits for, who has authority, who
is not there. The approving share of the evaluations is compared with the threshold as a
rational.

### The participant

`Dispatch` is sequential: what one call of `_process_envelope` or `_process_message`
does to projection phase, last reported phase, stop flag and the calls of user
handlers, with a fault at each place where user code runs. Each
definition follows the statements in order; in particular `lastPhase` is
written before the phase handlers run and `stopped` only after the terminal
handler returned. `ParticipantDispatch` feeds it whole histories, and after an
exception replays them from the start, to the same participant, as a resubscribe of
a supervisor does. Over gRPC the stream holds the whole history; the HTTP adapter
fetches a page of any length (`Poll`) after `last_seq`, which moves as an event is
yielded, and forgets the rest of a page when something in it is no event
(`PollBreaks`).

`ParticipantRun` has one action per read or write of what `run()` and `stop()`
share: `pc` names the next line of `_run` / `start`, `spc` that of `stop` /
`cancel`. `calls` is the state of every gRPC call opened, so cancelling a call that
is no longer the current one is possible and harmless, as with the local variable
the code binds. `Run` may be called again whenever `run()` has returned or raised.
`stop()` may come on the cancel-callback server's own thread: `server` then is
"handling" until `stop()` returns. `close()` forgets the handle and spawns a thread
that waits for the server (`ShutterAsks`, `ShutterCloses`), which its caller joins,
with a limit, unless it is the server's thread; `run()` and `stop()` may both be in it.

### The stream

`MacpStream` is one call between five kinds of threads: the server (external), the pump
thread of `_pump_responses`, gRPC's own thread that pulls `_request_iter`, readers, and
writers that `send`, `close` or `cancel`. `queue.Queue` makes a put or a get atomic, so
an action is one put, one get, or one test or write of `_closed`: `send` is `Send` (the
test) then `Put`; `close` is `Close`, `SetClosed`, `PutMark`; `read` is `Read` (it
parks), one of `ReadEnvelope`, `ReadFailure`, `ReadEnd`, and after the last `PutEndBack`,
so between the two the queue is empty for everybody else. Envelopes are named by the
position of their frame. After a failure or a cancellation the pump may find what had
arrived or the error first (`PumpFrame` and `PumpFails` are both enabled), as gRPC
leaves open. A frame gRPC's thread pulls for a call that is over is dropped, and it
stops. Empty frames are passed over like errors nobody registered for.

`AsyncStream` adds `AsyncMacpStream`: a run has one of the two flavours, `Threads` steps or
`Loop` steps. Tasks change hands at an await only, so what takes several steps above takes one
here: the pump publishes the failure and the end together (`Publishes`), and a reader puts the
end back as it takes it (`AsyncReadEnd`). The write side is another one: there is no request
queue; `send` tests the closed flag (`AsyncSend`), then waits for the write lock, a FIFO, and
does not test the flag again when it gets it (`Granted`); `close` and `cancel` do not take the
lock, so the flag may be stale by then. A write of a live call may take for ever; of a call that
is over it raises (`WriteRaises`, a `CancelledError` included); of a half-closed call it raises
unless it was in flight already, which is how grpc.aio is read here. `__aexit__` is `Exit`, a
cancel, and `Exited`, once the pump is done. Its readers are those of `MacpStream`.

`StreamPromise` is what a reader may believe, with no queue and no thread in it:
`HandOver` the next envelope, `TellFailure` once, `TellEnd` from then on. It does
not say that all envelopes arrive or that the end means anything: `EndIsTruth` relates
it to the call. `ProjectionFeed` and `ParticipantRun` read streams as it
describes them.

## 3. What the runs show

All runs are exhaustive. Most take seconds; `StreamReads`, `Sessions` and
`ClientCalls` take between half a minute and two.

| Run | Checks | States |
|---|---|---|
| DecisionStream | `PrefixOfLog`: no gap or reordering whatever resubscribes happen; `HistorySpec`: refinement of `AcceptedHistory`; `CatchesUp`: liveness | 11,770 |
| DecisionDoubleFeed | `AcceptedOnly`, `EachOnce`, `ReplayReproduces` with both feeds | 19,766 |
| Sessions | under any feed: `NothingSilent`, `FirstWordStands`, `SlotIsAssignment`, `AcceptedIsLatest`, `TerminalIsSeen`; on accepted histories: `VerdictDecides`, `AdviceAgrees` (every advisory query against the runtime's rules), `BuildersAgree` (local refusals against the runtime's), `CallsTake` (a call says what its caller meant, sync and async) | 188,683 |
| ClientCalls | `OutcomeIsTrue`: what a send tells its caller; `OwnView`: what the session's projection holds of one's own; `FinalAnswerEnds`: retries; `GatedOnlyAdvertised`; `SenderIsIdentity`; `CallsEnd`: liveness under deadlines | 188,709 |
| DecisionAgents | `CommitIsJustified`: a commitment rests on a majority the session had; `SoundWiringCommits`: liveness with one approving evaluator | 21,170 |
| DispatchFaults | `PhaseReportedOnce`, `TerminalWasReported`: one consistent story; `EventuallyStopped`: liveness | 17,823 |
| ParticipantStop | `ServerFollowsRun`, `TerminalReturns`, `StopReturns` | 26,743 |
| StreamReads | `PromiseSpec`: refinement of `StreamPromise`; `EndIsTruth`; `SentBeforeClose`; `CallsReturn`: once the call is over, reads, sends and `__aexit__` return; threads and tasks, two readers and two writers | 689,715 |

Every run but `DecisionDoubleFeed` also checks its module's `TypeOK`. Four more runs each
refute one sentence of the repository's documentation, comments or tests; the findings
quote it and the counterexample:

- `DecisionDoubleFeedClaim`: feeding a session's projection from its stream as well is
  not safe for votes. The own vote can be applied before the proposal has been
  delivered, is dropped as unknown, and its delivery is then a duplicate. The same
  mechanism affects every mode whose arms depend on order.
- `ParticipantStopAuto`: a `stop()` before the adapter is assigned is lost if the
  session is quiet. `ParticipantStop` shows the same property holds with an injected
  transport.
- `ParticipantRerun`: a second `run()` reuses a stopped adapter and subscribes to
  nothing.
- `AgentsEvaluate`: three participants that all evaluate, vote and commit with the
  built-in strategies may never commit. Whoever handles a second Evaluation sends a
  second Vote, which is refused and ends its `run()`. `DecisionAgents` shows that with one
  evaluator the strategies do commit.

Divergences and limits met while modelling and left without a run:

- `has_declined` answers about the assignee a TaskReject names (task.py:205, 344), not, as
  its docstring says, about who sent it.
- Over a transport without raw envelopes `_process_message` returns before it looks at the
  message type whenever the mode has a projection (participant.py:572): a SessionCancel
  fires no `on_terminal` there. In a mode without a projection it is the other way round
  over gRPC: a Commitment stops nobody. `EventuallyStopped` (its `Ends`) leaves both out.
- A Handoff participant is stopped by the first Declined, although the guide lets an
  initiator offer again (docs/modes/handoff.md:155-160); and if the handler of Declined
  raised, the replay goes on past it, and a later SessionCancel fires `on_terminal`.
- A callback of `on_inline_error` that raises ends the pump thread, and readers see a clean
  end of a stream that is open; `EndIsTruth` exempts it.
- `ParticipantActions.commit` sends `policy.default` whatever policy its session is bound to
  (participant.py:347), so a participant of a session under a named policy is refused.
  `SoundWiring` asks for the default policy.
- docs/modes/decision.md:149-151 says that `session.vote` "returns an Ack with ok=False" for
  a refused vote; `send` raises `MacpAckError` unless told otherwise.
- `majority_committer` waits for ever when two proposals are approved by everyone: neither has
  more than the other. And a committer whose `quorum_size` is below the number of voters
  decides again on the next vote, is refused, and its `run()` fails before its terminal.
- A runtime before 0.9 answers some final refusals as a bare INVALID_ARGUMENT without a
  registry code; `retry_send` retries those. `FinalAnswerEnds` speaks of registry codes.
- `Participant.stop()` over the HTTP adapter, which has no `cancel`, takes effect with the
  next message, as documented. An event that is malformed for good blocks the poller at
  it for ever: the model bounds broken polls.
- A cancel POST whose body is JSON but not an object raises outside the `try` of `do_POST`,
  and `stop()` is not called.

Each property of a passing run has a mutant, four of them two: a variant of one definition
(named after it, with the change as suffix, directly above it) that a plausible slip in
the code would be, under which TLC finds the property violated.

### Bounds

- *Failures* (`MaxFailures`, `MaxFaults`). Every way to fail draws on one
  counter: 2 in the feeds, 2 in `ParticipantStop`, 3 in `DispatchFaults`, 1 in `ClientCalls`.
  Two let a failure hit the recovery from the first, three a handler, its replay and the
  terminal handler. In `ClientCalls` one is a lost answer, a transient refusal or an
  upgrade; deadlines, which lose an answer too, are not counted. The bounds also make
  liveness meaningful: a transport that fails forever delivers nothing.
- *Messages*. The feeds use six: a proposal, an evaluation, three votes by two
  senders, two of them by one sender, and a commitment, which is every order dependence
  of the Decision arms, for each sender before and behind the stream.
- *Transcripts* (`PeersLength`, `AnyLength`) in `ModeSessions` are long enough for a mode's
  whole protocol once, for a duplicate or competitor of each message, and for one message
  after the end; lengths are per mode in `MCModeSessions`.
- *Participants*. Three voters: the smallest number with a majority, a minority and a
  boundary on both sides of a third and of a half; percentages include 33, 34, 66,
  67 and 66.5. Three workers: holder, decliner, bystander. Two targets and three
  offers: a second offer to the other and a third to the first. Two on the roster and
  one outsider: convergence, a late joiner, a stranger.
- *Calls*. `MCCalls` has, per mode, every method of the helpers, by this process and as
  others, some misspelt, misattributed or incomplete (`Unsound`).
- *Clients*. Two callers, eleven pairs of programs of one or two calls, four
  configurations (flavour, pinned, bare or missing credentials on either level, default
  timeout or none, both generations of the runtime's errors), `MaxRetries` = 1 (a
  retry that succeeds and one that is given up), `MaxPages` = 2.
- *Agents*. Three: an evaluator, a voter, a committer, or any of them in one; quorums from
  one to three, an agent that never starts, a second proposal racing the votes, a named
  policy, no kickoff.
- *Scripts* of `DispatchFaults`: Decision, Proposal and Handoff histories with a commitment, a
  cancel, a cancel after a commitment, a decline and a second offer; each in all four
  kinds of participant.
- `MaxRuns` = 2 and `MaxRetries` = 1 in `ParticipantStop`: a rerun, and a retry given up or
  succeeding. A join that times out is one of the failures.
- `MaxCalls` = 4 bounds the calls of all stream threads together: both readers past the
  end while a writer cancels, or a sender against two closers. `MaxFrames` = 2: an
  envelope behind, or in front of, an inline error or another envelope.
- `CountMax` = 100 stands for the u32 ceiling, `MaxParticipants` and `MaxTtl` for the
  builders' limits; starts at and beyond the latter two occur.

Deadlock is not checked: sessions end, participants stop, bounds are reached.

### Fairness

- Feeds: `Subscribe`, `Deliver` and `AckReturns` are weakly fair (the consumer's
  loop and the sending thread run on unless they fail, and failures are bounded),
  and so is the runtime's answer to what reached it. Nobody is obliged to send.
- Clients: for each caller `Gate`, `Return`, `Resend` and `Deadline` are weakly fair: a
  thread that has its answer goes on, and gRPC enforces deadlines. The runtime owes
  nothing, so `CallsEnd` holds because of the deadlines alone.
- Agents: `Open`, and for each agent `Deliver` or `Answer`: streams deliver, the runtime
  answers. Nobody need make the second proposal.
- Participant dispatch: `Deliver` (its transport is the feed above), `Poll` (the loop asks
  until it is stopped, and the endpoint answers in the end with what it has) and
  `Resubscribe` (the supervisor the documentation of `run()` expects).
- Run and stop: each *thread* is weakly fair as a whole (`WF_vars(Runner)`,
  `WF_vars(Stopper)`, the server's, each shutdown thread's). The environment is not: no
  envelope need ever come, no stream need end, nobody need call `run()` or `stop()`. Hence a
  read on a quiet session blocks forever, which is what makes `StopReturns` and
  `TerminalReturns` say something.
- Stream: the pump, gRPC's thread, and every thread or task that is *inside* a call are weakly
  fair; nobody need call anything, the server need not send, end or make room for a write
  (`Written` is not fair), and `ReadTimesOut` is not fair, so `CallsReturn` is about reads
  without a timeout. It starts where the call is over: on a live one anybody may wait. That
  one reader cannot starve another is the bound on calls, not a promise of
  `queue.Queue`.

## 4. What is proved

`ProjectionFeedProofs` proves, for every mode step, message set, admission rule,
initial view and failure bound, with only the named assumptions of `ProjectionFeed`
(messages have pairwise distinct, non-empty ids and the projection's mode):

- `TypeCorrect`, `OnlyAccepted`, `AppliedOnce`, `StreamIsPrefix`: the
  invariants of the two Decision runs, for *any* mode and size; and `NoGap`: the cursor
  never passes what took effect;
- `ExactlyOnce`: with the stream as its only feed, the specification implements
  `AcceptedHistory`.

None of these invariants is inductive alone. Take `NoGap`: that the cursor stays
behind the transcript needs that a delivered envelope that is *ignored* was
already in the transcript, which needs `seen` to be exactly the transcript's ids
(`EachOnce`); and for the transcript to stay a prefix, a delivered envelope that is
*not* ignored must be the very next one: the read position is at most the
transcript's length, and ids in the log are distinct. `IInv` therefore conjoins the
types, `Once` (`seen` and distinctness), `Distinct` (of the log), `AckedIsAccepted`
(an "ok" answer is for a message in the log) and `StreamInv` (prefix, and read
position and cursor at most the transcript's length). The proof has one step per
action; the lemmas say what `Apply` and `ApplyFails` do to transcript and seen ids,
in particular that a failed apply leaves both exactly as they were, so that `Enter`
followed by `Rollback` is the identity.

`ExactlyOnce` maps every step to one of the abstract specification: an accepting
step to `Accept`, a delivery to `ApplyNext` or, if redelivered, a stutter, `Restart`
to `Forget`.

- `TranscriptReproduces`, which is `ReplayReproduces`: with any feeds the projection is what its
  transcript gives a fresh one; and `ReadIsHistory`: fed by the stream alone, a consumer that
  has read everything has what accepted history gives, the state `CatchesUp` says it comes to.

`Replay` is a recursive function over the transcript (`BaseProjection`), and the library's
induction theorems take a predicate, which the installed provers cannot instantiate. Both
proofs use an induction over a *set* of numbers instead: if 0 is in it, and with each number
its successor, then all are. Were n missing, `k + 1` would take the members up to n one to one
to those members without 0, of which there are fewer, against the pigeonhole fact of
`FiniteSetTheorems`. From it follow that the function exists, that it is the only one, and that one more envelope in the
transcript is one more `Apply`.

`StreamProofs` does the same for `MacpStream`, and for both flavours of `AsyncStream`, for any set
of readers and writers and any number of frames and calls:

- `StreamTypes`, `EndCanBeTrusted`, `ClosingSendsFirst`, and `AsyncStreamTypes`,
  `AsyncEndCanBeTrusted`, `AsyncClosingSendsFirst`: the invariants of `StreamReads`;
- `PromiseKept` and `AsyncPromiseKept`: the specifications implement `StreamPromise`.

`EndIsTruth` is not inductive, since it says nothing until somebody has read the end.
`IInv` says what the queue holds at each moment: `Ordered` (envelopes by frame, then
one failure, then one end), `NothingLost` (every envelope the pump took is behind
`last` or queued), `PumpPhase` (no failure while the pump loops, no end until it is
done), `Final` (after a failure or the end was told, neither envelopes nor a failure are
left), `OneHolder` (a reader that holds the end holds the only one, over an empty queue)
and `PumpTruth` (why the pump left its loop). The head of the queue is then always a step
the promise allows: were an envelope skipped, `NothingLost` would have it in the
queue behind a later one, against `Ordered`. `ClosingSendsFirst` has an invariant of its
own, `WriteInv`: what is owed has gone out or stands in the queue before every end mark.
`NobodyIsStranded`, the safety half of `CallsReturn`, holds of both flavours: once the pump is done
the end is queued or with a reader about to put it back (`EndIsThere`), and the write lock's line
is of tasks inside `send`, each once (`LockInv`), so that whoever waits is behind somebody who
can go.

The second half of the module keeps the same `IInv` for both flavours: `AsyncSteps` sorts every
step into those of `MacpStream`, whose lemmas apply, the last step of the pump, the read of the
end and the steps of a task, of which `TaskStep` says what they leave alone. Its write side
needs `NothingQueued` besides.

`ParticipantRunProofs` proves about `run()` and `stop()`, for any history and any number of
runs, retries and failures:

- `TypeCorrect`, and `EndpointFollowsRun`, which is `ServerFollowsRun`;
- `StopReachesRead`: with an injected transport, once `stop()` is done no `run()` reads a call
  that is still live. It is the safety half of `StopReturns`: a parked read is one whose call
  was aborted, and comes back;
- `TerminalIsLast`, the safety half of `TerminalReturns`: nothing is opened, read or dispatched
  after the terminal envelope, in this `run()` or a later one, and it was handled once.

`ServerFollowsRun` speaks only of moments when neither thread is inside. Its invariant says who
still has the release ahead: nothing touches the server before the stop flag is set
(`OnlyOnceStopped`), the handle is forgotten only by a thread that spawned its shutdown
(`ForgottenIsShut`), and a participant stopped without `stop()`, by a terminal envelope or
by its own handler, was stopped at a line of `run()` from which the release follows
(`ReleaseAhead`). For `StopReachesRead`, `CancelSees` follows the two threads past each other:
`stop()` halts the adapter before it looks for a stream, `start()` publishes its stream before it
looks whether it was halted, so whichever looks second sees the other.

`ParticipantDispatchProofs` proves, for any histories, modes and faults, over either transport:

- `TypeCorrect`, and `ReportedOnce`, which is `PhaseReportedOnce`;
- `TerminalFollowsReport`, which is `TerminalWasReported`;
- `EndIsHeard`, the safety half of `EventuallyStopped`: whom an end was handed to has stopped,
  unless a handler of a phase or of the end raised.

It assumes that no projection has a phase called Cancelled, the name `on_terminal` is given for
a cancelled session (participant.py is the only file that has it). That neighbouring reports
differ is not inductive, since a report compares with `lastPhase` and not with what was
reported. The invariant adds `LastNoted`: `lastPhase` is the phase reported last, or the initial
one, which survives an exception in the handler because the code notes the phase before it calls
it. That a cancel is told at a phase the session goes on from is not inductive either, since the
history is fed again after an exception. `StoryInv` adds why nothing moves then: once a cancel
was told, everything up to it in the history has been applied (`AppliedInv`, `CancelInv`), so
what is delivered again is skipped by the projection, until the cancel itself, which stops the
loop if no handler raises in it. Without phases, nothing is delivered behind the first envelope
that ends the session (`EndInv`); over a polling transport a projection is not fed and nothing
is told at all (`PollerInv`). The lemmas follow one envelope through the handlers:
`ProjectedKeeps`, `ReportPhaseKeeps`, `FireTerminalKeeps` for the reports, `EnvelopeOutcome`,
`EnvelopeEnds`, `MessageEnds`, `EnvelopeHeard` for the end.

`EndIsHeard` is about a participant whose message handler may have raised after the commitment was
applied: the replay then reports the phase with whatever envelope comes first. Its invariant
(`HeardInv`): an applied commitment is the phase for good, the phase is the one noted last
unless an exception is on its way, and a terminal phase was noted only in a call that stopped the
loop or raised. It assumes that ids of a history differ, that a commitment commits and
that no mode starts in a terminal phase (`CommitmentsEnd`, which TLC evaluates of the run's
histories).

`ClientCallsProofs` proves, for any callers, programs, credentials, capabilities and bounds,
assuming only that no two calls share an id (`CallsAssumption`; the SDK draws them as UUIDs):

- `FlavoursAgree`: `MacpClient` and `AsyncMacpClient`, two tables from two files, are one
  function of the RPC, of the pin and of the credentials;
- `TypeCorrect`, and each safety property of the run: `OutcomesAreTrue`, `OwnViewHolds`,
  `FinalAnswersEnd`, `GatedOnlyIfAdvertised`, `SendersAreIdentities`.

What a caller concludes when an answer reaches it is about a history that has moved on since the
answer was given. `IInv` says what each thing in flight vouches for: a request carries the id
and identity of one call that has begun and that nothing local refused (`RequestOf`), an entry
of the history comes from such a request (`EntryOf`), an id enters it once (`OneEntryEach`), a
helper's envelope is applied only if accepted and in its caller's order (`OwnInv`), an answer
"accepted" or "duplicate" has its entry and stays true, because history only grows (`EndingOf`),
and what passed the gate was advertised (`Cleared`). Only `retry_send` has more than one request
for an id, which is why a helper's own envelope is never found a duplicate.

`DecisionAgentsProofs` proves, for any agents and wirings (`AgentsAssumption` wants opinions to be
recommendations that exist, and the kickoff to be about something there is an opinion of):

- `TypeCorrect`, and `CommitmentsAreJustified`, which is `CommitIsJustified`: a commitment that
  the runtime accepted had its majority and quorum at some moment of the history.

A committer decides on a projection of its own age. Every agent's transcript is a prefix of the
history (`Follows`), and the votes its projection holds are exactly that prefix's (`Tallied`),
since the history has every id once, every proposal once, and votes only about proposals before
them (`LogInv`): none is skipped as a duplicate and none is dropped as unknown. So what the
strategy counted was carried when the history was as long as the committer's transcript
(`Carried`), and `Sending` holds that fact while the commitment is on its way. Ids are distinct
because an agent evaluates a proposal once, on a Proposal it has just seen.

`ModeSessionsProofs` proves about all six modes, for any envelopes, calls, rosters and policies,
and under any feed:

- `TypeCorrect`, `NothingIsSilent`, `TerminalIsAlwaysSeen`, `AcceptedIsTheLatest`,
  `SlotFollowsAssignment`, and the action property `FirstWord`: six of the properties of
  `Sessions`.

A call of `apply_envelope` does nothing or appends one envelope of the session's mode that
parsed and gives the view its effect (`Enters`), so what the view holds follows from the
transcript by one induction over steps, mode by mode. `NothingSilent` compares two counts over
the transcript: each message about something known adds one to what is counted or one to the
anomalies. `SlotIsAssignment` needs that every task's assignee is set and cleared with the slot;
`AcceptedIsLatest` that the entry of a sender is its newest accept's. Assumed: the constants
have one entry per mode (`ModeAssumption`), and nobody who accepts a task is called as what
stands for nobody (`NamesAssumption`).

`ModeAdviceProofs` adds what only an obedient session has, one whose feed carries what a
conforming runtime accepts, for any start, policy and history:

- `VerdictStands`, which is `VerdictDecides`: never two verdicts, never none once all ballots
  are in, none taken back, and the bar of a percentage is the least count of at least that
  share. Those who voted are on the roster, a list without duplicates because
  `validate_session_start` refuses them; the one request asks for no more approvals than there
  are participants; a ballot takes one open vote and adds at most one approval. Bars above the
  u32 ceiling are capped as in the code;
- `AdviceStands`, which is `AdviceAgrees`, from its parts: `PhaseFollowsHistory` (Decision),
  `OffersFollowHistory` (Handoff), `ConvergenceFollowsHistory` (multi-round: converged exactly
  when the history has, the round is the number of changed contributions), `LateJoinerBehind`
  (whoever joined after any message reports no convergence the session has not reached), and
  `AcceptsFollowHistory` (Task). The last has a hypothesis on the history, `OwnWords`: payloads
  of accepts and rejects name the session's task and, if anybody, their sender. The runtime checks
  the authenticated sender and not the payload (docs/modes/task.md:63), so the code's
  `has_declined`, which reads the payload, may be wrong without it (section 3). `AdviceStands`
  has a hypothesis on peers and calls in its place, `OneTask`;
- `RefusalsAgree`, which is `BuildersAgree`: what `contribute`, `commit` and the builders of
  a Decision session refuse, a runtime would, and nothing else. Assumed: the initiator has
  a name, contributions decode and have a sender (`ContributionsTell`), and `sound` marks the
  Decision calls that say something the runtime reads (`SoundIsMeaningful`);
- `CallsTakeEffect`, which is the action property `CallsTake`: in every mode, through the sync
  or the async helper and under the deprecated names, what a call means and in whose name is what the
  projection shows once the runtime accepted it. Assumed: `CallsMean` and `OneTask`.

`LateJoinerBehind` follows the joiner's projection by the induction described for
`ReplayReproduces`: it holds no contribution that is not its sender's latest, and its roster
is the session's, so what it calls converged is. `RefusalsAgree` needs that a session past its
start knows its initiator (`Begun`); the rest is what a builder checks against what a
runtime reads. `CallsTakeEffect` is about two states, but whether a projection shows what a call
said depends on the view the call met: a vote needs its proposal, a ballot an open request, an
accept a free slot. `SaidInv` therefore says that an obedient history holds nothing but what its peers
and its calls say, that a ballot, a report or a status of the view stands in it, and that a
task session opens with its request. The proof goes through the modes: a method's envelope
(`Sent`), the runtime's rule that accepted it, the state that leaves the handler
no early return, and the entry it writes.

Assumed besides: a roster is a list of names (`StartsAssumption`), a policy's threshold is a
rational (`PolicyAssumption`).

Only model-checked: liveness (`CatchesUp`, `CallsReturn`, `EventuallyStopped`,
`TerminalReturns`, `StopReturns`, `CallsEnd`, `SoundWiringCommits`), which the prover cannot do
under fairness. Of five of them it has the safety half: `ReadIsHistory` for `CatchesUp`,
`NobodyIsStranded` for `CallsReturn`, `EndIsHeard` for `EventuallyStopped`, `TerminalIsLast` for
`TerminalReturns`, `StopReachesRead` for `StopReturns`. Every other property of a passing run is stated by a
theorem.

## 5. Reading a definition against the code

`map` in `PROJECT.json` gives for each definition the file, the lines and the
symbol. `external` marks the runtime: its admission rules and its answers. Conventions:

- A dict is a function on the keys present (`Put`), `None` a model value or a name that
  is no other's (`Free`, `Unassigned`, `Nobody`, `NoCommitment`), or the empty set for
  `accepted_proposal`.
- The early returns of a mode's arm are the conditions that return `v`.
- Anomalies keep kind, message id, sender and subject; the code's detail text and
  message type are left out.
- `QuorumPolicy` takes the threshold's value as a rational, for which the integer
  path of the code is exact; for a non-integer percentage the code rounds in floats,
  and an error of that rounding is not modelled. The same goes for `positive_threshold` of the
  voter.
- Where the code has a method twice, sync and async, `ClientRpc` and `SessionBuilders` have two
  tables, each mapped to its own file. What both inherit has one definition.
- A call's `means`, `who` and `sound` say what its caller wants and are read by properties only;
  `CallsMean` and `SoundIsMeaningful` (`ModeSessions`) say what they must be.
- Model time has no durations: deadlines, joins and the retry's backoff are events.

## 6. Plan

Done: sections 2 to 4. Next, in this order:

1. The watchers' fold of lifecycle events over a stream that reconnects.
2. The decoder of multi-round contributions, as a recogniser over a small alphabet
   of tokens against a reference definition.

## 7. Not modelled

- *Byte-level and cryptographic layers* (`canonical_json`, `commitment_hash`, `receipt`, the
  protobuf codecs and their registry): pure functions of strings and bytes. The
  repository's test vectors reach them, a small-model checker does not.
- *String mappings and configuration* (`a2a`, the parsing of error details in `errors`,
  `constants`, `types`, the layout of policy rules in `policy`): no state and no decision that
  other parts read, but for the threshold, which is `QuorumPolicy`, and the exception a
  failure becomes, which is `ClientRpc`.
- *The shutdown of an event loop* that cancels the pump task of an `AsyncMacpStream` itself
  (async_client.py:105), and the cancellation of a caller's own task inside `send` or `read`.
- *`watchers`*: iterators over the watch RPCs, which `ClientRpc` has.
- *Lookups* of the projections that return a stored record, and messages or reasons in words.
- *The decoder* of multi-round contributions (`_contribute_value` and the parsers under it):
  one flag, decodable or not.
- *Participant actions* beyond those of Decision, and the parts of the bootstrap that are read once
  (addresses, credentials, extensions, roots). Lists of handlers are one handler each.
- *One envelope of another session* on a participant's stream.
- *Telemetry and logging*: nothing the program decides depends on it.
- *The framework integrations*: separate packages that use the Participant API as modelled.
- *The runtime* is another project. What the modules assume of it is what this repository's
  comments, guides and tests cite, and is marked external.
