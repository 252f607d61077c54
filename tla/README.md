# A verification development for one-ai-key

one-ai-key is a local router in front of OpenAI-compatible upstreams. A client
sends a request to one address; the router chooses a *channel* (an account at a
provider) and, within the channel's *credential set*, a credential; it forwards
the request, and on a failure decides what the failure says about the
credential, the channel, the account and the provider, and whether to send the
request again. Operators change credentials and channels while requests are
being forwarded.

This directory holds TLA+ models of that program, the TLC configurations that
check them on small instances, and proofs that TLAPS checks for every instance.
All definitions are translated from the Rust source; `PROJECT.json` gives the
lines of each under "map". The path `src/` below is the repository's source
directory, `docs/` its documents.

## Inventory

| Component | State | Operations | Modelled in |
|---|---|---|---|
| Credential pool (`pool.rs`, `credentials.rs`) | credentials in slots, current slot, set of available slots, deadlines of cooldowns in two maps | select, select by id, last resort, retry candidates, report cooldown / expiry / quota, restore, disable, enable, clear cooldown, add | `KeyPool` |
| Credential commands (`management_commands.rs`), automatic persistence (`failure_state_executor.rs`, `state.rs`), lifecycle store (`credential_repository.rs`) | pool, selector generation, durable lifecycle rows, event log, bounded queue, one worker | expire, quota-exhaust, restore, disable, enable, clear-cooldown, probe cooldown, compensation, automatic expiry, restart | `CredentialCommands` |
| Route planning (`route_plan.rs`) | none: a function of the observed route states | plan, preview | `RoutePlan` |
| Failure classification and retry policy (`error.rs`, `routing.rs`) | none: functions of the evidence and the snapshot | classify, transition | `RetryPolicy` |
| Channel health and failure domains (`state.rs`, `management_resources.rs`) | health and health generation per channel, open providers and accounts | automatic transition, relay balance suppression, success, disable, enable, reset | `ChannelHealth` |
| Forwarding (`proxy.rs`, `failure_observer.rs`) | per request: frozen plan, position, attempt, candidates, snapshot | plan, commit, send, report, filter, succeed, body stream | `Forwarding` |
| Gates (tokio locks in `PoolState`, blocking threads) | send gate, mutation gate, pool lock, thread pool | every wait of every operation | `Gates` |
| Success guard and response stream (`success_guard.rs`, `upstream_response.rs`, `response_filter.rs`) | per response: peeked prefix, rest of a chunk, filter window, what was delivered | peek, inspect, deadline, pass through, replay, check length and end, filter, release, observe | `SuccessGuard` |
| Event log (`events.rs`) | file of lines, next id, count, bounded window | open, append, page, replay | `EventLog` |
| Registry store and control plane (`registry_store.rs`, `management_registry.rs`, `control_plane.rs`) | versioned document, mutation lock | single write, route batch, preflight, audit, load | `ControlPlane` |
| Runtime reload (`state.rs` 683-788, `management_runtime.rs`) | the serving runtime and those before it that handlers still hold | compile, replay channel events, replace | `ControlPlane` |
| Credential import (`credential_repository.rs`, `management_credentials.rs`) | credentials in SQLite and in the pool | append, add, load | `ControlPlane` |
| Client tokens (`client_token_store.rs`, `management_client_tokens.rs`, `auth.rs`) | table, registry in memory | bootstrap, create, enable, disable, rescope, authenticate | `ClientTokens` |
| Model discovery (`model_discovery.rs`) | none | ask channels, write the missing routes | `ControlPlane` (the synchronisation) |
| Probes (`credential_probe.rs`) | evidence per credential | probe, record, apply the latest | `CredentialCommands` (the cooldown of a probe) |
| Configuration, templates, diagnostics | none after start | parse, validate, project | no: pure functions of static data |
| Management projections and HTTP routes | none | render | no: read-only |
| Command line (`cli*.rs`, `cli_commands/`) | none in the service | render reports | no: a client; the version it observed before a reload or a route is in `ControlPlane` |

How they interact. A request reads route states without waiting (the pool
lock is only tried), freezes a plan, and then for each target takes the *send
gate* for reading and, under the *mutation gate* and the pool lock, commits: it
reads the route state again, selects a credential and takes a snapshot with the
selector and health generations. It sends with the send gate held, and reports a
failure afterwards, with the snapshot, to `routing.rs`, which answers with a
mutation and a directive. Commands check, persist and append with no gate held,
and take all the gates to apply. The pool, its gates and the selector generation
are shared by the channels of a credential set; health and health generation
belong to one channel; failure domains to an account or a provider.

A successful response is peeked at before anything is sent to the client, since
a 2xx body may still be an error; what was peeked is then replayed through the
response filter. Beside all this, the control plane keeps desired state: writes
go to the registry store under the mutation lock, and a reload, under the same
lock, compiles the stored document, reads the credentials from their store and
the channel commands from the event log, and swaps the runtime. Channel commands
and imports do not take that lock. Client tokens have a table and a registry in
memory that every token command updates after the table.

What is hard. Everything that a request learned can be out of date when it is
used: states frozen in the plan, candidates frozen at the selection, the
generation in the snapshot. Reports come late and out of order. The store, the
event log and the pool are written at three different moments with a crash, a
refusal or a failure between any two. The runtime is replaced while commands work
on the pools of the old one. A client that goes away drops its handler at any
await, with its locks, while the blocking thread it started goes on. An upstream
cuts its body wherever it likes. Three locks and a thread pool are taken in
nested order by nine kinds of operation. `PROJECT.json` lists each such place
under "hazards", with its line and the properties for it.

What makes each component correct:

- pool: indexes agree with states; selection is sticky and finds a usable
  credential when there is one; identities are unique;
- commands: what is applied was decided on the state it is applied to; a refused
  or failed command leaves store and pool in agreement; disabled stays disabled;
- planning and forwarding: one conservative retry per client request, never on
  the credential that just failed; a plan of one admission tier; always an answer;
- health: operator decisions outlive every report; old reports change nothing;
- gates: no deadlock, no starvation, no wait for storage on the request path;
- guard and stream: the client gets the body as it came, once and in order, an
  early end never looks like a good one, an error envelope or a rejected text
  does not get out, and a silent upstream does not hold the response for ever;
- event log: ids are never used twice, the window pages what was recorded, and
  what was acknowledged is read back;
- control plane: a runtime is what its version says, no synchronisation loses a
  route, and what serves agrees with the store and the log;
- client tokens: a secret authenticates one client, and a token is served as
  stored.

## Modules

`KeyPool` — one pool. `size`, `id` and `state` are the vector of credentials,
`index` the three derived maps, `current` the slot served from, `now` the
monotonic clock, `reply` what the last call returned. One action per public
method; the helpers `MarkIndex...`, `RefreshAvailableIndices` and
`RemoveCooldownDeadline` are operators on the index record, called in the order
of the code. `Tick` is the clock; `SelectCoolingDownLastResort` reads it twice,
as the code does. Each refreshing operation refreshes with the instant it read.

`CredentialLifecycle` — the abstract promise of a pool, without index and clock:
phases of slots, and which steps may change them or move the pool.

`CredentialCommands` — operators' commands in the steps of
`credential_command_transaction` (Submit, Check, Persist, AppendEvent, Apply)
and `compensate_credential_lifecycle` (ReadBack, Compensate), requests that
select a credential and report a failure at any later time, the probe cooldown,
the persistence queue and worker, and a crash that reloads the pool from the
snapshots. Storage and the audit append may fail. The cause in a state (which
operator, or automatic) stands for its reason text, which the recheck compares.
`disturbed` is history for the properties.

`RoutePlan`, `RetryPolicy`, `ChannelHealth` — pure operators: admission and
order of targets (a weighted draw may give any order of a priority tier); the
failures that can be observed, their mutation and the retry directive; health
transitions and the route state of a channel.

`Forwarding` — composes the three. `Plan` freezes a plan; `Commit` is the
critical section of one target, with its fallbacks; `Report`, `Filter`,
`Succeed` and `EndStream` are the ends of an exchange, each with the whole
failure report; `Apply` is the mutation of shared state and `Continue` the
directive. Operators' commands on channels and credentials and the ends of
cooldowns interleave anywhere. `sends`, `failure` and `commanded` are history.

`Gates` — each operation as the list of its waits and releases, in code order,
over fair semaphores (tokio's queues are first-in first-out, and a writer takes
all permits, so it holds up later readers). Storage may hang from some point on.
`MayStop` is an early return. Waits for storage that follow each other with
nothing held are merged.

`SuccessGuard` — one 2xx response. A body is reduced to the positions of the
bytes some decision looks at: where a JSON value or data field is recognisable as
begun, where it is complete, where junk follows it, its declared length, its blank
lines, a filter match of two bytes and a character of two bytes. `Begin`,
`Peek(n)`, `Deadline`, `PeekError` and `PeekEof` are the loop of
`guard_success_byte_stream`; `PullPrefix`, `PullOverflow`, `PullChunk(n)`,
`PullError`, `PullEof`, `Release` and `FilterEnds` are the stack of streams
behind it, from `prefixed_body_stream` to the failure observer. The
filter's units are those of `filter_response_stream`, which looks for blank lines
in a body of any kind and passes a unit that is not UTF-8 as it is.

`EventLog` — the file as lines of fragments (whole, cut short, cut within a
character), `inner` as in the code, one append under the mutex in several writes,
and a replay that reads the growing file in two parts. `FailAppend` and `Crash`
may fall between any two writes. `recorded` and `acknowledged` are history.

`ClientTokens` — commands in the steps of the code: checks on the registry, audit
event, each SQL statement on the blocking thread, replacement of the registry
entry. `FailStatement`, `Crash` and `Disconnect` (handler gone, thread going on)
may fall anywhere. `disturbed` (two commands on one token at a time, or a lost
handler) and `unread` (a committed update whose row could not be read back) are
history.

`ControlPlane` — composes registry store, staged writes, discovery, reload,
channel commands, imports and the stores they share. `runtimes` is the sequence
of runtimes installed since the start: the last one serves, and channel commands
and imports keep the one they found. A document is the routes, which batches
change against an expected version, and one resource of two states that stands for
all those with single writes. `eventLog` is the log as a replay reads it: the last
event of each channel in the complete lines, and how the last line is. An append
that fails, or that a crash cuts, leaves any part of its line (`FailAppend`,
`Crash`): a part that does not parse, or the whole document without its newline,
which a replay takes. What is appended behind such a part does not parse, and is
fatal once it is not the last line. `raced` records what ran across something it
does not wait for, and the channels of which the log says something else than
their commands were answered (`Misreported`).

`KeyPoolProofs`, `CredentialCommandsProofs`, `ForwardingProofs`,
`SuccessGuardProofs`, `ClientTokensProofs`, `EventLogProofs`, `ControlPlaneProofs`
— theorems about the module each is named after; `KeyPoolProofs` also shows that
`KeyPool` implements `CredentialLifecycle`. `SortedSequences` — lemmas about
listing a finite set in a given order, shared by three of them.

Orders are written so that they can be reasoned about. Where the code sorts,
scans or filters, the models do not call the library's SortSeq or SelectSeq,
which are recursive, but say what comes out: the list of a set in an order
(`InPriorityOrder` of `RoutePlan`, `InScanOrder` of `KeyPool`, `EventsOf` of
`EventLog`), the first-priority targets rotated so that the one drawn comes
first (`Drawn`), a unit with its match replaced (`Filtered` of `SuccessGuard`).

`MCKeyPool`, `MCCredentialCommands`, `MCForwarding`, `MCGates`, `MCSuccessGuard`,
`MCEventLog`, `MCClientTokens`, `MCControlPlane` — values of the
constants, symmetry sets, contexts and profiles. `MCControlPlane` also has the
view of `control_plane`: of a command that has ended, TLC tells states apart by
the version it wrote and the generation of its audit event only, the two things
a property still reads of it; no step reads anything of such a command.

## Runs

| Run | Shows | Bounds |
|---|---|---|
| `key_pool` | indexes describe states (IndexesDescribeStates, ReadOnlyChecksExact); identities are distinct; candidates are usable; last resort and stickiness; the pool implements `CredentialLifecycle` (KeepsPromise) | 3 credentials, batches of 2, clock 0..3: two deadlines can lie between two readings, and three slots give a scan with a gap |
| `credential_commands` | AppliesToStateSeen, UndisturbedCommandAtomic, DisabledHoldsInPool | 1 credential, 2 operators, 2 requests, queue of 1, 1 crash: two commands and two reports on one credential are the least that race three ways; a queue of one is full at once |
| `forwarding` | OneConservativeRetry, FailedCredentialAvoided, EveryRequestAnswered | 1 request, 2 channels of one provider with 2 and 1 credentials, a route that lists both in one priority tier and one of them again behind it, any weighted draw, 6 kinds of request, 3 profiles, pool contention, 2 operator commands: a fallback can lead to the other channel, or to the one that failed |
| `forwarding_pair` | PlanUniform, DisabledChannelHolds, OldFailuresIgnored | 2 interchangeable requests, 2 channels with a credential and a provider each, 1 operator command |
| `gates` | EveryOperationEnds, RequestsNeedNoStorage | 3 concurrent operations, one of them a request, 3 threads: a cycle of waits over three locks needs no more than three holders |
| `success_guard` | PrefixReplayedOnce, CleanEndIsWhole, WithheldFromClient, GuardAndStreamEnd | bodies of up to 6 bytes, cap 3, window 4, overlap 1: a chunk can end before, at and beyond the cap, a value can end under, at and beyond it, and a match can straddle chunks, cap and overlap; up to two blank lines, with a match before, across, between and behind them, in stretches the window holds and in ones it does not; a character that a release, or the end of the body, cuts |
| `event_log` | WindowPagesRecorded, IdsIncrease, UnbrokenLogReplays, ReplayHasAcknowledged | 4 appends, window of 2, 2 crashes, 1 replay: the window overflows, and a torn line can get a successor and a start after it |
| `client_tokens` | IdentitiesAgree, UndisturbedTokenServedAsStored, AcknowledgedScopeStored | 2 tokens, 2 hashes, 3 management clients with one command each, any statement failing, any number of crashes: two commands on one token and one on the other |
| `control_plane` | VersionsAgree, SyncKeepsRoutes, DisabledAsLogged, ImportedServed | 3 operators with one command each, 1 model, 2 channels, 2 secrets, 1 crash, 2 incomplete lines (`MaxTorn`): a reload, the command it races and one that comes after; an append that fails, the one that goes behind it and the one that makes the log unreadable |

Every run also checks its module's type invariant, except `forwarding_pair`,
which shares the module of `forwarding`, and `gates`.

FailedCredentialAvoided speaks of targets and not of channels. Nothing keeps a
route from listing one channel twice (`main.rs:19988`; `config.rs` 1123-1149 checks
each target alone), and the fallback to its second entry is a new target, which
selects afresh.

The code numbers of real deployments (queue 1024, 512 threads, any number of
credentials) only make the boundary cases rarer. Symmetry is used where no
liveness is checked. Deadlock is not checked where the system comes to rest once
its bounded work is done, or where an idle state is legal.

### Where documents and code disagree

Each of these three runs checks one sentence of a document, and TLC finds it
violated by the model of the code.

- `expired_until_restored` — "`Expired`: durably excluded until restored."
  (`docs/technical-design.md:205`). A request sent before the expiry reports a
  429 after it; `report_switchable_failure_until` refuses only disabled
  credentials, so the expired one cools down and then thaws.
- `disable_holds` — "management create/enable/disable/scope-update operations
  persist first, then update that registry" (`docs/architecture.md:206`). They
  do, but each on its own: a scope update that read its row before a disable may
  replace the registry entry after it, and the token authenticates again until
  the next command on it or the next start.
- `disable_served` — "A runtime health disable is an operational state transition
  used to remove a currently running channel from selection."
  (`docs/architecture.md:357`). A reload that read the log before the disable's
  event, or that replaced the runtime whose pool the disable had found, serves
  the channel as available after the disable was acknowledged; the log has it
  disabled, so that the next reload or start disables it.

Met while modelling, without a run of their own:

- "`Disabled`: manually excluded until explicitly enabled."
  (`docs/technical-design.md:207`): the expire and quota arms of
  `failure_state_executor.rs:46` enqueue the automatic state even if the pool
  refused it; after a restart the credential is expired or exhausted instead of
  disabled, and a restore admits it.
- "Rejected or idempotent commands do not enter the replay log."
  (`docs/architecture.md:169`): the event is appended (`management_commands.rs:818`)
  before the second check, which may refuse.
- "Management writes use a per-channel mutation gate to serialize precondition
  checks, durable persistence, audit event append, and state application"
  (`docs/architecture.md:169`): the store is written with no gate held, and
  concurrent commands and compensations can leave it at a state the pool does
  not have.
- "Route-target retry is controlled by the selected routing profile"
  (`docs/architecture.md:78`): a retry that finds its channel unavailable goes on
  to the next target under every profile (`proxy.rs:1541`).
- "Active channel cooldown is a timed exclusion [...] until the cooldown deadline
  elapses." (`docs/architecture.md:76`): a success of an older request ends it
  (`state.rs:1775`).
- "Management event append and durable lifecycle persistence must not hold
  proxy-path credential mutation or send gates" (`docs/performance-budget.md:31`):
  disabling and enabling a channel do, which is why RequestsNeedNoStorage
  excludes them.
- An append that goes behind a line torn by a crash or a full disk is
  acknowledged and cannot be read back: the two share a line that does not parse.
  UnbrokenLogReplays is therefore about logs without such a line.
- A channel command whose append failed at the newline
  (`management_resources.rs:228`, `events.rs:1083-1084`) is answered as failed
  and changes nothing that runs; but a replay takes the event, so that the next
  reload or start obeys it, unless an append behind it has made it unreadable by
  then. A channel command appended behind an incomplete line is acknowledged and
  serves as asked; but no replay has its event, so that the next reload or start
  undoes it. And once a line behind that is complete, no reload and no start
  succeeds. DisabledAsLogged leaves out the first two channels until the next
  reload or start, and speaks of logs that can be replayed.
- A lone disable whose UPDATE committed and whose SELECT of the row failed
  (`client_token_store.rs:200`, `management_client_tokens.rs:86-91`) is answered
  as failed; the table has the token disabled, and the registry serves it until
  the next command on it that is answered, or the next start.
  UndisturbedTokenServedAsStored leaves such a token out (`unread`) until then.
- "SSE-style streams are accumulated until an event boundary"
  (`docs/response-filter.md:81`): so are all others. A JSON or text body is split
  at each blank line (`upstream_response.rs:260`), and a match across one is
  delivered.
- "The filter releases a prefix and keeps a small overlap window for later
  chunk-spanning matches." (`docs/response-filter.md:82`): what is kept back is
  filtered with what comes later and not with what was released, so that a match
  across the cut is delivered. A character across it makes both units invalid
  UTF-8, which pass unfiltered (`upstream_response.rs:336`), a match well inside
  them included. WithheldFromClient says which matches are sure to be replaced.
- An import that a reload overtakes is in the store and not in the runtime that
  serves, and importing the keys again reports duplicates; the next reload serves
  them. ImportedServed excludes it.
- A staged write whose client went away commits without the mutation lock, and
  the audit event of the next write can name a version it does not get.
- A body stream that fails after a success was recorded carries the generation
  from before it, so it never degrades the channel although
  `docs/architecture.md:52` says a provider-unavailable failure does; a transport
  failure replaces an open failure domain by a degraded one; a channel whose
  credentials all cool down is planned in that tier even when its provider has
  opened as well.

## Fairness

`Forwarding`: weak fairness of each request's next step. The client has connect,
read and overall timeouts, and the locks a step needs are fair and, by `Gates`,
always given back. No fairness is assumed of clients, operators or clocks, so
EveryRequestAnswered holds although no cooldown ever ends.

`Gates`: weak fairness of each operation's next step, for the same reasons:
tokio's semaphores serve in order, a runnable task is run, and the upstream
either answers or times out. Storage has no timeout in the code, so it is
allowed to hang: EveryOperationEnds assumes it does not, RequestsNeedNoStorage
makes no such assumption but excludes the channel commands, which do wait for
storage under a gate.

`SuccessGuard`: weak fairness of `Begin` (the guard runs once the response is
there), of `Deadline` (tokio's timer fires) and of `Drain`, the steps the router
takes by itself while the client reads on. Nothing is assumed of the upstream: it
may stay silent after any byte, so GuardAndStreamEnd promises an end of the
guarding always, and an end of the stream only when the upstream has ended or
broken off.

The other modules are checked for safety only: a management command ends unless
storage hangs, which `Gates` covers, and nothing in them is retried.

## Proofs

`KeyPoolProofs` proves, for every capacity, credential set, batch size and clock
bound allowed by `PoolAssumption`:

- `IndexConsistency`: Spec => [](TypeOK /\ IndexesDescribeStates)
- `PoolTypes`: Spec => []TypeOK
- `ReadOnlyChecks`: Spec => []ReadOnlyChecksExact
- `DistinctIdentities`: Spec => []IdentitiesDistinct
- `StickySelection`: Spec => SelectionSticky
- `LastResort`: Spec => LastResortFindsCooling
- `RetryCandidates`: Spec => []CandidatesUsable
- `PoolKeepsPromise`: Spec => KeepsPromise

The inductive invariant is `IInv == TypeOK /\ IndexesDescribeStates`. Neither
half is inductive alone: a selection reads the index to choose its slot, so that
the slot is held follows only from what the index says, and the index is kept
right only if slots and times are in range. IndexesDescribeStates has to speak
of all three maps together: a slot is available, or has exactly one deadline,
filed in both directions, or is in none of them; the exactness of the read-only
checks is not inductive without the pairing of the two deadline maps. The lemmas
go from the three marks and the refresh (each keeps the indexes describing the
states once the state of its slot changes with it) to the operations, and from
there to `NextIInv`, with a step per action. DistinctIdentities needs, besides,
that a batch is admitted only without repetitions. The action properties follow
from IInv and the definition of the action: the cyclic scan returns a member of
the set it scans, and the current slot first (`NextFromInSet`, `MinIsLeast`).

RetryCandidates rests on the scan meeting each slot at a distance of its own
(`SortedSequences` then gives the list in that order), and on IInv for what is
available.

PoolKeepsPromise: under the mapping that gives each slot its phase and the pool
its current slot, initial states are initial and every step is a step of
`CredentialLifecycle` or a stutter. There is one lemma per operation. They share
three facts: the passing of time, which a refresh catches up with, does no more
than thaw slots (`LaterPhases`); after it the available set is the set of usable
credentials (`RefreshFindsUsable`, from IInv); and a scan that starts behind a
slot comes back to it only for lack of another (`ScanReturns`), so that a failure
moves the pool off a credential whenever there is another.

`ForwardingProofs` proves, for every route, credential set, domain, context,
profile and number of requests:

- `SingleRetry`: Spec => []OneConservativeRetry
- `StaleReportsIgnored`: Spec => OldFailuresIgnored
- `DisabledStays`: Spec => DisabledChannelHolds
- `ForwardingTypes`: Spec => []TypeOK
- `FailedStaysAway`: Spec => []FailedCredentialAvoided
- `OneCategory`: Spec => []PlanUniform

The invariant `FInv` says of each request what it has sent at its stage
(`Attempts`) and what it knows of its channel (`Outdated`). OneConservativeRetry is
not inductive: that a request in flight has sent once or twice says nothing about
whether it may send again. What decides is the attempt number, which is 1 before
every second send, and 0 after the first one only; a target that is passed over
without a send also takes the number to 1, so that sends and attempts are not the
same. OldFailuresIgnored follows because a command gives its channel a generation
no request in flight has seen (`CommandKeeps`) and generations only grow
(`Onward`). For these three, which targets a plan holds plays no part.

For the others it does, and `TInv`, proved on top of `FInv`, says so. A plan is
sound: its targets name known channels and were all in the state of one
admission tier (`SoundPlan`), which sorting by priority, rotating to the drawn
target and cutting at the limit keep (`PlansSound`). And a request remembers
its first send: while that is in flight it is what the request is at
(`AtFirst`), and between two sends its target is not ahead, and after a failure
of the credential at the same target another credential is in hand
(`Retrying`). FailedCredentialAvoided alone is not inductive, since it only
speaks of requests that have sent twice.

`ClientTokensProofs` proves, for every set of tokens, secrets, scopes and
operators and every configured table allowed by `TokensAssumption`:

- `TokenTypes`: Spec => []TypeOK
- `SecretsIdentify`: Spec => []IdentitiesAgree
- `ServedAsStored`: Spec => []UndisturbedTokenServedAsStored
- `ScopesStay`: Spec => []AcknowledgedScopeStored

The inductive invariant `Inv` adds to the shape of the state what each command
has established at its stage (`Works`): the token of an update is in the table,
and the row of a command about to replace the registry entry has the hash that
the table has for its token. IdentitiesAgree alone is not inductive, because the
registry takes rows that were read any number of steps ago; it holds because no
statement ever changes the hash of a row or removes one. `OthersWork` says that
this is all the other commands rely on, `TableStep` and `CommandStep` reduce every
step to it, and `NextInv` has one lemma per action.

ServedAsStored needs `UInv`: on an undisturbed token at most one command works,
and while it does, row, table and registry are equal or about to be (`Serves`);
an update that committed and was not read back takes the token out (`unread`),
and the replacement that brings it back puts the row of the table in.
ScopesStay needs `SInv`: between the statement and the answer of a scope update
that is the only one of its token, the table has its columns (`HasScope`), since
enabling and disabling write another column.

`CredentialCommandsProofs` proves, for every set of credentials, operators and
requests, every queue capacity and number of crashes allowed by
`CommandAssumption` (there is a credential, and no operator is called "no one"):

- `CommandTypes`: Spec => []TypeOK
- `AppliesUnchanged`: Spec => AppliesToStateSeen
- `AtomicWhenUndisturbed`: Spec => []UndisturbedCommandAtomic
- `DisabledStays`: Spec => DisabledHoldsInPool

The recheck before a command applies compares a generation, which counts changes
of a state's kind, and the state itself. Either alone can miss a change: a
cooldown that ends, and a second automatic failure with another reason, leave the
generation alone, and a state can be left and come back. The argument is that a
change without a new generation, a `Drift`, never leads back, and that two drifts
in a row do not happen (`DriftsOnce`). `SeenOK` says what this means for a command
under way: undisturbed, it still sees its state; disturbed without a new
generation, the state differs by one drift. `AtomicOK` says what store and pool
hold at each stage of a command nobody disturbed; UndisturbedCommandAtomic speaks
of two of these stages only and is not inductive. `Moves` is all a step may do to
the pool, so that each step of somebody else keeps both (`OthersSeen`,
`OthersAtomic`), and a step of the command itself has a lemma each.

`SuccessGuardProofs` proves, for every body, cap, window, overlap and way of
cutting into chunks allowed by `BodiesAssumption` and `BoundsAssumption`:

- `BytesInOrder`: Spec => []PrefixReplayedOnce
- `CleanEnds`: Spec => []CleanEndIsWhole
- `EnvelopeWithheld`: a response whose peeked prefix holds a complete error
  envelope is not handed to the client.
- `GuardTypes`: Spec => []TypeOK
- `NothingLeaks`: Spec => []WithheldFromClient

The inductive invariant has four parts: the shape of the state, `Accounted` (how
many bytes were peeked and pulled adds up to what was sent), `InOrder` (what was
delivered, what the filter holds, the prefix and what was put back are, in this
order, the bytes sent) and `Ending` (what prefix and body allow at each phase).
EnvelopeWithheld is the half of WithheldFromClient that is about the guard. The
other half needs `Screen`: the bytes the filter holds, the prefix and what was
put back are numbered one behind the other from the last byte let through
(`Consecutive`), so that both bytes of a match get out only if a unit ended
between them, or held both and was not text. `UnitKinds` says where units end:
with a blank line, and with the first one held; at a full window without one; or
with the stream. The first puts a blank line in the match, the second means that
the bytes between the blank lines around the match fill the window
(`WindowFills`), and these stay facts about the body as more of it arrives
(`FillsStays`); `Excused` collects them. A unit that is not text was cut inside
the character, where it ends or, before, where it begins (`CharacterCut`), which
is why Screen keeps what the earlier cut meant. It is assumed that the character
is no part of a blank line (`BodiesAssumption`).

`ControlPlaneProofs` proves, for every set of models, channels, secrets and
operators, and any number of crashes and of incomplete lines, provided that no
operator is called "free" (`ControlPlaneAssumption`):

- `VersionsHold`: Spec => []VersionsAgree
- `SynchronisationKeepsRoutes`: Spec => SyncKeepsRoutes
- `LogIsServed`: Spec => []DisabledAsLogged
- `ImportsAreServed`: Spec => []ImportedServed
- `ControlTypes`: Spec => []TypeOK

The inductive invariant `CInv` has, beside the shape of the state, that the lock is
with whoever is in a critical section and attached (`Exclusive`, `Holder`), that
the version checked under the lock stays the present one (`Current`), what a
reload has compiled (`Compiled`), what an audit event names (`Named`), and that
what a synchronisation read is the present document or its version is an old one
(`Fresh`). The last needs no lock, since the version is read before the
document: this is why SyncKeepsRoutes holds even when a write outlives its handler,
and VersionsAgree does not. `OthersSound` shows what a step leaves to all other
commands: a write means that nobody else is in a critical section, or that a
write was left behind. `StepKeeps` reduces each action to its own command.

LogIsServed and ImportsAreServed need a second invariant, `PInv`, on top of
`CInv`. Of channels: one command at a time is past the gate of a channel of a pool
(`Gated`), and unless something raced, the pool that serves agrees with the replay
of the log or a command is about to make it agree (`Switched`), as long as there
is a replay. What an append, whole or cut short, leaves of the replay is one lemma
(`ReplayedAfter`): it changes only for the channel of the event, or for those that
are `Misreported`. Of imports: unless something
raced, what is stored and not yet served is in the hands of an import that adds
to the pool that serves (`Imported`). The type invariant of `ControlPlane` speaks
of the runtime a command found only while that command is under way: the ones
before a restart are gone.

`EventLogProofs` proves, for every window, number of appends and number of
crashes (`LogAssumption`: they are natural numbers):

- `EventLogTypes`: Spec => []TypeOK
- `WindowIsOfTheRecord`: Spec => []WindowPagesRecorded
- `IdsTellTheOrder`: Spec => []IdsIncrease
- `UnbrokenIsReadBack`: Spec => []UnbrokenLogReplays
- `ReplaysKeepAcknowledged`: Spec => []ReplayHasAcknowledged

None of these is inductive but the first. The inductive invariant `LInv` has a
part for each reading of the log. `Writing`: what the append under way has
written is the last fragment of the file. `Numbered`: whatever a reader can get
out of the file has an id the counter has passed, and one below that of the
append under way; this, and not the record, is what a restart continues from.
`Windowed`: the window is the end of the record. `Kept`: as long as each line has
one document, the lines ended are the acknowledged events, one for one. `Reads`:
what a replay has collected reads as the file it saw last, or is refused
(`Follows`); a document that was cut in two by the end of the file gives two
unparsable parts, the first of which is no longer in the last place. That a
refused reading stays refused (`RefusedForGood`) is why no event is read twice.
The lemmas follow a write through the file (`FileBehind`, `FileCompleted`,
`FileEnded`), the events of two lists of lines joined (`EventsConcat`), and the
window through a push (`PushKeepsLast`) to the page (`PageOfWindow`).

`SortedSequences` proves that a finite set with a strict total order can be
listed in that order (`SortedExists`) in one way only (`SortedUnique`). An
element's place is the number of elements before it, plus one; these ranks are an
injection into the places, and so reach every one. It is what the theorems on
plans, retry candidates and the events of a file rest on, where the definitions
choose the list.

Only model-checked: what must eventually happen, EveryRequestAnswered of
`Forwarding`, EveryOperationEnds and RequestsNeedNoStorage of `Gates`,
GuardAndStreamEnd of `SuccessGuard`. Liveness under fairness and ENABLED are
beyond the prover. Every invariant and every action property of a passing run is
a theorem. The three runs that refute a document stay as they are: a
counterexample needs no proof.

## Not modelled

- A client that disconnects, which cancels the handler at any await.
- More concurrent commands than blocking threads. A channel command that holds a
  gate then waits for a thread while all threads wait for that gate; the runtime
  has 512 threads and nothing limits commands. `MCGates` has one for each.
- The read-only credential store, in which every lifecycle command is rejected,
  and startup replay of events, which is its substitute for snapshots.
- Durations: a cooldown has ended or not. A Retry-After that overflows the
  addition of `routing.rs:293` is therefore not seen.
- Sharing of one credential set by several channels in `Forwarding`, and between
  `KeyPool` and `CredentialCommands`, which see the pool at two levels.
- Of the response stream: rules that require a text, statuses without a body,
  texts that are not UTF-8 but for one character that is cut, and how JSON and
  event lines are parsed.
- Requests across a reload: a request keeps the plan and the pools of the runtime
  it was planned on, commits there and reports there. `Forwarding` is therefore
  one runtime, and `ControlPlane` has no requests; that an automatic expiry
  reported to a replaced pool reaches the new one only through the store is not
  in either.
- Import batches, counts and lineage, probe evidence and the check of the
  evidence before it is applied: records that no later decision of the service
  reads, except that last check, which is followed by an ordinary command.
- `main.rs`, `cli*.rs` and `cli_commands/`, about half of the lines of the
  source: tests of the whole service and a client that renders its reports. So
  are most lines of the other large files (`state.rs`, `config.rs`,
  `registry_store.rs`, `credential_repository.rs`, `management_routing.rs`):
  tests, parsing and projections without a state to model. What is modelled is
  small in lines because the concurrent and the fallible core of this program is.

## Plan

1. Proofs: that the waits of `Gates` never close a cycle (an order of the
   resources each operation respects), which is the safety half of
   EveryOperationEnds.
2. An abstract log (a sequence of acknowledged events) as the refinement target
   of `EventLog` where no line is torn.
3. `Forwarding` across two runtimes, with the reload of `ControlPlane` as an action.
4. `Gates` with cancelled handlers.
