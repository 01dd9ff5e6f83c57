# TLA+ models of magnitude

This directory holds TLA+ models of the parts of the magnitude repository that
have state, concurrency or failure handling worth model checking, the TLC
configurations that check them, and `PROJECT.json`, which records the
components, the runs, the mutants, the mapping from definitions to source lines,
the findings and the hazards.

## 1. Inventory of the system

| Component | Source | State | Operations | Interactions |
|---|---|---|---|---|
| **TunnelManager** (socket pool + request router) | `magnitude-remote/src/server/tunnel.ts` | `sockets` (id → web socket, insertion ordered), `activeRequests` (socket → request id or null), `pendingRequests` (request id → resolve/reject), `socketWaitQueue` (FIFO of resolvers), `expectedSockets` | `registerSocket`, `handleRequest` → `waitForResponse` → `acquireTunnelSocket` / `releaseTunnelSocket`, `handleWebSocketMessage`, `waitUntilReady` (empty) | Called by the HTTP server (requests), the tunnel handshake layer (registration) and the web-socket dispatcher (frames). Talks to the remote tunnel client over the sockets. Many requests interleave at every `await`. |
| Test worker registry | `magnitude-test/src/worker/localTestRegistry.ts` | `testFunctions` (id → function), `currentGroup` | `registerTest`, `setCurrentGroup`, `currentGroupOptions`, the `execute` message handler | Runs in a worker thread. It receives `execute` from the parent and posts `registered`, `test_state_change`, `test_result` and `test_error` back. It drives a `TestCaseAgent` (start, run, stop) and sends telemetry. |
| Claude Code OAuth credentials | `create-magnitude-app/src/claudeCode.ts` | credentials file (`access_token`, `refresh_token`, `expires_at`) | `getValidClaudeCodeAccessToken` (load, expiry check, refresh, save), `completeClaudeCodeAuthFlow`, PKCE helpers | Calls the OAuth token endpoint. Concurrent callers share the credentials file. |
| magnitude CLI | `magnitude-test/src/runner/cli.ts` (and the older `testRunner/cli.ts`) | none beyond one invocation | option parsing, worker-count validation, API-key precedence, local/remote runner choice, `init` | Builds a runner outside `src/`, loads test files and exits with the result. |
| TestCompiler | `magnitude-test/src/compiler/index.ts` | cache directory | `compileFile` | esbuild, file system |
| MCP tool handlers | `magnitude-mcp/src/tools.ts` (`handlers/project.ts` holds an older `initializeProject` that nothing imports) | none | `initializeProject`, `runTests`, `buildTests` | spawn `npm`/`npx`, fetch docs |
| Event interfaces, Magnus, loggers, rendering | `magnitude-core/...` | none | types, commented-out code, pino setup, a mode switch | — |

### What is hard

The **TunnelManager** is the heart of the repository, and it is the one part
whose correctness depends on interleavings. Each inbound request is an async
task with three suspension points: `await acquireTunnelSocket()`,
`await responsePromise`, and `await req.text()` before them. While one task is
suspended, other requests, socket registrations and reply frames run.
Replies carry no request id. A reply is routed only by `activeRequests[socket]`,
so the whole design rests on *one request per socket at a time*. The code checks
a socket for idleness in one step and marks it busy in a later step, after an
`await`. It hands a released socket to a waiter whose continuation runs later
still. Whether this is safe depends on how the JavaScript runtime orders
continuations. Failures are hard too: there is no timeout, a malformed frame
throws without settling anything, and the pending table is never cleaned.

The **test worker** has a nested try/catch. Several of its awaited calls
(`agent.start`, `testFn`, `agent.stop`, `sendTelemetry`) can fail, and the
messages the parent sees depend on which call fails. The **OAuth credentials**
code does a check-then-refresh-then-save over a shared file, and concurrent
callers can refresh twice with the same refresh token.

### What makes each component correct

* TunnelManager: at most one request in flight per socket; every caller gets
  the peer's answer to its own request; FIFO among waiters; registration stops
  at `expectedSockets`; every request is eventually answered; settled ids
  leave the pending table (spec sections 4 and 8).
* Test worker: exactly one terminal message (`test_result` or `test_error`)
  per `execute`; a started agent is stopped; the final state sent matches the
  result.
* OAuth credentials: a returned token is one the server issued and has not
  revoked; a refresh token is used at most once; the saved file holds the
  latest pair.
* CLI: the worker count passed to the runner is a positive integer, as the
  message "Using default of 1" promises; the API key follows the documented
  precedence.

## 2. Modules and status

| Module | Models | Status |
|---|---|---|
| `Tunnel`, `SocketLease`, `MCTunnel` | TunnelManager. The event loop is a constant. `SocketLease` is the abstract atomic FIFO lease that `Tunnel` refines. | modelled |
| `TestWorker`, `MCTestWorker` | registerTest, setCurrentGroup, and the `execute` handler, split at its awaits | modelled |
| `ClaudeCodeAuth`, `MCClaudeCodeAuth` | getValidClaudeCodeAccessToken and completeClaudeCodeAuthFlow for concurrent callers, with a clock and a rotating OAuth server | modelled |
| `RunnerCli`, `MCRunnerCli` | the `magnitude` command in both programs (`runner/cli.ts` and the legacy `testRunner/cli.ts`), its run and `init` commands, and the three MCP tools (`runTests`, `initializeProject`, `buildTests`) | modelled |

Each run asks a separate question. Some cases are not given a run of their
own. They are recorded in `PROJECT.json` as hazards, each with the
configuration change that shows it.

## 3. The Tunnel model

### State

| Variable | Code |
|---|---|
| `sockets` | `Object.keys(this.sockets)` in insertion order. Order matters: `find` returns the first idle socket. |
| `activeRequests` | `this.activeRequests`; `NoRequest` stands for `undefined`/`null` |
| `pendingRequests` | the keys of `this.pendingRequests` |
| `socketWaitQueue` | `this.socketWaitQueue`, one entry per waiting request's resolver |
| `phase[r]`, `held[r]` | where request r's async task is suspended, and its local `tunnelSocketId` |
| `response[r]` | the value r's `responsePromise` was resolved with, abstracted to *the request the peer was answering* |
| `toPeer[s]`, `fromPeer[s]` | frames in flight on web socket s. Each direction is an ordered reliable channel, as a WebSocket is. |
| `arrival` | history variable: the order in which `handleRequest` ran, used by `FifoFairness` |
| `closed` | registered sockets whose web socket has closed (the close handler is outside `src/`, and nothing in `tunnel.ts` deregisters a socket) |

### Actions

| Action | Code |
|---|---|
| `RegisterSocket(s)` | `registerSocket` (lines 47–54). The capacity check comes first, even for a known id. A known id keeps its key position and gets the new open connection. The throwing branch changes nothing. |
| `CloseSocket(s)` | the environment: an open socket closes and the frames in flight on it are lost (`SocketsClose`) |
| `HandleRequest(r)` = `WaitForResponse(r)` = `AcquireTunnelSocket(r)` | `handleRequest` → `waitForResponse` up to `await acquireTunnelSocket()`: register the pending request, then queue or pick the first idle socket (lines 56–67, 84–108, 119–137). The found id is tested for truthiness (line 98), so an id equal to `EmptyId` (`""`) counts as none found. |
| `Claim(r)` | the continuation after that await: set `activeRequests`, send the frame (lines 69–75). A send on a closed `ServerWebSocket` drops the frame and does not throw. |
| `PeerServe(s)` / `PeerGarble(s)` | the remote tunnel client answers the oldest frame, or sends a Buffer frame in its place |
| `HandleWebSocketMessage(s)` | lines 148–170. A Buffer frame throws. A frame on a socket without an active request throws (`pendingRequests[null]` is undefined). Otherwise the frame resolves `activeRequests[s]`'s promise, which has no effect if the promise has already settled. |
| `Resume(r)` + `ReleaseTunnelSocket` | the continuation after `await responsePromise`: clear `activeRequests`, release (hand the socket to the head waiter, whose own continuation runs later), return (lines 75–81, 110–116) |

### Scheduling and fairness

`Scheduling = "drain"` is the JavaScript event loop. A new event, such as an
HTTP request, a reply frame or a registration, is dispatched only when no
continuation is waiting in the microtask queue. `Scheduling = "interleave"` is
the cooperative model the spec describes (section 5): any step may run while a
task is suspended.

The liveness run assumes weak fairness of:

* the continuations (the runtime always runs queued microtasks);
* frame dispatch (a frame that has arrived is handled);
* the peer (it answers every frame it receives; the code has no timeout, so
  this is the only way a request can finish).

New requests and registrations come from outside and are not forced.

`ReadyGate = TRUE` models traffic that starts only after `expectedSockets`
sockets have registered. This is the contract that `waitUntilReady` is meant
to provide, but the code leaves it as an empty stub.

### Runs

| Run | Config | Expect | What it shows |
|---|---|---|---|
| `tunnel_safety` | `MCTunnel_safety.cfg`: 4 requests, 3 socket ids, `expectedSockets = 2`, drain, registration interleaved with traffic, garbling peer, sockets closing and re-registering | pass (8843 states) | `ExclusiveSocket`, `ResponseCorrelation`, `FifoFairness` and `TypeOK` (including the capacity bound) hold, and `ImplementsSocketLease` holds: the broker refines the atomic FIFO lease. |
| `tunnel_liveness` | 3 requests, sockets registered first, drain, honest peer, fairness | pass | `EventuallyServed`: every request is answered. |
| `tunnel_interleave_double_claim` | interleave | violation | `ExclusiveSocket` fails. Two requests each find s1 idle before either marks it busy. |
| `tunnel_stall_before_ready` | no ready gate | violation | `EventuallyServed` fails. Requests queued before the first registration are never woken. |
| `tunnel_socket_close` | the liveness configuration with `SocketsClose = TRUE` | violation | `EventuallyServed` fails. A closed socket stays registered and is acquired again. The send drops the frame, and with no timeout the request waits for ever. The pool is full, so the peer cannot register again. |

One more violation of `EventuallyServed` needs a one-line change to
`MCTunnel_liveness.cfg`, and is listed as a hazard rather than a run:
`PeerGarbles = TRUE`. A Buffer frame throws without failing its request.

With `SocketIds = {sEmpty, s2}`, the truthiness test at line 98 skips a
socket registered under `""`. This is not listed as a hazard: the handshake
layer that picks socket ids is outside `src/`, and nothing shows that it ever
picks `""`.

The pending-request table is never cleaned (line 60). The model keeps it as a
set, so settled ids stay in `pendingRequests`.

**Bounds.** Four requests on two sockets are enough to cover every case:

* the queue reaches two waiters;
* a socket is handed off twice in a row;
* a third socket id exercises the refused registration;
* requests arrive before, between and after registrations;
* a socket closes while a request is in flight on it, and is re-registered
  below the capacity.

The free-interleaving violation needs only two requests. Request ids are
symmetric in the safety runs. Socket ids are not symmetric, because
registration order decides which idle socket `find` returns. Liveness runs use
no symmetry.

**Mutants.** Every passing property is broken by a plausible code change, under
its own run's configuration:

* dropping the capacity check breaks `TypeOK`;
* dropping the `!activeRequests[id]` test breaks `ExclusiveSocket`;
* forgetting `await responsePromise` breaks `ResponseCorrelation`;
* dropping the "queue non-empty" branch breaks `FifoFairness`;
* `pop` instead of `shift` breaks `ImplementsSocketLease`;
* a release that never hands off breaks `EventuallyServed`.

### Findings

1. The code is free of double assignment only because the runtime drains
   microtasks before it dispatches the next event. Under the scheduling model
   the spec states, the check-then-claim across `await` (line 67) and the
   idle window of a handed-off socket (lines 77 and 114) let two requests share
   a socket. The reply is then delivered to the wrong caller.
2. `registerSocket` never serves queued waiters, so early traffic stalls the
   tunnel for ever (line 53). `waitUntilReady` is a stub (line 43).
3. A closed socket is never removed from the pool (line 73). A request sent on
   it hangs, because `await responsePromise` (line 75) has no timeout. Spec
   section 6 asks for the request to fail and for the socket to be unusable
   until it registers again. Once `expectedSockets` ids are registered, the
   capacity check (line 49) refuses that registration.
4. Hazards without a run: a malformed frame throws without rejecting the
   pending request (lines 153 and 156); `pendingRequests` is never cleaned
   (line 60); an empty socket id is never used (line 98).

## 4. The TestWorker model

The worker's `execute` handler is an async function. Each `execute` message
starts a task, and the tasks of two messages interleave at the awaits
(`agent.start`, `testFn`, `agent.stop`, `sendTelemetry`). Each awaited call
settles in an order the I/O decides. The model keeps one `pc` per execute
message. `MayFail` names the calls that may throw or reject.

| Variable | Code |
|---|---|
| `testFunctions` | the ids in the `testFunctions` map (line 16) |
| `currentGroup` | `currentGroup` (line 32) |
| `pc[e]`, `target[e]`, `telemetry[e]` | where the task of message e is suspended, and its `test.id` and `telemetry` fields |
| `status[e]`, `changes[e]` | `finalState.status`; the tracker state changes posted so far (bounded by `MaxStateChanges`) |
| `toParent` | the messages posted to the parent, in order. Each carries a history field `exec` naming its execute message. |

| Action | Code |
|---|---|
| `RegisterTest(id)` / `SetCurrentGroup(g)` | lines 17–35 |
| `Execute(e, id, tel)` | lines 40–79: the lookup (not found → `test_error`), the setup (a throw → outer catch), up to `await agent.start()` |
| `StartSettles(e)` | line 80 settles or rejects |
| `TrackerStateChanged(e)` | the `stateChanged` listener (lines 72–78) |
| `TestFnSettles(e)` | lines 82–107: the inner try/catch sets `finalState`/`finalResult`, then `agent.stop()` is called |
| `StopSettles(e)` | lines 109–117: post the final state, then await telemetry, or post the result at once |
| `TelemetrySettles(e)` | lines 117–124, or the outer catch (125–131) when telemetry rejects |

**Fairness.** `FairSpec` assumes each awaited call eventually settles (weak
fairness per execute message). The code has no timeout, so this is an
assumption about the agent and the telemetry endpoint.

| Run | Config | Expect | What it shows |
|---|---|---|---|
| `worker_report` | `MCTestWorker_report.cfg`: 2 execute messages, 1 test id, setup/start/testFn/stop may fail, fairness | pass (45134 states) | `ReportConsistent`: per execute message, running states come first, then at most one final state, then one terminal message, and a final state is followed by a `test_result` that agrees with it. `EveryExecuteAnswered`: every execute gets a terminal message. |
| `worker_telemetry_failure` | 2 ids, telemetry may fail too | violation | `ReportConsistent` fails. After the final state "passed", `sendTelemetry` rejects, and the outer catch posts `test_error`. |

One test id is enough. An execute that arrives before registration takes the
not-found path, and one that arrives after runs the full handler. The
messages of the two executions are told apart by their `exec` field.

Mutants:

* posting the result before the final state breaks `ReportConsistent`;
* a silent return on an unknown id breaks `EveryExecuteAnswered`;
* a catch that never assigns `finalState` breaks `TypeOK`.

**Finding.** A failure to send telemetry is reported as a failure of the
test. When `sendTelemetry` (line 117) rejects, the outer catch (line 125)
posts `test_error` after the final state "passed" has already been posted,
and no `test_result` is sent.

## 5. The ClaudeCodeAuth model

Several processes of one user may run `completeClaudeCodeAuthFlow` at once.
They share `~/.magnitude/credentials/claudeCode.json`, and nothing locks it.
A token pair is a number, in the order the server issued it. The server
rotates refresh tokens: a refresh spends the token it is given.

| Variable | Code |
|---|---|
| `now` | `Date.now()`, a clock bounded by `MaxTime`. `Buffer` stands for the 60000 ms margin. |
| `issued`, `expiresAt`, `spent`, `from` | the server: pairs issued, their `expires_at`, refresh tokens it no longer accepts, and the pair each was refreshed from (a history field) |
| `file` | the file: a pair, `Missing`, or `Partial` (truncated by `writeFile`, not yet written) |
| `pc[c]`, `pair[c]`, `mode[c]`, `result[c]` | caller c: where it is, the pair it holds, whose `saveCredentials` it is in, and the token it returned |

| Action | Code |
|---|---|
| `Load(c)` | `loadCredentials` and the expiry check (lines 114–131). A missing or unparsable file returns null, and the flow goes on to the login. |
| `Refresh(c)` | `refreshAccessToken` (lines 84–106). A refused token is handled by the catch (137–138). |
| `Login(c)` | lines 168–201: paste a code or cancel, then the exchange |
| `ExchangeCodeForTokens(c)` (part of `Login`) | lines 51–81: a fresh pair, or a refused code that throws |
| `SaveBegin(c)` / `SaveEnd(c)` | `saveCredentials` (108–112), split at `writeFile`. A throw goes to `SaveFailed`: the refresh path returns null and goes on to the login, and the login path fails. |
| `Tick` | time passing |

| Run | Config | Expect | What it shows |
|---|---|---|---|
| `auth_safety` | `MCClaudeCodeAuth_safety.cfg`: 2 callers, lifetime 2, buffer 1, 4 pairs, no faults | pass | `StoredPairLive`: a spent refresh token sits in the file only while a refreshing caller holds the pair rotated from it and is about to save it. |
| `auth_save_failure` | fault `save` | violation | `StoredPairLive` fails. A refresh rotates the token, then `saveCredentials` throws. The catch discards the new pair, and the file keeps the spent refresh token, so every later run needs the browser. |
| `auth_concurrent_refresh` | no faults | violation | `NoNeedlessLogin` fails. Both callers load pair 1 and both refresh. The second is refused and opens the browser login, although the file holds the first caller's fresh pair. |

Mutants:

* returning the new pair without saving breaks `StoredPairLive`;
* dropping the `!response.ok` check breaks `TypeOK`.

Two callers with four pairs cover a refresh, a concurrent refresh, a login and
one more refresh. A lifetime of 2 ticks against a buffer of 1 makes a token
fresh, then expiring, within `MaxTime`. Caller ids are symmetric. The runs
check safety only, with `CHECK_DEADLOCK FALSE`: every caller finishes, and the
clock stops at its bound.

## 6. The RunnerCli model

This module models one invocation of `magnitude`. Two programs implement the
command: `runner/cli.ts`, and the older `testRunner/cli.ts`
(`program = "legacy"`). There are three ways to start it:

* A user runs either program.
* The MCP `runTests` tool (`magnitude-mcp/src/tools.ts`) builds a command line
  for the current program.
* The MCP `initializeProject` tool installs the package and then runs
  `magnitude init`.

The third MCP tool, `buildTests`, does not run the CLI. It fetches the
documentation page and cuts one section out of it. It is an action of the
same module because it shares the MCP reply.

How the data is modelled:

* **Strings.** The `-w` argument and the paths are sequences of
  one-character strings, because the properties look into them.
* **Conversions.** `parseInt`, `Number.prototype.toString`, `startsWith` and
  `path.relative` are modelled by what they do: `ParseInt`, `NumberToString`,
  `PathString` with `IsPrefix`, and `Relative`.
* **Directories.** The file system is a set `Dirs` of working directories
  (paths), the subset `pkgDirs` of them that hold a `package.json`, and a
  `disk` that records which of the config and example files each directory's
  `tests/magnitude` holds.

| Action or definition | Code |
|---|---|
| `Invoke` | commander's options (`runner/cli.ts` 119–129). For the legacy program, `LegacyOptions` (`testRunner/cli.ts` 238–249): the declaration `.option('-l', '--local', …)` never sets `options.local`. The MCP branch is `runTests` (tools.ts 39–54, `McpWorkersArg`). |
| `Discover` | `runner/cli.ts` 156–169: only the results of `discovery/util`, which is outside `src/`. For the legacy program, `LegacyProjectRoot` (271–284): `findProjectRoot() ?? cwd`. |
| `FindProjectRoot` | the legacy `findProjectRoot` (19–46). It is recursive over the parent directories and stops before the filesystem root. |
| `BuildRunner` | the worker count (148–154), API-key precedence (185, 197) and runner choice (171–205). A missing key exits 1. The legacy program always builds a local `TestRunner` (`LegacyRunner`, 286–292). |
| `LoadTestFile` / `RunTests` | lines 214–233, with their exit codes. The legacy program has the same loop (298–310). |
| `InitCommand`, `InitMkdir`, `InitWriteConfig`, `InitWriteExample` | `initializeProject` (68–114), one action per await. The current program inits the working directory if it holds a `package.json`. The legacy program inits the nearest directory above it that holds one (`LegacyInitDir`, 193–200). A throw exits 1, and a failed `writeFile` may already have created its file. |
| `McpInitializeProject` | tools.ts 10–31: `npm install` (a failure is the error reply), then `magnitude init`. |
| `McpBuildTests`, `TestCasesSection` | tools.ts 94–147 (the slicing at 108–119): a failed fetch or a response that is not ok is the error reply. Otherwise the reply carries the section from `## Test Cases` (searched from `# Building Test Cases`) to the migration example heading, trimmed. `IndexOf`, `Substring` and `Trim` are JavaScript's `indexOf` (from a clamped start, −1 when absent), `substring` (clamped bounds, swapped when reversed) and `trim`. The three headings are shortened to `#b`, `##t` and `###e`. This keeps the fact that none of them occurs inside another at the same index. The fixed introduction and closing notes are left out. |
| `McpRespond` | tools.ts 56–87: the reply built from the exit code. `executeCliCommand` is outside `src/`. It is taken to reject on a non-zero exit, as the comment at line 73 says. |

| Run | Config | Expect | What it shows |
|---|---|---|---|
| `cli_commands` | `MCRunnerCli_mcp.cfg`. Either program. `-w` strings of up to 2 characters. runTests workers −1, 0, 1, 2, 2.5, NaN and undefined. Working directories `/a` and `/a/b`, any placement of `package.json`, every earlier disk state, and I/O faults. | pass (2.87M states, 20 s) | `McpWorkerCount`: runTests gets the worker count it asked for when that is a positive integer, and 1 otherwise. `InitOutcome`: `init` exits 0 only when its directory holds both files. `McpReplyTruthful`: an MCP tool replies success only when the CLI did what was asked. buildTests runs over pages that are every arrangement of up to four pieces: the three headings, a `### Test Cases`-like subheading, a space and other text. No property is stated about its reply (see the hazards below). |
| `cli_worker_count` | user invocations | violation | `WorkerCountPositive` fails. `-w 0` prints "Using default of 1", but the runner gets 0 workers (and NaN for `-w a`). |

Mutants:

* dropping `workers > 0` in runTests breaks `McpWorkerCount`;
* no `process.exit(1)` after "Missing API key!" breaks `TypeOK`;
* a catch in `init` that does not exit 1 breaks `InitOutcome`;
* a reply that ignores the exit code breaks `McpReplyTruthful`.

Hazards without a run:

* `getRelativePath` tests `startsWith` on strings. With root `/a`, the file
  `/ab/t` is shown as `../ab/t`, against the comments at lines 33–35. The
  legacy copy (102–114) has the same code.
* A failed example write leaves the config behind, and every later `init`
  refuses with "Already initialized".
* The legacy `findProjectRoot` never looks at the filesystem root, so a
  project at `/` is not found. `MCDirs` leaves out `/`.
* On a page without `## Test Cases` or without the example heading,
  `indexOf` returns −1. `substring` then clamps or swaps its bounds. The
  reply carries the text before the heading, or the page from its start,
  as if it were the section (line 119).
* `indexOf("## Test Cases")` also matches inside a `### Test Cases`
  subheading (line 109). A subsection of that name before the real heading
  starts the reply in the middle of the subheading.

No property states what `buildTests` replies. On a well-formed page, the
model can only check that the reply runs from some `## Test Cases` match to
the example heading. That match may be inside a subheading. On other pages,
the code's reply is wrong in the two ways above. Each would need a run of
its own, and the legacy `findProjectRoot` likewise has no property: the only
place it departs from "the nearest directory with a `package.json`" is the
filesystem root, which the checked directories leave out.

## 7. What is not modelled

* Request and response contents: serialisation, headers and bodies. They are
  data. The properties only need to know which request a frame answers.
* The HTTP server, the tunnel handshake layer and the socket close handler
  live outside `src/`. Closing is an environment event (`CloseSocket`).
* The internals of the test agent, browser and LLM: they appear only as the
  outcome of each awaited call in `TestWorker`.
* PKCE generation, the authorisation URL and `openUrl` in `claudeCode.ts`:
  pure functions and a process spawn with no state the properties tell apart.
* `discovery/util` (`isProjectRoot`, `findProjectRoot`, `discoverTestFiles`,
  `readConfig`) is outside `src/`, and only its results are modelled. The
  same goes for the legacy program's glob, `findConfig` and `readConfig`.
* TestCompiler: one esbuild call into a cache directory in `os.tmpdir()`,
  shared by every process on the machine. The model is one invocation, and
  the config that the legacy `readConfig` compiles feeds only registry
  options that no property observes. Two concurrent runs of different
  projects write the same `magnitude.config.mjs`. This is listed as a hazard.
* The loggers, the type-only event interfaces and the commented-out Magnus:
  pure I/O, or no behaviour (see `PROJECT.json`).
