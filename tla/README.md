# Pricewise: a TLA+ verification project

Pricewise proposes prices for a retailer's products with a pipeline of five
agents, lets analysts approve, reject, modify and undo the proposals, and
pushes the approved prices to a storefront.  This directory holds TLA+ models
of that system, the TLC configurations that check them on small instances, and
proofs, checked by TLAPS, that hold for every value of the constants.  Every
definition is translated from the code; `PROJECT.json` maps each one to its
lines.  Paths below are relative to the repository; `backend/` stands for
`src/apps/backend/src/` and `frontend/` for `src/apps/frontend/src/`.

## 1. Inventory

### The parts, what they keep and what they do

| Part | State | Operations | Talks to |
|---|---|---|---|
| Price execution, `backend/services/execution.service.ts` | `products.currentPrice`, the `executions` rows, the storefront's price (external, `mockPlatform.service.ts`) | `executeRecommendation`: read product and limits, gate, local write, push, success row; or rollback and failure row | called by approve, modify, undo and the pipeline |
| Recommendation decisions, `backend/services/recommendation.service.ts`, `repositories/recommendation.repository.ts` | `pricing_recommendations` (status, resolvedAt, resolvedBy, recommendedPrice, currentPriceAtTime), `audit_logs` | approve, reject, modify, undo, approveMany, list, detail | price execution, audit log |
| Agent pipeline, `backend/agents/orchestrator.ts` | one run's local state, the recommendation's row, `agent_outputs` | create the skeleton, run three waves of agents, clamp, score, comply, finalize, auto-execute | agent runtime, business rules, confidence, execution, the event stream |
| Business rules and limits, `backend/services/businessRules.ts`, `categoryRule.service.ts` | category rules, organization settings | checkBusinessRules, floorPrice, clampToPermittedRange, effectiveLimits, upsertRule, deleteRule | read by pipeline, modify and execution |
| Confidence, `backend/agents/confidence.ts` | none | computeConfidence: a pure score of five outputs | pipeline |
| Agent runtime, `backend/agents/groqClient.ts`, `tools/` | one agent's messages, tool calls and attempts | tool loop, timeout, retry, repair | the model provider (external) |
| Product catalog, `backend/services/product.service.ts` | `products` | create, update, delete, page | decisions (cascade), execution |
| Sessions, `backend/services/auth.service.ts`, `frontend/lib/api.ts` | refresh tokens; a browser's two cookies; each tab's cache | login, refresh with rotation, logout, retry after 401 | every request |
| Organization and invites, `backend/services/organization.service.ts` | settings, invites | update settings; create, revoke, redeem an invite | sessions |
| Market events, `backend/services/marketEvent.service.ts` | competitor prices | record a move | pipeline |
| Audit log, `backend/services/audit.service.ts` | `audit_logs` | record (swallows its failure), list | all services |
| Recommendation stream, `backend/controllers/stream.controller.ts`, `frontend/lib/sse.ts`, `useAgentStream.ts` | the open response; parser buffer; the reducer's state | frames, keep-alive, disconnect; parse, reduce, supersede | pipeline |
| Decision queue in the client, `frontend/features/recommendations/api.ts` | the query cache | optimistic approval, rollback, refetch | decisions |
| Request middleware | counters of the rate limiter | authentication, CSRF, tenant, role, validation | every request |
| Pages with work in progress: `DecisionsPage`, `CatalogPage`, `SettingsPage`, `AuditPage`, `ExportButton` | selection, open forms, drafts, the pages read so far | move, edit, save, read on | the hooks of their feature |
| Dashboard, public pages, seeds, OpenAPI builder, CI | none that the above depends on | | |

### How they interact

One Node process serves every request; its handlers interleave at each `await`.
There are no transactions around the handlers: two statements of one handler
are two steps, and any other handler may run between them.  What protects a
recommendation is a single conditional `UPDATE` (`claimAndResolve`,
`claimAndUndo`); every other write names the row by its id alone.  A pipeline
run is started by one request, is not stopped when that client disconnects, and
makes its recommendation visible in the queue before the agents have run.

### What is hard

* Concurrency: analysts racing on one recommendation; an analyst deciding a
  recommendation whose run goes on; an undo during the push it reverses; two
  pushes of one product; the requeue of a failed push against a later decision.
* Failure: a rejected push, a failing statement before, between and after the
  writes, a failing catch block, a process exit at any await.
* Ordering: local write before push, audit row after both, undo's push after
  its claim.
* Staleness: the price read before the push and written back by the rollback;
  the status undo read before its claim; the limits read before the write.
* Timeouts and retries: a model call answered after its timer, the one repair of
  an agent, the shared refresh of a session and the replay of what a lapse refused.
* The client: an optimistic row put back after later decisions, an answer for a
  page or an organization that is no longer on the screen, a stream superseded by
  another, a form filled in from an older row, pages read by cursor from a list
  that changes.

### What makes each part correct

* Execution: no price below the permitted floor is ever pushed; a finished
  call's row says what the storefront did; a failed call leaves database and
  storefront as it found them; every call ends.
* Decisions: one push per recommendation decided after its run, and another only
  when a row about a push was lost; a status that says a price was
  pushed has a push behind it; the trail explains the status; an undo puts the
  price back; a failed push returns the recommendation to the queue; every
  request is answered.
* Pipeline: degraded inputs lower the confidence and never raise it; no run
  auto-executes while its rules block; a run always ends with `done` or an error.
* Business rules: the gate is a floor; a category rule tightens and never
  loosens; the clamp's result passes the gate whenever the band is not empty.
* Sessions: a busy screen is never taken for a stolen token; the server refuses no
  live session the repair of a lapse; a session ends with its sign-out, on both sides.
* Invites: a code makes the one member it was issued for; no organization is ever
  without its admin.
* Agent runtime: an output's evidence is what the model was told; an agent ends.
* Stream: the screen is a prefix of one run's events; a run does not depend on
  its reader.
* Catalog: price above cost and status in step with stock, whatever a patch
  names and an execution or its rollback writes, as long as nothing is written over
  a change that was not read; one author in the trail for each creation and deletion.
* Client: a page at rest shows what the server has, unless it knows that a fetch
  failed; what is saved, sent or undone is what this user chose; what is read by cursor has no holes.

The hazards behind these, each at its line, are in `PROJECT.json`.

## 2. Modules

| Module | Models | Role |
|---|---|---|
| `Execution` | `executeRecommendation`, the storefront's answer, edits of price and limits, failing statements, process exit | component, and the abstract specification that `Decisions` implements |
| `ExecutionProofs` | | theorems about `Execution` |
| `Decisions` | approve, reject, modify, undo, the pipeline statements that touch a recommendation, the audit rows | composes the handlers with `Execution` (instance `E`) |
| `DecisionsProofs` | | refinement of `Execution`, how often a recommendation is pushed, what rows and trail say |
| `BusinessRules` | the blocking rules, floor price, clamp, effective limits, weak-upstream cap and confidence score | pure operators |
| `Pipeline` | one run of `orchestrate` with its agents, failures and the edits admins make meanwhile | component, over `BusinessRules` |
| `PipelineProofs` | | theorems about `Pipeline` and lemmas about `BusinessRules` |
| `Sessions` | login, rotation and reuse detection, sign-out; cookies; the client's shared refresh and its caches | component |
| `SessionsProofs` | | theorems about `Sessions` |
| `Invites` | organizations, invites and sign-up | component |
| `InvitesProofs` | | theorems about `Invites` |
| `AgentLoop` | one agent's tool rounds, retries and repair | component; `Pipeline` sees its end only |
| `AgentStream` | the events of a run from the generator to the screen | component; `Pipeline` has what the run does |
| `AgentProofs` | | theorems about `AgentLoop` and `AgentStream` |
| `Catalog` | create, update, delete, simulate and the price writes of executions, as overlapping requests | component |
| `CatalogProofs` | | theorems about `Catalog` |
| `Queue` | the cached decision queue and its mutations | component; `Decisions` has the server's side |
| `Desk`, `Shop`, `Settings`, `Lists`, `Trail`, `Export` | the pages around the queue, the catalog, the settings, their lists, the audit log and the export | components |
| `Paging` | pages read by cursor | operators, for `Trail` and `Export` |
| `Pages` | the seven pages, one to a behaviour | composes `Queue` and the six page modules |
| `PagesProofs` | | theorems about `Pages`, part by part |
| `MC*` | | small instances for TLC |

### Execution

A caller is one invocation.  `phase[c]` is its position: `called`, `checked`
(gate passed), `written` (local price written), `accepted` or `rejected` (the
storefront's answer; also the catch block), `reverted` (local price put back),
and the ends `refused`, `succeeded`, `failed`.  Each action is the code between
two awaits.  `price` is `products.currentPrice`, `storefront` what the customer
sees, `row` the `executions` row, `previous` the local `previousPrice`.

The gate (`checkBusinessRules`) is abstracted to `floor[p]`, the lowest price
no blocking rule refuses: all three blocking rules are lower bounds on the
price once cost and margin floor are fixed.  The read of product and limits and
the gate are one action: the awaits inside are reads, no property distinguishes
them from the last of them, and `EditLimits` may come right after.  The success
row is written inside the code's `try`, so its failure enters the catch block
(`StatementFails` from `accepted` to `rejected`).

### Decisions

A handler is a request (`approve`, `reject`, `modify`, `undo`) or a run
(`generate`), named after the recommendation it creates.  `pc[c]` is its
position; at `executing` it awaits `executeRecommendation` and its position
there is Execution's `phase[c]`.

| Code | Actions |
|---|---|
| `orchestrate`: load, `createPending`, waves, `markFailed` / `finalize`, auto-execution | `LoadProduct`, `CreateSkeleton`, `MarkFailed`, `FinalizeForReview`, `FinalizeAuto`, `RunEnds`, `RunThrows` |
| `approve`, `reject` | `ApproveOrReject` (claim's read), `Claim` / `LoseClaim`, then `Executing`, `Requeue`, `Audit` |
| `modify` | `Modify` (its reads and the gate on the human's price), `ModifyReads` (claim's read), then as approve |
| `undo` | `Undo` (its reads), `ClaimUndo` / `LoseClaim`, then `Executing`, `Audit` |
| `claimAndResolve`, `claimAndUndo` | `Resolve`, `Restore`: one atomic conditional UPDATE each; `ClaimThrows`: the read after it fails |
| catch blocks, swallowed audit failure | `Requeue`, `LastStatementFails` |
| ten-minute undo window | `WindowCloses`: `resolvedAt` is `never`, `recent` or `old` |
| process exit | `Crash` |

`approveMany` is a sequence of `approve` and needs no action of its own.
What the agents compute is any price (`\E x \in Price`): a run may finalize for
review or auto-execute with any of them, so no property depends on the agents.

### BusinessRules and Pipeline

`BusinessRules` has the code's pure functions over integers: prices in cents,
confidences and the threshold in hundredths, a fraction `n` as `n * Whole`.
The arithmetic is exact, with a rounding wherever the code rounds; prices
and confidences finer than that are left out.

`Pipeline` is one run on one product.  `stage` is where `orchestrate` is;
`task[a]` is how far `runAndPersist` is with agent `a`: `thinking`, then
`answered` or `erred`, then `recorded` or `lost` once its row is stored.  The
agents are external: a call ends in any output its schema admits (the configured
set) or an error, which stands for timeouts, failed repairs and too many rounds.

| Code | Actions |
|---|---|
| reads, category rule, `createPending`, start of wave one | `Load`, `Start` |
| `runAgentWithRepair` | `Answer`, `Err` |
| `runAndPersist`'s rows; its `failed.push`; a row that cannot be stored | `RecordOutput`, `RecordError`, `RecordFails` |
| `Promise.all` of wave one, the forecast or its skip, its cap | `WaveOneJoins`, `WaveTwoEnds` |
| strategy, clamp, `computeConfidence` | `StrategyLost`, `StrategyEnds` |
| `markFailed` | `MarkFailed` |
| compliance, `blocked`, `finalize` | `FinalizeBlocked`, `Finalize` |
| `executeRecommendation` as the run sees it, its catch block | `Gate`, `PushSucceeds`, `PushThrows`, `Demote` |
| the generator throws | `RunBreaks`, `StatementFails` |
| `updateProduct`, `updateSettings`, `upsertRule`, `deleteRule` | the actions of the same names |

Storing an *output* happens inside the `try`, so its failure is the agent's own;
storing the *error* row does not, so its failure rejects the promise and the
generator throws while the wave's other agent may still be at work.  The push is
coarse here because `Execution` has its inside; what analysts do to the
recommendation meanwhile is in `Decisions`.  `limits` and `threshold` are the
run's copies, read once; `Gate` reads the tables again.

### Sessions

A token is the pair issued by one login or refresh.  `jar` is a browser's
cookies, shared by its tabs; `requests` are the `/auth` requests under way, each
with the statements of `login`, `refresh` or `logout` as steps (`sent`, `found`,
`issued`, `answered`...); `call` are ordinary requests with the access token each
carries; `identity` and `rows` are what a tab's cache says and whose rows it
holds.  `attemptRefresh` is shared per tab (one module-level promise in
`frontend/lib/api.ts`), not per browser.  An access token lapses at any time;
a refresh token outlives a behaviour.

### Invites

Each request (`invite`, `revoke`, `join`, `signup`) runs one statement at a time.
The two `$transaction` blocks (`createWithAdmin`, `redeem`) are one step, with the
unique e-mail address and the conditional `usedAt` update deciding races.

### AgentLoop

`at` is the position in `runAgent` (asking, backing off, in tools), `loop` tells
the repair from the first attempt, `chat` is the messages, `evidence` the
`toolCalls` array in the order in which the calls end.  A tool call ends in data,
an exception or "no such tool"; the model answers with tool calls, usable or
unusable content, fails, or stays silent until the timer.

### AgentStream

`servers[r]` is the handler and generator of run `r` with the log of its events;
`streams[r]` is the connection (`link`), the bytes on the way (`wire`), the
parser's buffer and the reader; `screen` is the reducer's state.  A frame is two
halves of its data and two newlines, so a chunk may end inside any of them.  The parser
is `Take` for one piece and `Split` for a buffer; `Parsed` is the event of a raw frame,
if it has one, and `WholeFrame` says that a buffer still holds a frame's end.  A page has one live stream:
`start` aborts the one before and forgets its events, and the run behind it goes
on.  `KeepAlive`, `Break` (an error), `Cut` (an end that looks proper) and `Throw`
are the environment.

### Catalog

`requests[a]` is one member's request, or one execution, at the statement it comes to
next.  A row is what the cross-field rules see.  A patch is a price, a cost and a
level, each possibly absent.  An execution reads the product and its gate's limits
(`ReadContext`, of whose rules the one about a row is kept: price above cost), writes
the price with no condition (`WritePrice`), pushes (`PushPrice`, which also fails when
the row about the push does) and, after a failure, writes the price of before
(`RollBack`).  What is between a read of a row and the last write that rests on it is
marked `stale` by any other write of that row; `crossed` notes the products on which a
stale write was made.  The storefront and the rows of executions are in `Execution`.

### The pages

Each page module is one user's browser.  They share no state: every page reads
queries of its own.  `Pages` therefore holds one part per behaviour (`place`),
which lets one run and one type invariant serve them all without multiplying
their states.

| Module | State | Steps |
|---|---|---|
| `Queue` | the server's pending set; `list`, its newest `QueueLimit` (25 in the code) as last read, `invalid` and `fetch` of the cached query; `mutations`; `toast` | optimistic approval, other decisions, batch, undo; a fetch read, answered, failed, cancelled or superseded; leaving and returning; other clients |
| `Desk` | filter, rows, URL, what the cache says of each detail, Modify pane, dialogs, checked rows, toast | select, filter, check, write a price or a reason, decide, advance, undo; answers in any order, on a wide or a narrow screen |
| `Shop` | filters, the answers cached for each of them, which of these are known to be out of date or failed, the table and its fetch, create/edit form, delete dialog, their writes | search, page, with a cached answer or a fetch, edit, save, delete; other admins; answers in any order; fetches that fail |
| `Settings` | both sliders, status and timers, the session's organization and the load of it under way, saves at each statement | slide, save, load the session (asked, read, arrived), sign out, another organization's admin signs in, another admin saves |
| `Lists` | the category limits and the invites, with their writes and fetches | put, delete, refetch, a failed fetch, a failed or half-made write, a lost answer |
| `Trail` | the log with entries that commit out of order, the debounced filter, the pages shown | type, settle, read on, refetch of all pages |
| `Export` | the recommendations with one status, the walk's cursor and rows | walk, decisions and deletions between two pages, the cap of rows |

In `Queue` an awaited `onSettled` keeps its mutation until the refetch it asked for
is over (`Settle`); callbacks given to `mutate` fire only while the hook follows
that mutation (`current`), as the query library does it.  `Reject` waits for the
rejection before and `Modify` for whichever decision this visit's hooks follow.  In
`Lists` a limit or an invite is its key and the number of the change that made it, so
that a list which shows the invite of before is not taken for current; `Expire` is the
first of `createInvite`'s two statements, after which the second may still fail.  In `Desk` and `Shop` a
recommendation and a product are numbers, because the code orders them.

### History variables

Variables marked "history" in their module record what a behaviour has done and
are read by bounds and properties only: how many edits, failures or losses there
were; which products had two executions (`overlapped`) or two handlers
(`contended`) at a time; which recommendations were decided before their run was
over (`early`); which rows an edit wrote over unseen (`crossed`); and so on.  They
let one run check both what holds always and what holds only where nothing
overlapped.

## 3. What TLC checks

| Run | Instance | States | Properties |
|---|---|---|---|
| `MCExecution` | 2 callers, 1 product, prices 1..3, 1 edit, 1 failing statement, 1 crash | 0.4 M | `TypeOK`, `RowsTellTheTruth`, `StorefrontAgreement`, `PushesRespectFloor` |
| `MCDecisions` | 2 requests of all four operations, 1 run, prices 1..2, 1 crash, 1 failing statement of a handler; or 1 failing statement of an execution (`FewFaults`) | 4.5 M | `TypeOK`, `EachFurtherPushLostARow`, `RowsTellTheStory`, `ImplementsExecution` |
| `MCDecisionsLive` | 2 approve or undo requests, 1 run, 1 price, 1 edit, 1 failing statement of an execution | 0.2 M | `HandlersAnswer`, `FailedPushRequeues` |
| `MCDecisionsEarly` | 1 approve, 1 run | 123 | finding: `NoSecondPush` fails |
| `MCPipeline` | 2 products, 2 rules, 2 settings, 2 or 3 outputs of each agent, 1 edit, 1 failing statement | 0.2 M | `TypeOK`, `DoubtIsReviewed`, `RunEndsInOrder`, `StatusMatchesStorefront`, `UnadvisedMoveIsBounded`, `OwnFloorHolds`, `RunIsAnswered` |
| `MCSessions` | 1 browser, 2 tabs, 2 calls of one tab, 2 users, 2 token pairs, 1 fault | 4.2 M | `TypeOK`, `BusyScreenIsNotTheft`, `SessionsDoNotLinger`, `LiveSessionsAreServed` |
| `MCInvites` | 2 requests at a time, 2 organizations, 2 addresses, 3 invites, 1 failing statement | 2.4 M | `TypeOK`, `CodesMakeTheirMembers`, `OrgHasAdmin` |
| `MCAgentLoop` | 3 rounds, 2 retries, 2 calls in a message | 0.6 M | `TypeOK`, `EvidenceIsWhatTheModelSaw`, `AgentEnds` |
| `MCAgentStream` | 2 runs, 2 agents that may fail, chunks up to 5 pieces, 1 fault | 0.3 M | `StreamTypeOK`, `ScreenIsPrefix`, `EveryRunFinishes`, `ScreenSettles` |
| `MCCatalog` | 2 members or executions, 2 products, 1 SKU, 6 patches, prices 2 and 3, costs 1 and 2, 1 failing statement | 6.8 M | `TypeOK`, `RowsHoldTogether`, `TrailTellsTheCatalog` |
| `MCPages` | see below | 5.9 M | `PagesTypeOK`, `QuietQueueIsCurrent`, `DeskIsCoherent`, `ShopHolds`, `SettingsHold`, `NothingIsSkipped` |
| `MCPagesDraft` | the instance of `MCPages` | 50 k to the violation | finding: `WordsGoWhereWritten` fails |

Each run takes under three minutes with two workers.  Deadlock is not checked
where an instance ends by itself (every request, run or budget of inputs is used
up); it is checked in `MCSessions`, `MCInvites` and `MCCatalog`, whose systems
never come to an end.

Several properties are conjunctions of named parts, each stated in its module:
`RowsTellTheStory` (`PushedStatusHasPush`, `AuditExplainsStatus`,
`PendingMeansUnpriced`), `DoubtIsReviewed` (`BlockedIsReviewed`,
`IncompleteIsReviewed`, `UnsureMarketIsReviewed`), `RunEndsInOrder`
(`SettledWhenOver`, `CriticalLossFails`), `SessionsDoNotLinger`
(`SignedOutMeansRevoked`, `RowsAreTheUsersOwn`), `CodesMakeTheirMembers`
(`InviteMakesItsMember`, `OneValidCode`), and those of the pages.

**Why the bounds are enough.**  The races in the server's code are between two
handlers of one row: the read and the claim of one around the claim of
another, an undo around a push, a run around an approval, one rotation around
another, two patches of one product.  Two callers and, with the run, three
handlers show each of them.  Products do not interact except through these
handlers, so one is enough for decisions.  In `MCDecisions` a failed statement
of an execution comes alone, without a crash or another failure: together they
are proved, not checked.  Two prices tell old from new (whether a handler is
answered does not depend on them, and `MCDecisionsLive` has one); three (in
`MCExecution`) put a price below, at and above the floor.  One failing
statement, crash, lost answer or cut reaches every position because each may
come anywhere.

For `MCPipeline` the values sit at the boundaries of the rules.  Of a price of
800 at cost 700 and margin 0.12 the limits leave 795..880, so that the three
proposed prices lie inside, above and below, and the compliance agent's 750 is
below the margin floor; one rule changes nothing and one blocks every price; a
market read of 49 is just under the cap's limit and one of 9 days over the age
limit; the thresholds 75 and 80 are the rounding case of `UnsureMarketIsReviewed`
and the most a run without a forecast can score.  One edit suffices because the
run reads the tables twice.

In `MCSessions` two calls of one tab are what the shared refresh has to merge; the
second tab is another reader of the same cookies; two pairs are a login and one
rotation of it, or two logins.  In `MCCatalog` prices and costs meet (2 and 2), the
levels lie on both sides of the thresholds 20 and 400, and the patches name
either side of a rule, both, or neither.  In `MCAgentStream` a chunk of 5 pieces
holds a frame and the start of the next.

`MCPages`: the queue has 2 recommendations on a page of 1, 2 decisions under
way and 1 event (a change by others, a lost answer, a failed fetch or a visit
elsewhere); the decision page 2 recommendations and 4 acts; the catalog 2
products on pages of 1, and 5 acts; the settings 2 organizations, one with a
second admin, 2 levels of each slider and 3 acts, a load of the session among
them; their lists 2 keys and 3 changes; the audit log 4 entries on pages of 1,
a filter that leaves a middle entry out, and 3 inputs; the export up to 4
recommendations on pages of 1, 2 decisions, and a cap of 3 rows.  Pages of one
row make every read a page boundary.  What the queue comes to rest on is
proved for every number of decisions and events.

`MCDecisions`, `MCSessions`, `MCInvites` and `MCCatalog` declare symmetry over
sets whose members the code treats alike; the pages order theirs.  None of them checks liveness.

**Fairness.**  `WF` on each handler's own steps in `Decisions`, and on nothing else:
a promise returned by the database driver or by the storefront's client settles,
and the agents are bounded by `AGENT_TIMEOUT_MS` and a bounded number of retries.
`Pipeline` has `WF` on the run's own steps and on each agent's, for the same
reasons; the generator is driven to its end whether or not the client listens
(`stream.controller.ts:48-51`).  `AgentLoop` has `WF` on the model's step, because a
timer races every request, on the retry's timer, on the tools, which are bounded
database reads, and on their join.  `AgentStream` has `WF` on the browser's reader
and on the server's handler of each run; that a connection which delivers nothing
breaks is part of the reader's fairness.  Nothing forces a request to come, the
window to close, a statement to fail, an edit to happen, or the user to act.

### Findings

1. `MCDecisionsEarly`: `createPending` puts a PENDING skeleton into the queue before
   the agents run (`orchestrator.ts:59`), and `finalize` writes by id alone (line
   263).  A skeleton approved meanwhile is finalized over and its price pushed a
   second time, which `recommendation.service.ts:13-15` says is impossible.  The same
   sentence fails once more, of a recommendation approved after its run: see
   `MCDecisionsLostRow` below.
2. `MCPagesDraft`: the price field and the open Modify mode of `DecisionDetail` are
   kept when the selection moves to a recommendation that is cached already
   (`DecisionDetail.tsx:41`, no `key` at `DecisionsPage.tsx:272`), so "Approve at this
   price" sends for the second one what was written for the first.  The design
   resets both on a selection (`src/new-design/README.md:303`).

### Conditions that are needed

Each of these configurations is kept beside the runs; TLC refutes its property,
which is why the checked one has a condition, or is not stated at all.

| Configuration | Refuted | How |
|---|---|---|
| `MCExecutionOverlap` | `DatabaseMatchesStorefront` | the rollback writes a price read before the push (`execution.service.ts:89`), so of two overlapping executions the one that fails overwrites the one that succeeded |
| `MCExecutionLostRecord` | `RolledBackMeansNotShown` | the success row fails after the push, and the catch block reports a rollback of a price the storefront keeps (`execution.service.ts:68`) |
| `MCDecisionsLostRow` | `NoSecondPushAfterItsRun` | the storefront takes the price, the success row fails (`execution.service.ts:68`), the approval counts as failed and requeues the recommendation, and the next approval pushes it again |
| `MCDecisionsOverwrite` | `DecisionsStand` | a late `setStatus` of a failed approval sends another analyst's approval back to the queue (`recommendation.service.ts:87`) |
| `MCDecisionsAutoUndo` | `AutoExecutedCanBeUndone` | an auto-executed recommendation never gets a `resolvedAt` (`recommendation.repository.ts:130`), so its undo is always refused, against `recommendation.service.ts:217-219` |
| `MCPipelineAdvice` | `RecommendedInRange` | the compliance agent's price replaces the clamped one and is not clamped again (`orchestrator.ts:258`), against `src/DECISIONS.md:205-207` |
| `MCAgentStreamLost` | `FailedAgentIsShown` | losing the strategy or the inventory agent ends the run without an event of that agent, which stays "running" (`src/docs/PRD.md:482`) |
| `MCSessionsReload` | `ReloadKeepsSession` | a 401 of `/auth/me` is not refreshed (`frontend/lib/api.ts:180`), so a page reloaded after a lapse asks for a sign-in although the session lives (`src/docs/PRD.md:409`) |
| `MCPagesEmpty` | `EmptyMeansNone` | deleting the only row of the last page, or others' deletions, leave the table on a page past the end, which reads "no products" (`CatalogPage.tsx:384`; its line 132 speaks of an empty table for no reason) |
| `MCPagesOthers` | `OthersAreKept` | both settings are always sent (`ThresholdControl.tsx:218`), so saving one puts back another admin's change of the other |
| `MCPagesGap` | `DoneMeansComplete` | the cursor's own row may lose its status during an export, and the page after it is read from elsewhere (`recommendation.repository.ts:27`); `ExportButton.tsx:47-49` wants no "partial file that looks complete" |

Further conditions, each refuted by TLC when it is dropped:

* `StorefrontAgreement` does not hold with a crash between the local write and
  the push.  `AuditExplainsStatus` and `PendingMeansUnpriced` fail on products whose
  handlers overlapped, where an undo overtakes the approval it undoes;
  `PendingMeansUnpriced` fails with two recommendations for one product, because
  undo pushes the price of the pipeline's start; `PushedStatusHasPush` fails when the
  read after `claimAndResolve`'s UPDATE does, because approve's catch block does not
  cover the claim.
* `UnsureMarketIsReviewed` needs a threshold above 75: a market read of 49 with
  everything else at its best scores 74.7, which rounds to 75.
  `StatusMatchesStorefront` needs a run without failing statements and without an
  edit of the product's price.
* `BusyScreenIsNotTheft` sets two tabs that refresh one cookie at once and lost
  answers aside: either burns the chain.  `RowsAreTheUsersOwn` sets a sign-in as
  somebody else in another tab aside.
* `OneValidCode` sets overlapping invitations of one address aside: each expires
  what it finds before either inserts, and both codes are valid
  (`invite.repository.ts:26-27`).
* `RowsHoldTogether` sets products aside on which an edit, an execution or a rollback
  wrote over something it had not read: `updatePrice` writes with no condition awaits
  after the gate read the cost, and the rollback likewise, so an execution of 2 over a
  patch to a cost of 2 leaves price and cost equal.  `StatusNeverContradicts` fails
  with a level read before another's write (`product.service.ts:51-52`).
* `EachFurtherPushLostARow` and `NoSecondPush` are about recommendations nobody asked to
  undo, for an undo is followed by another decision and push as it should be.
* `QuietQueueIsCurrent` is about the newest page, the only one `DecisionsPage` asks for:
  of more than 25 that are pending the older ones are not on the screen, and an
  approval brings the next in with its refetch.  It is stated up to what others
  changed since the list was read, and so is `QuietTableIsCurrent`.
* `QuietTableIsCurrent` sets a table aside whose last fetch failed, the one after one's
  own write among them: it shows an error over the rows there were
  (`CatalogPage.tsx:325-330`).  A page cached within `staleTime` is shown with no fetch;
  one's own writes mark every cached page, others' mark none.
* `LiveSessionsAreServed` sets lost answers, a failing statement and two tabs that
  refresh at once aside (`disturbed`): each leaves the browser with a token that was
  already rotated.
* `ScreenSettles` sets a response aside that was cut where a proper end would be:
  the screen then streams for ever.
* `SavesOnlyWhatWasChosen` sets a sign-out during a save or a load of the session aside:
  the answer of the save is folded into the next organization's session, and that of
  `/auth/me`, which nothing cancels, replaces it, and the sliders then start from it.
  `SavesAreSeen` sets saves aside that overlap each other or a load, or fail: an answer
  of `/auth/me` read before a save may arrive after it and take the place of what the
  save folded in (`useAuth.tsx:30-41`, `SettingsPage.tsx:53-60`).
* `ListsAreCurrent` sets a list aside whose last fetch failed (`CategoryRulesSection`
  keeps the rows there were with no word of it), and invites a change of which was
  made, in whole or in half, and reported as failed: only a success refetches them,
  and `createInvite` expires the outstanding codes before a statement that may fail
  (`organization.service.ts:68-70`), so the list keeps a code that no longer works.
* `ExportIsComplete` sets an export aside of which a page was read from a row that had
  lost its status.

### Remarks

Behaviour met while modelling that no property is about.

* Pipeline: `floorPrice` rounds to the nearest cent and the clamp's upper bound wins
  over its floor, so the clamp can return a blocked price; the rules are checked
  after it, and such a run goes to a human.  The score is computed before the
  compliance agent runs, so losing that agent costs nothing, although
  `src/docs/PRD.md:702` lists a penalty for every missing agent.
* Sessions: a stream is not refreshed on a 401.  A refresh that a sign-out overtakes
  may put back cookies of the session that ended.  A failing statement of a
  refresh clears the cookies; a lost sign-out leaves them.
* Invites: `revokeInvite` answers success for an invite redeemed meanwhile; `redeem`
  does not look at the expiry again inside its transaction.
* Stream: "Try again" after a connection error starts a second run beside the first.
  Moving from one product's page to another's through the palette shows the first
  one's run under the second.
* Catalog: of two creations with one SKU the loser is answered 500 instead of the 409
  of `src/docs/PRD.md:1261`.  An update of a row deleted before its reread is
  answered 404 with the write done and unaudited.  A simulation on a product
  deleted meanwhile fails on the foreign key.
* Queue: the callbacks of a superseded or unmounted mutation do not fire, so its
  failure is reverted but not explained (`src/docs/PRD.md:514`, 1269).
* Desk: after a batch the pane may keep a row that has left the queue.  A second
  press of the key reports an error for an approval that went through.  `advance`
  moves away from a row the analyst has chosen meanwhile.
* Shop: a product's form closes when the save of another form succeeds; cancelled
  edits come back when the form of an unchanged row is opened again; products
  updated at the same moment have no fixed order between pages.
* Settings: the timer of a first save enables the button during a second.

## 4. What is proved

All theorems hold for any sets of callers, requests, users, tabs, recommendations,
products and prices and any bounds, from the assumptions stated with the constants:
prices are integers, `None` is none of the values it stands beside, requests and
recommendations are disjoint, bounds are naturals; for the pipeline and the catalog,
products, rules, settings, inputs and outputs are what the validation schemas admit;
for the pages, the sets shown are finite where the code counts or pages them, and the
settings an organization starts with are settings (`GivenAssumption`).  The eight
modules have some 15 000 obligations.

| Theorem | Statement |
|---|---|
| `ExecutionProofs!TypeCorrect` | `Safe => [](TypeOK /\ WellFormed)` |
| `ExecutionProofs!FloorRespected` | `Safe => PushesRespectFloor` |
| `ExecutionProofs!RowsTruthful` | `Safe => []RowsTellTheTruth` |
| `ExecutionProofs!AgreementWhenApart` | `Safe => []StorefrontAgreement` |
| `DecisionsProofs!HandlersTypeCorrect`, `DecisionsTypeCorrect` | `Safe => []TypeOK` |
| `DecisionsProofs!HandlersImplementExecution` | `Safe => ImplementsExecution` |
| `DecisionsProofs!HandlersRespectFloor` | `Safe => E!PushesRespectFloor` |
| `DecisionsProofs!PushesCostRows` | `Safe => []EachFurtherPushLostARow` |
| `DecisionsProofs!RowsAreTrue` | `Safe => []RowsTellTheStory`, from `PushedStatusesAreBacked`, `AuditTellsTheStatus` and `WaitingMeansUnpriced` |
| `PipelineProofs!PipelineTypeCorrect` | `Spec => []TypeOK` |
| `PipelineProofs!OwnFloorAlwaysHolds` | `Spec => OwnFloorHolds` |
| `PipelineProofs!DoubtfulRunsAreReviewed` | `Spec => []DoubtIsReviewed`, from `BlockedStaysInQueue`, `IncompleteNeedsReview` and `UnsureMarketNeedsReview` |
| `PipelineProofs!RunsEndInOrder` | `Spec => []RunEndsInOrder`, from `NoAgentLeftBehind` and `OnlyCriticalLossFails` |
| `PipelineProofs!UnadvisedMovesBounded` | `Spec => []UnadvisedMoveIsBounded` |
| `PipelineProofs!StatusTellsTheStorefront` | `Spec => []StatusMatchesStorefront` |
| `SessionsProofs!SessionsTypeCorrect` | `Spec => []TypeOK` |
| `SessionsProofs!RefreshingIsNotTheft` | `Spec => []BusyScreenIsNotTheft` |
| `SessionsProofs!SessionsEnd` | `Spec => []SessionsDoNotLinger` |
| `SessionsProofs!LiveSessionsKeepTheirCalls` | `Spec => LiveSessionsAreServed` |
| `InvitesProofs!InvitesTypeCorrect` | `Spec => []TypeOK` |
| `InvitesProofs!OrganizationsHaveAdmins` | `Spec => []OrgHasAdmin` |
| `InvitesProofs!CodesAdmitWhomTheyName` | `Spec => []CodesMakeTheirMembers` |
| `AgentProofs!LoopTypeCorrect` | `Spec => []TypeOK` |
| `AgentProofs!EvidenceIsTrue` | `Spec => []EvidenceIsWhatTheModelSaw` |
| `AgentProofs!StreamTypeCorrect` | `StreamSpec => []StreamTypeOK` |
| `AgentProofs!ScreenFollowsTheLog` | `StreamSpec => []ScreenIsPrefix` |
| `AgentProofs!ChunksDoNotMatter` | bytes cut anywhere into two chunks give out the events, and leave the buffer, that they would in one |
| `CatalogProofs!CatalogTypeCorrect` | `Spec => []TypeOK` |
| `CatalogProofs!RowsKeepTheRules` | `Spec => []RowsHoldTogether` |
| `CatalogProofs!TrailNamesWhoDidIt` | `Spec => []TrailTellsTheCatalog` |
| `PagesProofs!PagesTypeCorrect` | `PagesSpec => []PagesTypeOK` |
| `PagesProofs!QueueComesToRest` | `PagesSpec => []QuietQueueIsCurrent` |
| `PagesProofs!DeskStaysCoherent` | `PagesSpec => []DeskIsCoherent` |
| `PagesProofs!ShopStaysCurrent` | `PagesSpec => []ShopHolds` |
| `PagesProofs!SettingsStayChosen` | `PagesSpec => []SettingsHold` |
| `PagesProofs!CursorsSkipNothing` | `PagesSpec => []NothingIsSkipped` |

**Execution.**  `TypeOK` is not inductive (the rollback could write `None`), so
`WellFormed` adds that a call in flight has its operands.  `GateHolds` says the
gate's verdict is still true at the push, as nothing changes `amount` and, with
no edits, nothing changes `floor`.  `RowsFollowPhase` ties a caller's position to
`accepted` and `row`.  `AgreementInv` gives, for each position of a call that
has its product to itself, the price in the database and in the storefront.

**Decisions.**  `OwnInv` adds to the types what a handler knows at each position:
a run targets itself, a request past its first read targets a visible
recommendation, whoever may push next has a price.  With it every step is a step
of `Execution` or leaves its variables alone (`NextMaps`); with that
`Execution`'s own invariant comes back to the composed system, and its floor
theorem with it.

**The pushes of a recommendation.**  The owner of a recommendation is the
handler at `executing`, in flight or done pushing.  `Ownership` says that
where nobody asked for an undo and nobody decided early (`Spoilt` is false)
there is one owner (`OneOwner`) and an owned recommendation is not PENDING
(`OwnedIsPushing`); a claim needs PENDING, so it never makes a second owner.
`DecisionsWait` keeps the run from being that second one.  A handler whose
push was taken and whose success row was then lost (`Lost`) ends no owner;
`LossesCounted` says that there are at most as many of these as statements of
executions that failed, because each failure makes one of them at most.
Whoever has pushed or may push is an owner or one of the `Lost`
(`PushersCounted`).  The step lemmas sort all actions into three shapes: a
handler's plain code (`Plain`), the start of a push (`Starts`) and a step
inside one.

**Rows and trail.**  Three invariants, each on the ones before.  `Backing`: a status
that says a price was pushed has a handler behind it that pushed it or is still at
it, and a handler gives up its backing only by making the row PENDING again.
`Turns`: handlers of a product nobody contended for are one at a time.  `Told`: of
such a recommendation, or of one no undo touched, either a handler at work has still
to write the row that explains the status, or the last row does.  `Priced`:
the price and the storefront are where the last decision left them, and a handler at
work has taken them as far as its position says (`AtPrice`); a rejection has moved
neither.  `Sorted` splits `Next` into the five shapes all three proofs use.

**Pipeline.**  The invariant `IInv` says which tasks are where at each stage
(`Typed`, `Progress`), that the gate's verdict on the product's own limits is
still true at the push (`GateHolds`: no edit of settings or rule can undo it,
because a rule only tightens, lemma `EffectiveTightens`), and what the row says
at each stage (`RowFollows`).  `Scored` adds what the score depends on: `failed`
contains every lost or skipped agent (`Failures`), a forecast on a weak read is
capped (`Capped`), and the score is at most what its inputs allow
(`ScoreBound`); lemmas `ScoreAtMost` and `ScoreOnUnsureMarket` do the
arithmetic.  `Unadvised` follows a price from the clamp to the row.  Lemma
`HigherPricesPass` says that a price above one the rules let pass also passes:
this is what lets `Execution` write the gate as a lowest price.  `ShowsWhatItRead`
says that, while nothing failed and nobody edited the product, the storefront shows
the price the run read until its own push is over.

**Sessions.**  `Base` says what a request carries at each statement (`Shaped`) and that
no token is held that was not issued.  Three implications go with it, each about the
histories in which its hypothesis still holds.  Undisturbed, a browser has one `/auth`
request, it presents what the jar holds, the jar holds a rotated token only while the
answer that replaces it is on its way (`Rotating`), and each token is in one place:
so no rotated token is ever presented, and nothing is burned.  With nothing seen at
all, a live token is in a jar or in a request (`NothingStray`).  Until somebody signs
in over a session, tokens, tabs and calls of a browser are one user's (`OneUser`),
which is why rows are never another's.  `LiveSessionsAreServed` follows from the first: a
refresh presents what the jar holds, which is not revoked, so it is refused only
where the jar was empty; a replay carries a token (`ReplaysCarry`), so it is refused
only when that has lapsed.

**Invites.**  An organization has one sign-up that may found it (`OneFounder`);
invitations of one address that never overlapped are one at a time
(`OneInvitation`), and between the expiry of the outstanding codes and the new row
no other code appears (`Cleared`).

**Agent loop.**  `Bounds` counts the requests sent against loop, round and attempt
(`Spent`), which is nonlinear in the bounds and why `RoundSpends` is a lemma of its
own.  `Records` relates the transcript to the evidence: each is told and recorded
once, what is told is recorded with the same ending, a call that ended in this round
is recorded and not yet told, and there is nothing else.

**Stream.**  What a fold or the parser makes of a whole sequence is the end of its trace,
the states after each element (`FoldIsTrace`, `SplitSteps`); that the trace exists, is
one, and has a property all along is shown by the least position that would be an
exception (`SmallestExists`), since the induction theorems cannot be used.  A
position in the bytes is a phase of a frame (`Part` is what the buffer holds in it,
`Carry` how one piece goes on) and a number of events given out; `Run` says that some
bytes lead from one position to another.  Runs are put together, cut anywhere and carried
over to a longer log (`RunConcat`, `RunSplit`, `RunExtend`), a written frame or
comment is one (`FrameRun`, `CommentRun`), and the parser follows them (`SplitRun`).
`StreamInv` then needs no more than this: a stream that is not the page's is over or
aborted (`RunOk`); while the page's is being read, the screen shows the events given
out, the buffer holds the frame under way, and what is on the way is a run to the
end of the log, or to anywhere when the connection was cut (`Delivered`, `Waiting`);
when it is over, the screen shows what it should (`Shows`).  `ChunksDoNotMatter` is about
any bytes, well-formed or not: what the first chunk leaves holds no whole frame, so
reading it again before the second gives no event and restores it (`BufferReadAgain`).

**Catalog.**  `Rules` says, besides the rules of a row, what a request knows
before it writes: an edit, an execution or a rollback that is not stale
(`Fresh`) would leave a row that keeps the rules, because it was checked
against the row as it still is, or was in it before, and its product has
existed.  A write over another's makes the pending writes of that product
stale; a stale one that is made puts its product into `crossed`; every other
step leaves a request's knowledge true.  `Accounts` counts the row a request
is about to write with the rows of the trail: of each product one member at
most has told or is about to tell of its creation, one of its deletion, and
all are accounted for while no write failed.

**Pages.**  Each part has an invariant that its own steps keep and the other
parts' steps leave alone; `PagesInvariant` is their conjunction.

* Queue.  The page at rest is not inductive by itself.  `Settled` says that
  once no decision waits for its answer (`Undecided = {}`), a cached list not
  marked invalid and a read answer on its way each agree with the server, but
  for what others changed since: each is the newest page of what was pending
  (`Agrees`).  Each decision's answer invalidates and starts the fetch anew,
  so that an answer read before it is never the last to arrive; this is why
  the list needs no merging, however many decisions overlap.
* Decision page.  While one analyst works alone, on the queue's tab, one call at a
  time (`calm`), the callbacks of every call run (`OneCall`), the toast's
  recommendation was decided here (`ToastIsOwn`), and list and address follow the
  queue (`PaneFollows`): with nothing under way they are the queue's, and before that
  they hold nothing but the queue and what the decision under way has taken from it.
* Catalog page.  An answer that is kept, or on its way, is the server's page, but for
  what others wrote, unless it is known to be out of date or a write was handled that
  is yet to make it known (`CacheFollows`); and a table at rest without an error shows
  the answer kept for its filters, which is not known to be out of date
  (`ShowsCached`).  What differs from the row in a form was typed into it
  (`DirtIsTyped`): a form opened over other values than it had is filled in anew.  `ShopTyped`
  bounds pages and pagers; for it the page is counted by positions, and the lemmas
  about a shelf without repetition say what counting leaves.
* Settings.  `Origins` says where a value shown, drafted, sent or saved comes from
  (`ChosenFor`), until somebody signs out with a save or a load under way, and
  `LoadIsOwn` the same of a load; `Turns` that, where saves took turns with each other
  and with the loads, settings, trail and session are as far along as the one save's
  position says, and `LoadTurns` that a load then has read what is saved.  What a list
  shows or is about to show is the server's, or the answer of a write will have it
  fetched, or a fetch or a report of a failure was wrong (`ListFollows`).
* Audit log and export.  What a page read by cursor has not shown is older than its
  cursor (`Reads`, `FileFollows`): new entries are newer than all, so they never
  fall in between; an entry committed late does, and is what `basis` leaves out.  `PageShows` says
  that a page is the newest entries below its cursor and that the next cursor is the
  last of them; it rests on `NewestShows` about the newest `k` of a finite set, and
  that on `MinExists`: a set of naturals has a least element, taken from the
  well-foundedness of `<`, since the induction theorems cannot be used here.

**Only model-checked.**  Liveness: `HandlersAnswer`, `FailedPushRequeues`, `RunIsAnswered`,
`AgentEnds`, `EveryRunFinishes` and `ScreenSettles` rest on fairness and `ENABLED`, which
the prover does not handle.  Every other property of a passing run, type invariants, safety
invariants, action properties and the refinement, is a theorem.

## 5. Not modelled

* The dashboard, the public and account pages' visuals, the command palette, theme
  and layout: they render what they read and keep no state a property speaks of.
* The contents of the agents' tools and prompts: a tool's data and a model's output
  are inputs.  The cache of model answers is a development aid keyed on the whole
  request.
* Request middleware: stateless checks of one request; the rate limiter counts in a
  library.
* Seed scripts, synthetic data, the OpenAPI builder, Docker, CI, health checks and
  logging; the design prototype under `src/new-design/`, whose `support.js` is the
  drawing tool's own runtime.
* Numbers: prices are integers (cents) and confidences hundredths; the code computes
  in doubles and rounds to these.
* Several processes of the server: the code assumes one where it keeps anything in
  memory, and nothing modelled does.

## 6. Plan

Done: every component of section 1 modelled and checked; the safety properties of all
of them proved.

Next, in this order:

1. An abstract run (pending, published or failed) that `Pipeline` refines, and an
   abstract ledger of decisions that `Decisions` refines.
2. The composition of `Queue` with `Decisions`, in place of the one-step server of
   `Queue`.
