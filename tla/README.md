# Verification of the OpenAI Responses gateway handler

This directory holds TLA+ models of sub2api's OpenAI Responses endpoint,
`OpenAIGatewayHandler.Responses` in
`src/backend/internal/handler/openai_gateway_handler.go`. It contains the
TLC configurations that check the models on small instances and the TLAPS
proofs of their main invariants.

## The system and how its parts interact

One goroutine runs `Responses` for each HTTP request. Going through it, the
request:

1. passes the preflight checks (lines 59-143): authentication context, body
   read, JSON parse, model present, and the function-call check;
2. takes a place in the user's wait queue (`IncrementWaitCount`, 156-175);
3. waits for a user concurrency slot (`AcquireUserSlotWithWait`, 177-194).
   A streaming request may receive heartbeat pings while it waits, which
   commit the SSE response (`streamStarted`);
4. re-checks billing (196-203);
5. runs the account loop (213-334):
   - select an account that supports the model, sticky session first
     (`SelectAccountWithLoadAwareness`);
   - take an account slot directly, or through an account wait queue and
     `AcquireAccountSlotWithWaitTimeout`;
   - bind the sticky session, on a best-effort basis;
   - call `Forward` and release the account slot;
   - on an `UpstreamFailoverError`, exclude the account and try again, up to
     `maxAccountSwitches` switches.

Every slot release is wrapped by `wrapReleaseOnDone`. A watcher goroutine
calls the release when the request context is done, and a once-guard keeps
that call and the explicit or deferred release from both taking effect. The
wait counters are decremented explicitly after admission, and also by
`defer`s guarded by `waitCounted` and `accountWaitCounted`. The account-wait
defer is registered anew in every loop iteration.

Errors are answered in one of two ways:
- `handleStreamingAwareError`: JSON, or an SSE error event once the stream
  has started;
- `errorResponse`: always JSON.

Errors are recorded through `recordError` (435-504).

Several services are outside `src/`, and the model gives them the behaviour
the spec gives them:
- the concurrency service (Redis counters and once-guarded releases);
- the account selector and sticky bindings;
- the billing cache;
- the forwarder.

## Modules

| module | models |
|---|---|
| `OpenAIGatewayHandler` | the handler goroutines, the concurrency service's counters, the selector, the sticky bindings, the watchers |
| `MCOpenAIGatewayHandler` | the constants of the three small instances, and symmetry |
| `OpenAIGatewayHandlerProofs` | the TLAPS proofs: lemmas, the inductive invariant, the theorems |
| `ConcurrencySlots` | the concurrency controller's contract, stated over holders instead of counters, and its proof |
| `OpenAIGatewayRefinementProofs` | the TLAPS proof that the handler implements `ConcurrencySlots` |
| `OpenAIGatewayHistoryProofs` | the TLAPS proofs about the failover history and the error response |

**State.**
- The shared state: `userWait`, `userActive`, `accountWait`,
  `accountActive` (the service's counters) and `sticky` (the session bindings).
- Per request `r`:
  - `pc[r]`, the point the goroutine has reached;
  - its inputs `reqStream`, `reqModel`, `sessionHash`;
  - `ctxDone` and `streamStarted`;
  - the locals `waitCounted`, `account`, `accountWaitCounted` (the set of
    accounts whose wait the live defers will decrement), `failedAccountIDs`,
    `switchCount` and `lastFailoverStatus`;
  - `userSlot` and `accountSlot`, each `none`, `held` or `released` (the
    state of the once-guarded release);
  - for the properties: the history `attempts` (account and status of each
    upstream call) and `outcome` (type, status, upstream status and shape of
    the answer).

**Actions.** Each action is one branch of the code, from one blocking call
to the next, with its early returns. The returns run the defers
(`Return`), and the per-iteration release after `Forward` is part of every
Forward action (`ReleaseAccount`).
- Before the user slot: `Arrive`, `PreflightRejects`/`PreflightPasses`,
  `UserWaitStoreError`/`UserWaitAdmitted`/`UserWaitRejected`,
  `AcquireUserSlot`/`AcquireUserSlotFails`.
- Billing and selection: `BillingPasses`/`BillingFails`, `SelectAcquired`,
  `SelectWaitPlan`, `SelectNoAccount`, `SelectExhausted`.
- The account slot: `AccountWaitStoreError`/`AccountWaitAdmitted`/`AccountWaitRejected`,
  `AcquireAccountSlot`/`AcquireAccountSlotFails`, `AccountAdmitted` (this
  one includes the bind).
- Forward: `ForwardSucceeds`, `ForwardFailsOver`,
  `ForwardFailoverExhausted`, `ForwardErrors`.
- Environment actions: `Heartbeat`, `Cancel`, `StickyExpires`, and the two
  watchers `UserReleaseOnDone` and `AccountReleaseOnDone`.

`PROJECT.json` maps each definition to the source lines it translates.

**The contract and the refinement.** `ConcurrencySlots` says what the
concurrency controller promises its callers (spec 4.A, I1, P6), with no
counters. Per request it keeps `queued`, `holding`, `accQueued` and
`accHolding`: what the request holds. Its actions:
- `EnterUserQueue` and `EnterAccountQueue` (IncrementWait): admit only while
  the queue has fewer holders than `max_waiting`;
- `TakeUserSlot` and `TakeAccountSlot` (an immediate or waited acquire):
  grant only while the scope has fewer holders than its limit;
- `GiveBack(r)`: r gives back any part of what it holds (a return that runs
  several defers at once); nobody else's holdings change.

`OpenAIGatewayHandler` maps its state onto the contract as `Slots`:
- `queued` is `waitCounted`;
- `holding` is `userSlot = "held"` (`SlotsHolding`);
- `accQueued` is `accountWaitCounted`;
- `accHolding` is `{account}` while `accountSlot = "held"` (`SlotsAccHolding`).

`ImplementsSlots == Slots!SlotsSpec` is the property. The handler admits on
its counters and the contract on the holder sets, so the refinement holds
only if the counters really count the holders. A release that is not
once-guarded, or a defer that decrements someone else's place, breaks it.

**Abstractions.**
- Request bodies, error messages, account names and logging are left out.
- A response is the record `[kind, status, upstream, shape]`.
- `billingErrorDetails` has one representative status.
- Forward's outcome is a nondeterministic choice.
- An acquire that fails is either a timeout or a cancelled context: either
  way the handler takes the same early return.

## Runs

| run | cfg | checks | result |
|---|---|---|---|
| admission | `MCAdmission.cfg` | TypeOK, SlotAccounting, SlotsWithinLimits, HeldOnlyInScope, ErrorShapeFollowsStream | pass, 424k states |
| failover | `MCFailover.cfg` | SlotAccounting, FailoverBounded, ExhaustedReportsLastUpstream | pass, 1.28M states |
| liveness | `MCLiveness.cfg` | EveryRequestAnswered | pass, 15k states |
| refinement | `MCRefinement.cfg` | ImplementsSlots | pass, 424k states |
| inflight | `MCInFlight.cfg` | ForwardsWithinLimits | violation (a finding) |

**The properties.**
- `SlotAccounting`: every shared counter equals the number of requests that
  hold what it counts. It catches:
  - a double decrement from the watcher racing the deferred release;
  - a wait decremented both at line 187 and by the defer at 173;
  - a store-error path that decrements a count it never took;
  - an account-wait defer from a previous failover iteration.
- `HeldOnlyInScope`: a request holds a place or a slot only between the line
  that takes it and the one that releases it. In particular, a request that
  has returned holds nothing.
- `SlotsWithinLimits`: the holders never exceed the limits passed to the
  service.
- `FailoverBounded`: at most `MaxAccountSwitches + 1` upstream calls, never
  the same account twice.
- `ExhaustedReportsLastUpstream`: an exhausted failover reports the status of
  the last upstream call, both to the client (through `mapUpstreamError`) and
  in the log. And a request that has already called upstream is never
  answered `no_account` (lines 219-227): that answer is only right before the
  first call. The mutant of the run makes the report stale. Dropping the
  `len(failedAccountIDs) == 0` guard also breaks the property.
  The `WaitPlan == nil` branch at lines 237-240 also answers `no_account`.
  It is not modelled, because the spec's selector always gives a plan to an
  account it does not acquire.
- `TypeOK` is checked once, on the admission run.
- `ErrorShapeFollowsStream`: once a ping has started the SSE stream, an error
  is an SSE event, not a JSON body.
- `EveryRequestAnswered`: every request that arrives eventually returns.
- `ImplementsSlots`: the handler, with its counters read as holder sets, is
  a behaviour of `ConcurrencySlots`. The refinement run uses the admission
  constants, where both queues and both kinds of slot fill up.

**Bounds.**
- Admission: three requests of one user, two user slots and a one-place user
  queue, one account with one slot and a one-place queue. So one request
  queues on the user, and one of the two admitted requests queues on the
  account.
- Failover: two requests and two accounts, three models. The models are
  served by both accounts, by a1 only, and by none, which drives selection to
  its error paths. There is a sticky session, two failover statuses with
  different client mappings, and one switch. So exhaustion happens both
  inside Forward and at selection.
- Liveness: two requests that keep coming back and contend for one user slot
  and one account.
- Symmetry over the requests is sound: they share the user and their inputs
  are chosen by `\E`. It is not used for the liveness run.

**Fairness.**
- Weak fairness of each handler goroutine (`Handler(r)`): a runnable
  goroutine is scheduled, and every blocking acquire in the code has a
  timeout, so it cannot block forever.
- Weak fairness of each watcher: its goroutine blocks only on `ctx.Done()`.
- Clients (`Arrive`, `Cancel`), the heartbeat ticker and the sticky TTL get
  no fairness.

**The finding.** The `inflight` run checks spec 3: concurrency bounds the
simultaneous in-flight requests. The check finds a violation:
1. a request is cancelled while inside `Forward`;
2. the watcher of line 284 releases its account slot at once;
3. a second request selects the same account and enters `Forward`.

Now two requests are forwarding on an account with one slot.

The code does what spec sections 5 and 9 prescribe: it releases on context
done, as the comments at lines 190 and 283 intend. So this is a conflict
inside the spec, between section 3's in-flight bound and section 9's
release-on-done design. It is recorded as a spec gap, not a code bug. The
overlap is with a `Forward` whose context is already cancelled.

**Mutants.** Each property of each passing run has a mutant in
`PROJECT.json`: a plausible bug in the code that TLC must then catch.
- `Return` releasing the user slot without the once-guard;
- `Return` skipping the per-iteration account-wait defers;
- `AccountAdmitted` leaving `accountWaitCounted` set;
- an off-by-one in the user-slot guard;
- an acquire failure answered as JSON;
- failover keeping the failed account as a candidate;
- exhaustion reporting the previous status;
- an acquire that fails only on cancellation, never on timeout;
- the release after `Forward` decrementing without the once-guard
  (for `ImplementsSlots`).

## Proofs

`OpenAIGatewayHandlerProofs` proves, for every value of the constants that
satisfies `GatewayAssumption` (finite non-empty sets, natural limits):

- `TypeCorrect`: `Spec => []TypeOK`;
- `SlotAccountingInvariant`: `Spec => []SlotAccounting`;
- `HeldOnlyInScopeInvariant`: `Spec => []HeldOnlyInScope`.

None of the three is inductive alone. `TypeOK` says the counters are
naturals, but a decrement keeps a counter natural only if it was positive,
and that holds only because the counter equals a non-empty holder set. So
the proof uses `IInv == TypeOK /\ SlotAccounting /\ HeldOnlyInScope`, which
TLC also checks on the admission run.

`HeldOnlyInScope` is what makes the counting go through. It says:
- a request at `forward` holds its account slot on `account[r]`;
- the account-wait defers are registered only for the current account;
- a returning request's defers therefore remove exactly its own entries from
  the holder sets.

The lemmas are:
- `CardinalityAtPoint`, `CounterStep` and `AccountingStep`: a counter and a
  holder set that change at one request by the same delta keep their
  equality;
- `ScopeStep` and `ScopeAt`: an action that touches only request `r` keeps
  every other request's scope;
- one lemma per action, `XIInv`, proving `IInv'`.

`NextIInv` combines the action lemmas, and each theorem ends
`BY InitIInv, NextIInv, PTL DEF Spec`.

`ConcurrencySlots` proves `LeasesStayWithinLimits`: under `SlotsConstants`
(finitely many requests, natural limits), `SlotsSpec => []LeasesWithinLimits`.
The inductive invariant is the type invariant plus the bound itself. An
acquire adds one holder to a set that was below its limit, and a give-back
shrinks the sets (`BoundedGrowth`).

`OpenAIGatewayRefinementProofs` proves:
- `Refinement`: `Spec => ImplementsSlots`.
  - `InitRefines` shows that the initial states map to `SlotsInit`.
  - `NextRefines` shows that under `IInv` every step maps to a contract step
    or a stutter, with one lemma per action (`XRefines`):
    - The five acquires (`UserWaitAdmitted`, `AcquireUserSlot`,
      `AccountWaitAdmitted`, `AcquireAccountSlot`, `SelectAcquired`) map to
      the matching contract acquire. `SlotAccounting` turns the counter guard
      (`userWait < maxWait`, ...) into the contract's cardinality guard, and
      `HeldOnlyInScope` shows that the request did not already hold the
      thing.
    - Every other action of request r is a `GiveBack(r)`. `GiveBackStep`
      turns the two facts `Shrinks(r)` (r holds nothing new) and
      `OthersUnchanged(r)` into the contract step.
    - `StickyExpires` is a stutter.
- `SlotsWithinLimitsInvariant`: `Spec => []SlotsWithinLimits`. It follows
  from `Refinement`, the contract's `LeasesStayWithinLimits` (its constants
  assumption follows from `GatewayAssumption`), and `MappedSets`, which shows
  that the mapped holder sets are the handler's.

`OpenAIGatewayHistoryProofs` proves three theorems, for every value of the
constants (the switch budget included):
- `FailoverBoundedInvariant`: `Spec => []FailoverBounded`;
- `ExhaustedReportsLastUpstreamInvariant`: `Spec => []ExhaustedReportsLastUpstream`;
- `ErrorShapeFollowsStreamInvariant`: `Spec => []ErrorShapeFollowsStream`.

None of the three properties is inductive. Each one speaks only about what a
returned request leaves behind: `attempts` and `outcome`. Whether a return
writes the right thing depends on what the failover loop keeps while it
runs. `HistoryAt(r)` adds that, per request. While `pc[r]` is not idle:
- no response has been written (`outcome[r] = NoOutcome`);
- there is one recorded call per switch (`Len(attempts[r]) = switchCount[r]`),
  and `switchCount[r] <= maxAccountSwitches`;
- `failedAccountIDs[r]` is exactly the set of accounts already called;
- `lastFailoverStatus[r]` is the status of the last recorded call.

It also adds two facts about particular points of the loop:
- the selected account is not a failed one, from the selection to Forward;
- the stream has not started at preflight or at the user wait queue.

These facts are what let each return prove its part:
- A return after Forward appends one call, so the bound is `switchCount + 1`.
  The call is to a fresh account, so the accounts stay distinct.
- `SelectExhausted` reports `lastFailoverStatus`. A non-empty failed set
  means a non-empty history, so this is the status of its last entry.
- The JSON errors of preflight and of a full user queue come before any
  heartbeat.
- `SelectNoAccount` answers only when the failed set is empty. The failed
  set equals the accounts called, so the history is empty (`UncalledEmpty`).
  Every other return writes a different kind, and a returned request's
  history no longer changes.

TLC checked `HInv == \A r : HistoryAt(r)` as an invariant on the failover
and admission instances (1.28M and 424k distinct states) before it was
proved. The lemmas are:
- `AppendCall`, about a history that gains a call;
- `HistoryFrame`, which says `HistoryAt(q)` reads only `HVarsAt(q)`;
- four step shapes: `LoopStep`, `EarlyReturn`, `ForwardReturn` and
  `FailoverStep`;
- one lemma per action, `XHInv`.

`NextHInv` uses `IInv` for the types, and for the fact that the account at
Forward is an account. `HistoryInvariant` shows `Spec => [](IInv /\ HInv)`.

Only TLC checks `EveryRequestAnswered`, because TLAPS does not handle
liveness under fairness or ENABLED. No action property is stated separately.
The one-step constraints on the slot counters (a decrement only when its
holder gives the slot back) are part of `Refinement`.

## Not modelled

- The cache-token transfer (`src/unnamed/part_000`, `part_001`, and the e2e
  test `cache_transfer_e2e_test.go`) is arithmetic over usage counts and is
  planned as an algorithm module.
- The SQL migrations (`part_002`, `part_003`) are DDL.
- The admin Vue views (`UserBalanceModal`, `UsageErrorDetailDialog`,
  `SensitiveSettingsView`) are UI.
- Also left out of the handler:
  - the asynchronous usage and error-log goroutines (318, 497);
  - the Authorization-header truncation inside `recordError` (460-461).

## Plan for later sittings

1. An algorithm module for cache-token transfer, checked against a reference
   definition over bounded token counts, including its rounding.
2. The header sanitisation of `recordError`.
3. An action property about a request's response: once a request has
   returned, its response and history stay final until its goroutine takes
   the next request.
4. A fault model for the decrements of lines 173 and 187, which run on the
   request context and so after a cancel.
5. The submit flow of the balance modal.

Three spec discrepancies to settle:
- scenario 5 of the spec against the code's max+1 attempts;
- the P10 truncation length;
- rounding against truncation in cache transfer.
