------------------------- MODULE OpenAIGatewayHandler -------------------------
(***************************************************************************)
(* The OpenAI Responses handler of the gateway                             *)
(* (src/backend/internal/handler/openai_gateway_handler.go, Responses and  *)
(* the error helpers below it), run by many requests at once.               *)
(*                                                                         *)
(* Each request is a handler goroutine with its own program counter.  The  *)
(* requests share the concurrency service's counters (user wait queue,     *)
(* user slots, account wait queues, account slots) and the sticky-session  *)
(* bindings.  The concurrency service, the account selector and the        *)
(* forwarder are not under src/: their contracts are taken from spec.md    *)
(* sections 4.A, 4.B and 4.E, each call being one atomic step.              *)
(*                                                                         *)
(* Request data is abstracted to what the control flow tells apart: the    *)
(* stream flag, the requested model, the session hash and, for upstream    *)
(* failures, the upstream status code.                                     *)
(***************************************************************************)
EXTENDS Naturals, Integers, FiniteSets, Sequences

CONSTANTS
  Requests,            \* handler goroutines (model values)
  Users,               \* users owning the API keys
  Owner,               \* Owner[r]: the user whose key request r carries
  Concurrency,         \* Concurrency[u]: subject.Concurrency, user slots
  UserMaxWait,         \* UserMaxWait[u]: service.CalculateMaxWait(Concurrency[u])
  Accounts,            \* upstream accounts of the key's group
  AccountConcurrency,  \* WaitPlan.MaxConcurrency of each account
  AccountMaxWaiting,   \* WaitPlan.MaxWaiting of each account
  Models,              \* values of the body's "model" field
  Supports,            \* Supports[a]: the models account a serves
  Sessions,            \* session hashes, NoSession among them
  NoSession,           \* the empty session hash: no sticky binding
  NoAccount,           \* no account selected / no binding
  MaxAccountSwitches,  \* h.maxAccountSwitches
  FailoverStatuses,    \* UpstreamFailoverError status codes the upstream returns
  PingEnabled          \* concurrency.ping_interval_seconds > 0

ASSUME GatewayAssumption ==
  /\ IsFiniteSet(Requests) /\ Requests # {}
  /\ Owner \in [Requests -> Users]
  /\ Concurrency \in [Users -> Nat \ {0}]
  /\ UserMaxWait \in [Users -> Nat]
  /\ IsFiniteSet(Accounts)
  /\ AccountConcurrency \in [Accounts -> Nat \ {0}]
  /\ AccountMaxWaiting \in [Accounts -> Nat]
  /\ Models # {}
  /\ Supports \in [Accounts -> SUBSET Models]
  /\ NoSession \in Sessions
  /\ NoAccount \notin Accounts
  /\ MaxAccountSwitches \in Nat
  /\ FailoverStatuses \subseteq {401, 403, 429, 500, 502, 503, 504, 529}
  /\ PingEnabled \in BOOLEAN

VARIABLES
  \* state of the concurrency service, shared by all requests
  userWait,            \* user wait-queue counters
  userActive,          \* user slot counters
  accountWait,         \* account wait-queue counters
  accountActive,       \* account slot counters
  sticky,              \* StickyBinding: session hash -> account
  \* state of each handler goroutine
  pc,
  reqStream, reqModel, sessionHash,
  ctxDone,             \* c.Request.Context() is done (client gone)
  streamStarted,       \* a heartbeat has committed the SSE response
  waitCounted,         \* the user wait counter holds this request
  userSlot,            \* "none" | "held" | "released": userReleaseFunc
  account,             \* selection.Account of the current iteration
  accountWaitCounted,  \* accounts whose iteration's accountWaitCounted is set
  accountSlot,         \* "none" | "held" | "released": accountReleaseFunc
  failedAccountIDs,
  switchCount,
  lastFailoverStatus,
  attempts,            \* history: the Forward calls of this request
  outcome              \* what the client got and the error log recorded

shared == <<userWait, userActive, accountWait, accountActive, sticky>>
local == <<pc, reqStream, reqModel, sessionHash, ctxDone, streamStarted,
           waitCounted, userSlot, account, accountWaitCounted, accountSlot,
           failedAccountIDs, switchCount, lastFailoverStatus, attempts,
           outcome>>
vars == <<shared, local>>

-----------------------------------------------------------------------------
(* Values.                                                                 *)

PCs == {"idle", "preflight", "incWait", "acqUser", "userAdmitted", "select",
        "accWait", "acqAcc", "accAdmitted", "forward"}
SlotStates == {"none", "held", "released"}
ErrorTypes == {"preflight", "concurrency_limit", "billing_error",
               "no_account", "upstream_error", "forward_error"}
Shapes == {"none", "json", "sse", "forwarder"}
Outcome == [kind : ErrorTypes \cup {"none", "success"}, status : Nat,
            upstream : Nat, shape : Shapes]
NoOutcome == [kind |-> "none", status |-> 0, upstream |-> 0, shape |-> "none"]
Attempt == [acct : Accounts, status : Nat]

(* mapUpstreamError (lines 348-363): the client status for an upstream one. *)
MapUpstreamError(code) ==
  CASE code \in {401, 403}           -> 502
    [] code = 429                    -> 429
    [] code = 529                    -> 503
    [] code \in {500, 502, 503, 504} -> 502
    [] OTHER                         -> 502

(* billingErrorDetails is outside src/: one representative status.         *)
BillingStatus == 403

ReqsOf(u) == {r \in Requests : Owner[r] = u}

-----------------------------------------------------------------------------
(* Helpers of the handler.                                                 *)

Goto(r, l) == pc' = [pc EXCEPT ![r] = l]

(* recordError followed by handleStreamingAwareError: the error log and the *)
(* response share type and status; once a heartbeat has started the SSE    *)
(* stream the error goes out as an SSE error event (lines 365-383).        *)
RespondStreamingAware(r, kind, status, up) ==
  outcome' = [outcome EXCEPT ![r] =
                [kind |-> kind, status |-> status, upstream |-> up,
                 shape |-> IF streamStarted[r] THEN "sse" ELSE "json"]]

(* recordError followed by a plain errorResponse (lines 385-393).          *)
RespondJSON(r, kind, status) ==
  outcome' = [outcome EXCEPT ![r] =
                [kind |-> kind, status |-> status, upstream |-> 0, shape |-> "json"]]

(* The goroutine's locals die when Responses returns; only what it left    *)
(* behind (its response, its slot states, its history) stays observable.   *)
DropLocals(r) ==
  /\ reqModel' = [reqModel EXCEPT ![r] = CHOOSE m \in Models : TRUE]
  /\ sessionHash' = [sessionHash EXCEPT ![r] = NoSession]
  /\ ctxDone' = [ctxDone EXCEPT ![r] = FALSE]
  /\ account' = [account EXCEPT ![r] = NoAccount]
  /\ failedAccountIDs' = [failedAccountIDs EXCEPT ![r] = {}]
  /\ switchCount' = [switchCount EXCEPT ![r] = 0]
  /\ lastFailoverStatus' = [lastFailoverStatus EXCEPT ![r] = 0]

(* Faulty variants of Return: a deferred user release without the once   *)
(* guard, and a return that forgets the per-iteration account-wait defer.  *)
ReturnReleasesUnguarded(r) ==
  LET u == Owner[r] IN
  /\ userWait' = IF waitCounted[r] THEN [userWait EXCEPT ![u] = @ - 1]
                                   ELSE userWait
  /\ userActive' = IF userSlot[r] # "none" THEN [userActive EXCEPT ![u] = @ - 1]
                                           ELSE userActive
  /\ accountWait' = [a \in Accounts |->
                       IF a \in accountWaitCounted[r] THEN accountWait[a] - 1
                                                      ELSE accountWait[a]]
  /\ waitCounted' = [waitCounted EXCEPT ![r] = FALSE]
  /\ userSlot' = [userSlot EXCEPT ![r] = IF @ = "held" THEN "released" ELSE @]
  /\ accountWaitCounted' = [accountWaitCounted EXCEPT ![r] = {}]
  /\ Goto(r, "idle")
  /\ DropLocals(r)

ReturnSkipsAccountDefer(r) ==
  LET u == Owner[r] IN
  /\ userWait' = IF waitCounted[r] THEN [userWait EXCEPT ![u] = @ - 1]
                                   ELSE userWait
  /\ userActive' = IF userSlot[r] = "held" THEN [userActive EXCEPT ![u] = @ - 1]
                                           ELSE userActive
  /\ accountWait' = accountWait
  /\ waitCounted' = [waitCounted EXCEPT ![r] = FALSE]
  /\ userSlot' = [userSlot EXCEPT ![r] = IF @ = "held" THEN "released" ELSE @]
  /\ accountWaitCounted' = accountWaitCounted
  /\ Goto(r, "idle")
  /\ DropLocals(r)

(* Return from Responses: the deferred calls run.  Line 171: the user wait *)
(* decrement if still counted; line 193: the wrapped user release; lines   *)
(* 255-259: each iteration's account wait decrement if still counted.  The *)
(* wrapped release functions are once-guarded (spec 9): a slot already     *)
(* released by its watcher is not released again.                         *)
Return(r) ==
  LET u == Owner[r] IN
  /\ userWait' = IF waitCounted[r] THEN [userWait EXCEPT ![u] = @ - 1]
                                   ELSE userWait
  /\ userActive' = IF userSlot[r] = "held" THEN [userActive EXCEPT ![u] = @ - 1]
                                           ELSE userActive
  /\ accountWait' = [a \in Accounts |->
                       IF a \in accountWaitCounted[r] THEN accountWait[a] - 1
                                                      ELSE accountWait[a]]
  /\ waitCounted' = [waitCounted EXCEPT ![r] = FALSE]
  /\ userSlot' = [userSlot EXCEPT ![r] = IF @ = "held" THEN "released" ELSE @]
  /\ accountWaitCounted' = [accountWaitCounted EXCEPT ![r] = {}]
  /\ Goto(r, "idle")
  /\ DropLocals(r)

(* Faulty variant: the account release is not once-guarded.              *)
ReleaseAccountUnguarded(r) ==
  /\ accountActive' = IF accountSlot[r] # "none"
                        THEN [accountActive EXCEPT ![account[r]] = @ - 1]
                        ELSE accountActive
  /\ accountSlot' = [accountSlot EXCEPT ![r] = IF @ = "held" THEN "released" ELSE @]

(* accountReleaseFunc() after Forward (lines 288-290), once-guarded.       *)
ReleaseAccount(r) ==
  /\ accountActive' = IF accountSlot[r] = "held"
                        THEN [accountActive EXCEPT ![account[r]] = @ - 1]
                        ELSE accountActive
  /\ accountSlot' = [accountSlot EXCEPT ![r] = IF @ = "held" THEN "released" ELSE @]

(* SelectAccountWithLoadAwareness (spec 4.B): healthy accounts serving the *)
(* model, minus the failed ones; the live sticky binding ranks first, then *)
(* accounts by load active/max ascending, ties in any order.               *)
Candidates(r) == {a \in Accounts : reqModel[r] \in Supports[a]} \ failedAccountIDs[r]
StickyOf(r) == IF sessionHash[r] = NoSession THEN NoAccount ELSE sticky[sessionHash[r]]
LoadLeq(a, b) == accountActive[a] * AccountConcurrency[b]
                   <= accountActive[b] * AccountConcurrency[a]
HasFreeSlot(a) == accountActive[a] < AccountConcurrency[a]
TopRanked(r, S, a) ==
  IF StickyOf(r) \in S THEN a = StickyOf(r) ELSE \A b \in S : LoadLeq(a, b)

-----------------------------------------------------------------------------
(* Initial state: no request in flight, counters at zero, no bindings.     *)

Init ==
  /\ userWait = [u \in Users |-> 0]
  /\ userActive = [u \in Users |-> 0]
  /\ accountWait = [a \in Accounts |-> 0]
  /\ accountActive = [a \in Accounts |-> 0]
  /\ sticky = [s \in Sessions \ {NoSession} |-> NoAccount]
  /\ pc = [r \in Requests |-> "idle"]
  /\ reqStream = [r \in Requests |-> FALSE]
  /\ reqModel = [r \in Requests |-> CHOOSE m \in Models : TRUE]
  /\ sessionHash = [r \in Requests |-> NoSession]
  /\ ctxDone = [r \in Requests |-> FALSE]
  /\ streamStarted = [r \in Requests |-> FALSE]
  /\ waitCounted = [r \in Requests |-> FALSE]
  /\ userSlot = [r \in Requests |-> "none"]
  /\ account = [r \in Requests |-> NoAccount]
  /\ accountWaitCounted = [r \in Requests |-> {}]
  /\ accountSlot = [r \in Requests |-> "none"]
  /\ failedAccountIDs = [r \in Requests |-> {}]
  /\ switchCount = [r \in Requests |-> 0]
  /\ lastFailoverStatus = [r \in Requests |-> 0]
  /\ attempts = [r \in Requests |-> <<>>]
  /\ outcome = [r \in Requests |-> NoOutcome]
-----------------------------------------------------------------------------
(* A new request reaches Responses on goroutine r, whose previous request  *)
(* has returned.  The stream flag, model and session hash are inputs.      *)
Arrive(r) ==
  /\ pc[r] = "idle"
  /\ \E st \in BOOLEAN, m \in Models, s \in Sessions :
       /\ reqStream' = [reqStream EXCEPT ![r] = st]
       /\ reqModel' = [reqModel EXCEPT ![r] = m]
       /\ sessionHash' = [sessionHash EXCEPT ![r] = s]
  /\ ctxDone' = [ctxDone EXCEPT ![r] = FALSE]
  /\ streamStarted' = [streamStarted EXCEPT ![r] = FALSE]
  /\ userSlot' = [userSlot EXCEPT ![r] = "none"]
  /\ account' = [account EXCEPT ![r] = NoAccount]
  /\ accountSlot' = [accountSlot EXCEPT ![r] = "none"]
  /\ failedAccountIDs' = [failedAccountIDs EXCEPT ![r] = {}]
  /\ switchCount' = [switchCount EXCEPT ![r] = 0]
  /\ lastFailoverStatus' = [lastFailoverStatus EXCEPT ![r] = 0]
  /\ attempts' = [attempts EXCEPT ![r] = <<>>]
  /\ outcome' = [outcome EXCEPT ![r] = NoOutcome]
  /\ Goto(r, "preflight")
  /\ UNCHANGED <<shared, waitCounted, accountWaitCounted>>

(* Lines 59-143: authentication context, body read, JSON parse, model      *)
(* required, instructions injection and the function_call_output check.    *)
(* A rejection answers a JSON error (401, 500, 413 or 400) before any      *)
(* counter is touched and before the error recording context exists, so    *)
(* the usage log records nothing ("preflight").                            *)
PreflightStatuses == {400, 401, 413, 500}

PreflightRejects(r) ==
  /\ pc[r] = "preflight"
  /\ \E st \in PreflightStatuses :
       outcome' = [outcome EXCEPT ![r] =
                     [kind |-> "preflight", status |-> st, upstream |-> 0,
                      shape |-> "json"]]
  /\ Goto(r, "idle")
  /\ UNCHANGED <<shared, reqStream, reqModel, sessionHash, ctxDone,
                 streamStarted, waitCounted, userSlot, account,
                 accountWaitCounted, accountSlot, failedAccountIDs,
                 switchCount, lastFailoverStatus, attempts>>

PreflightPasses(r) ==
  /\ pc[r] = "preflight"
  /\ Goto(r, "incWait")
  /\ UNCHANGED <<shared, reqStream, reqModel, sessionHash, ctxDone,
                 streamStarted, waitCounted, userSlot, account,
                 accountWaitCounted, accountSlot, failedAccountIDs,
                 switchCount, lastFailoverStatus, attempts, outcome>>

(* Lines 156-170: IncrementWaitCount.  On a store error the request goes   *)
(* on uncounted (line 162); a full queue answers 429 JSON (lines 163-166). *)
UserWaitStoreError(r) ==
  /\ pc[r] = "incWait"
  /\ Goto(r, "acqUser")
  /\ UNCHANGED <<shared, reqStream, reqModel, sessionHash, ctxDone,
                 streamStarted, waitCounted, userSlot, account,
                 accountWaitCounted, accountSlot, failedAccountIDs,
                 switchCount, lastFailoverStatus, attempts, outcome>>

UserWaitAdmitted(r) ==
  LET u == Owner[r] IN
  /\ pc[r] = "incWait"
  /\ userWait[u] < UserMaxWait[u]
  /\ userWait' = [userWait EXCEPT ![u] = @ + 1]
  /\ waitCounted' = [waitCounted EXCEPT ![r] = TRUE]
  /\ Goto(r, "acqUser")
  /\ UNCHANGED <<userActive, accountWait, accountActive, sticky, reqStream,
                 reqModel, sessionHash, ctxDone, streamStarted, userSlot,
                 account, accountWaitCounted, accountSlot, failedAccountIDs,
                 switchCount, lastFailoverStatus, attempts, outcome>>

UserWaitRejected(r) ==
  LET u == Owner[r] IN
  /\ pc[r] = "incWait"
  /\ userWait[u] >= UserMaxWait[u]
  /\ RespondJSON(r, "concurrency_limit", 429)
  /\ Goto(r, "idle")
  /\ UNCHANGED <<shared, reqStream, reqModel, sessionHash, ctxDone,
                 streamStarted, waitCounted, userSlot, account,
                 accountWaitCounted, accountSlot, failedAccountIDs,
                 switchCount, lastFailoverStatus, attempts>>

(* Lines 178-184: AcquireUserSlotWithWait.  A free slot is reserved; the   *)
(* wait ends in an error when its deadline passes or the client goes away, *)
(* which can happen at any moment of the wait (also just as a slot frees). *)
(* Faulty variant: the slot test is off by one.                           *)
AcquireUserSlotOffByOne(r) ==
  LET u == Owner[r] IN
  /\ pc[r] = "acqUser"
  /\ userActive[u] <= Concurrency[u]
  /\ userActive' = [userActive EXCEPT ![u] = @ + 1]
  /\ userSlot' = [userSlot EXCEPT ![r] = "held"]
  /\ Goto(r, "userAdmitted")
  /\ UNCHANGED <<userWait, accountWait, accountActive, sticky, reqStream,
                 reqModel, sessionHash, ctxDone, streamStarted, waitCounted,
                 account, accountWaitCounted, accountSlot, failedAccountIDs,
                 switchCount, lastFailoverStatus, attempts, outcome>>

AcquireUserSlot(r) ==
  LET u == Owner[r] IN
  /\ pc[r] = "acqUser"
  /\ userActive[u] < Concurrency[u]
  /\ userActive' = [userActive EXCEPT ![u] = @ + 1]
  /\ userSlot' = [userSlot EXCEPT ![r] = "held"]
  /\ Goto(r, "userAdmitted")
  /\ UNCHANGED <<userWait, accountWait, accountActive, sticky, reqStream,
                 reqModel, sessionHash, ctxDone, streamStarted, waitCounted,
                 account, accountWaitCounted, accountSlot, failedAccountIDs,
                 switchCount, lastFailoverStatus, attempts, outcome>>

(* Faulty variants: the error written as a plain JSON response whatever   *)
(* the heartbeat did, and a wait with no deadline that ends only when the  *)
(* client goes away.                                                       *)
AcquireUserSlotFailsJSON(r) ==
  /\ pc[r] = "acqUser"
  /\ RespondJSON(r, "concurrency_limit", 429)
  /\ Return(r)
  /\ UNCHANGED <<accountActive, sticky, reqStream, streamStarted, accountSlot, attempts>>

AcquireUserSlotFailsOnCancelOnly(r) ==
  /\ pc[r] = "acqUser"
  /\ ctxDone[r]
  /\ RespondStreamingAware(r, "concurrency_limit", 429, 0)
  /\ Return(r)
  /\ UNCHANGED <<accountActive, sticky, reqStream, streamStarted, accountSlot, attempts>>

AcquireUserSlotFails(r) ==
  /\ pc[r] = "acqUser"
  /\ RespondStreamingAware(r, "concurrency_limit", 429, 0)
  /\ Return(r)
  /\ UNCHANGED <<accountActive, sticky, reqStream, streamStarted, accountSlot, attempts>>

(* The heartbeat of a streaming request suspended on a full scope writes   *)
(* ": ping" and sets streamStarted (spec 4.A).                              *)
Heartbeat(r) ==
  /\ PingEnabled
  /\ reqStream[r]
  /\ ~streamStarted[r]
  /\ \/ pc[r] = "acqUser" /\ userActive[Owner[r]] >= Concurrency[Owner[r]]
     \/ pc[r] = "acqAcc" /\ ~HasFreeSlot(account[r])
  /\ streamStarted' = [streamStarted EXCEPT ![r] = TRUE]
  /\ UNCHANGED <<shared, pc, reqStream, reqModel, sessionHash, ctxDone,
                 waitCounted, userSlot, account, accountWaitCounted,
                 accountSlot, failedAccountIDs, switchCount,
                 lastFailoverStatus, attempts, outcome>>

(* Lines 185-203: the wait decrement (186-189), wrapReleaseOnDone and the  *)
(* deferred release (191-194), then CheckBillingEligibility.  On a billing *)
(* error the return runs the defers; the wait is decremented once, by line *)
(* 187 or by line 173, never by both.                                      *)
BillingPasses(r) ==
  LET u == Owner[r] IN
  /\ pc[r] = "userAdmitted"
  /\ userWait' = IF waitCounted[r] THEN [userWait EXCEPT ![u] = @ - 1]
                                   ELSE userWait
  /\ waitCounted' = [waitCounted EXCEPT ![r] = FALSE]
  /\ Goto(r, "select")
  /\ UNCHANGED <<userActive, accountWait, accountActive, sticky, reqStream,
                 reqModel, sessionHash, ctxDone, streamStarted, userSlot,
                 account, accountWaitCounted, accountSlot, failedAccountIDs,
                 switchCount, lastFailoverStatus, attempts, outcome>>

BillingFails(r) ==
  /\ pc[r] = "userAdmitted"
  /\ RespondStreamingAware(r, "billing_error", BillingStatus, 0)
  /\ Return(r)
  /\ UNCHANGED <<accountActive, sticky, reqStream, streamStarted, accountSlot, attempts>>

(* Lines 216-236: SelectAccountWithLoadAwareness.  The first account in    *)
(* rank order with a free slot is acquired on the spot (spec 4.B step 4).  *)
SelectAcquired(r) ==
  LET free == {a \in Candidates(r) : HasFreeSlot(a)} IN
  /\ pc[r] = "select"
  /\ \E a \in free :
       /\ TopRanked(r, free, a)
       /\ accountActive' = [accountActive EXCEPT ![a] = @ + 1]
       /\ account' = [account EXCEPT ![r] = a]
  /\ accountSlot' = [accountSlot EXCEPT ![r] = "held"]
  /\ Goto(r, "forward")
  /\ UNCHANGED <<userWait, userActive, accountWait, sticky, reqStream,
                 reqModel, sessionHash, ctxDone, streamStarted, waitCounted,
                 userSlot, accountWaitCounted, failedAccountIDs, switchCount,
                 lastFailoverStatus, attempts, outcome>>

(* No candidate has a free slot: a wait plan for the top-ranked one.       *)
SelectWaitPlan(r) ==
  /\ pc[r] = "select"
  /\ Candidates(r) # {}
  /\ \A a \in Candidates(r) : ~HasFreeSlot(a)
  /\ \E a \in Candidates(r) :
       /\ TopRanked(r, Candidates(r), a)
       /\ account' = [account EXCEPT ![r] = a]
  /\ accountSlot' = [accountSlot EXCEPT ![r] = "none"]
  /\ Goto(r, "accWait")
  /\ UNCHANGED <<shared, reqStream, reqModel, sessionHash, ctxDone,
                 streamStarted, waitCounted, userSlot, accountWaitCounted,
                 failedAccountIDs, switchCount, lastFailoverStatus, attempts,
                 outcome>>

(* Lines 217-223: no candidate and nothing failed yet: 503 no_account.     *)
SelectNoAccount(r) ==
  /\ pc[r] = "select"
  /\ Candidates(r) = {}
  /\ failedAccountIDs[r] = {}
  /\ RespondStreamingAware(r, "no_account", 503, 0)
  /\ Return(r)
  /\ UNCHANGED <<accountActive, sticky, reqStream, streamStarted, accountSlot, attempts>>

(* Lines 224-227: every candidate failed over: the last upstream status.   *)
SelectExhausted(r) ==
  /\ pc[r] = "select"
  /\ Candidates(r) = {}
  /\ failedAccountIDs[r] # {}
  /\ RespondStreamingAware(r, "upstream_error",
                           MapUpstreamError(lastFailoverStatus[r]),
                           lastFailoverStatus[r])
  /\ Return(r)
  /\ UNCHANGED <<accountActive, sticky, reqStream, streamStarted, accountSlot, attempts>>

(* Lines 242-259: IncrementAccountWaitCount with the plan's MaxWaiting.    *)
AccountWaitStoreError(r) ==
  /\ pc[r] = "accWait"
  /\ Goto(r, "acqAcc")
  /\ UNCHANGED <<shared, reqStream, reqModel, sessionHash, ctxDone,
                 streamStarted, waitCounted, userSlot, account,
                 accountWaitCounted, accountSlot, failedAccountIDs,
                 switchCount, lastFailoverStatus, attempts, outcome>>

AccountWaitAdmitted(r) ==
  LET a == account[r] IN
  /\ pc[r] = "accWait"
  /\ accountWait[a] < AccountMaxWaiting[a]
  /\ accountWait' = [accountWait EXCEPT ![a] = @ + 1]
  /\ accountWaitCounted' = [accountWaitCounted EXCEPT ![r] = @ \cup {a}]
  /\ Goto(r, "acqAcc")
  /\ UNCHANGED <<userWait, userActive, accountActive, sticky, reqStream,
                 reqModel, sessionHash, ctxDone, streamStarted, waitCounted,
                 userSlot, account, accountSlot, failedAccountIDs,
                 switchCount, lastFailoverStatus, attempts, outcome>>

AccountWaitRejected(r) ==
  LET a == account[r] IN
  /\ pc[r] = "accWait"
  /\ accountWait[a] >= AccountMaxWaiting[a]
  /\ RespondStreamingAware(r, "concurrency_limit", 429, 0)
  /\ Return(r)
  /\ UNCHANGED <<accountActive, sticky, reqStream, streamStarted, accountSlot, attempts>>

(* Lines 261-274: AcquireAccountSlotWithWaitTimeout.                       *)
AcquireAccountSlot(r) ==
  LET a == account[r] IN
  /\ pc[r] = "acqAcc"
  /\ HasFreeSlot(a)
  /\ accountActive' = [accountActive EXCEPT ![a] = @ + 1]
  /\ accountSlot' = [accountSlot EXCEPT ![r] = "held"]
  /\ Goto(r, "accAdmitted")
  /\ UNCHANGED <<userWait, userActive, accountWait, sticky, reqStream,
                 reqModel, sessionHash, ctxDone, streamStarted, waitCounted,
                 userSlot, account, accountWaitCounted, failedAccountIDs,
                 switchCount, lastFailoverStatus, attempts, outcome>>

AcquireAccountSlotFails(r) ==
  /\ pc[r] = "acqAcc"
  /\ RespondStreamingAware(r, "concurrency_limit", 429, 0)
  /\ Return(r)
  /\ UNCHANGED <<accountActive, sticky, reqStream, streamStarted, accountSlot, attempts>>

(* BindStickySession (line 279) is a no-op for the empty hash; its error  *)
(* is only logged, so the binding may or may not be written.              *)
BindStickySession(r, a) ==
  \/ UNCHANGED sticky
  \/ /\ sessionHash[r] # NoSession
     /\ sticky' = [sticky EXCEPT ![sessionHash[r]] = a]

(* Faulty variant: the explicit decrement without clearing the flag, so   *)
(* the iteration's defer decrements a second time.                        *)
AccountAdmittedKeepsDefer(r) ==
  LET a == account[r] IN
  /\ pc[r] = "accAdmitted"
  /\ accountWait' = IF a \in accountWaitCounted[r]
                      THEN [accountWait EXCEPT ![a] = @ - 1] ELSE accountWait
  /\ BindStickySession(r, a)
  /\ Goto(r, "forward")
  /\ UNCHANGED <<userWait, userActive, accountActive, reqStream, reqModel,
                 sessionHash, ctxDone, streamStarted, waitCounted, userSlot,
                 account, accountWaitCounted, accountSlot, failedAccountIDs,
                 switchCount, lastFailoverStatus, attempts, outcome>>

(* Lines 275-284: the account wait decrement, BindStickySession and       *)
(* wrapReleaseOnDone.                                                      *)
AccountAdmitted(r) ==
  LET a == account[r] IN
  /\ pc[r] = "accAdmitted"
  /\ accountWait' = IF a \in accountWaitCounted[r]
                      THEN [accountWait EXCEPT ![a] = @ - 1] ELSE accountWait
  /\ accountWaitCounted' = [accountWaitCounted EXCEPT ![r] = @ \ {a}]
  /\ BindStickySession(r, a)
  /\ Goto(r, "forward")
  /\ UNCHANGED <<userWait, userActive, accountActive, reqStream, reqModel,
                 sessionHash, ctxDone, streamStarted, waitCounted, userSlot,
                 account, accountSlot, failedAccountIDs, switchCount,
                 lastFailoverStatus, attempts, outcome>>

(* Lines 287-333: Forward, then accountReleaseFunc, then the outcome.      *)
(* Success: the forwarder wrote the response; usage is recorded async.     *)
ForwardSucceeds(r) ==
  /\ pc[r] = "forward"
  /\ ReleaseAccount(r)
  /\ attempts' = [attempts EXCEPT ![r] = Append(@, [acct |-> account[r], status |-> 200])]
  /\ outcome' = [outcome EXCEPT ![r] =
        [kind |-> "success", status |-> 200, upstream |-> 200, shape |-> "forwarder"]]
  /\ Return(r)
  /\ UNCHANGED <<sticky, reqStream, streamStarted>>

(* Faulty variant: the failed account is not excluded from reselection.   *)
ForwardFailsOverKeepsCandidate(r) ==
  /\ pc[r] = "forward"
  /\ switchCount[r] < MaxAccountSwitches
  /\ \E st \in FailoverStatuses :
       /\ attempts' = [attempts EXCEPT ![r] = Append(@, [acct |-> account[r], status |-> st])]
       /\ lastFailoverStatus' = [lastFailoverStatus EXCEPT ![r] = st]
  /\ ReleaseAccount(r)
  /\ switchCount' = [switchCount EXCEPT ![r] = @ + 1]
  /\ Goto(r, "select")
  /\ UNCHANGED <<userWait, userActive, accountWait, sticky, reqStream,
                 reqModel, sessionHash, ctxDone, streamStarted, waitCounted,
                 userSlot, account, accountWaitCounted, failedAccountIDs, outcome>>

(* Lines 292-305: an UpstreamFailoverError with switches left: the account *)
(* joins failedAccountIDs and the loop selects again.                       *)
ForwardFailsOver(r) ==
  /\ pc[r] = "forward"
  /\ switchCount[r] < MaxAccountSwitches
  /\ \E st \in FailoverStatuses :
       /\ attempts' = [attempts EXCEPT ![r] = Append(@, [acct |-> account[r], status |-> st])]
       /\ lastFailoverStatus' = [lastFailoverStatus EXCEPT ![r] = st]
  /\ ReleaseAccount(r)
  /\ failedAccountIDs' = [failedAccountIDs EXCEPT ![r] = @ \cup {account[r]}]
  /\ switchCount' = [switchCount EXCEPT ![r] = @ + 1]
  /\ Goto(r, "select")
  /\ UNCHANGED <<userWait, userActive, accountWait, sticky, reqStream,
                 reqModel, sessionHash, ctxDone, streamStarted, waitCounted,
                 userSlot, account, accountWaitCounted, outcome>>

(* Faulty variant: the exhausted branch reports lastFailoverStatus before  *)
(* assigning the status just received (line 296 moved below 297).         *)
ForwardFailoverExhaustedStale(r) ==
  /\ pc[r] = "forward"
  /\ switchCount[r] >= MaxAccountSwitches
  /\ \E st \in FailoverStatuses :
       /\ attempts' = [attempts EXCEPT ![r] = Append(@, [acct |-> account[r], status |-> st])]
       /\ RespondStreamingAware(r, "upstream_error",
                                MapUpstreamError(lastFailoverStatus[r]),
                                lastFailoverStatus[r])
  /\ ReleaseAccount(r)
  /\ Return(r)
  /\ UNCHANGED <<sticky, reqStream, streamStarted>>

(* Lines 294-301: an UpstreamFailoverError with no switch left: the status *)
(* becomes lastFailoverStatus (line 296) and is reported; the failed set    *)
(* and lastFailoverStatus die with the return.                             *)
ForwardFailoverExhausted(r) ==
  /\ pc[r] = "forward"
  /\ switchCount[r] >= MaxAccountSwitches
  /\ \E st \in FailoverStatuses :
       /\ attempts' = [attempts EXCEPT ![r] = Append(@, [acct |-> account[r], status |-> st])]
       /\ RespondStreamingAware(r, "upstream_error", MapUpstreamError(st), st)
  /\ ReleaseAccount(r)
  /\ Return(r)
  /\ UNCHANGED <<sticky, reqStream, streamStarted>>

(* Lines 307-310: any other Forward error; Forward already answered.       *)
ForwardErrors(r) ==
  /\ pc[r] = "forward"
  /\ ReleaseAccount(r)
  /\ attempts' = [attempts EXCEPT ![r] = Append(@, [acct |-> account[r], status |-> 0])]
  /\ outcome' = [outcome EXCEPT ![r] =
        [kind |-> "forward_error", status |-> 502, upstream |-> 0, shape |-> "forwarder"]]
  /\ Return(r)
  /\ UNCHANGED <<sticky, reqStream, streamStarted>>

-----------------------------------------------------------------------------
(* The watchers of wrapReleaseOnDone (lines 191, 284): when the request    *)
(* context is done they call the wrapped release, once-guarded.            *)
UserReleaseOnDone(r) ==
  LET u == Owner[r] IN
  /\ ctxDone[r]
  /\ userSlot[r] = "held"
  /\ pc[r] # "userAdmitted"
  /\ userActive' = [userActive EXCEPT ![u] = @ - 1]
  /\ userSlot' = [userSlot EXCEPT ![r] = "released"]
  /\ UNCHANGED <<userWait, accountWait, accountActive, sticky, pc, reqStream,
                 reqModel, sessionHash, ctxDone, streamStarted, waitCounted,
                 account, accountWaitCounted, accountSlot, failedAccountIDs,
                 switchCount, lastFailoverStatus, attempts, outcome>>

AccountReleaseOnDone(r) ==
  LET a == account[r] IN
  /\ ctxDone[r]
  /\ accountSlot[r] = "held"
  /\ pc[r] = "forward"
  /\ accountActive' = [accountActive EXCEPT ![a] = @ - 1]
  /\ accountSlot' = [accountSlot EXCEPT ![r] = "released"]
  /\ UNCHANGED <<userWait, userActive, accountWait, sticky, pc, reqStream,
                 reqModel, sessionHash, ctxDone, streamStarted, waitCounted,
                 userSlot, account, accountWaitCounted, failedAccountIDs,
                 switchCount, lastFailoverStatus, attempts, outcome>>

(* The client disconnects or the request deadline passes.                  *)
Cancel(r) ==
  /\ pc[r] # "idle"
  /\ ~ctxDone[r]
  /\ ctxDone' = [ctxDone EXCEPT ![r] = TRUE]
  /\ UNCHANGED <<shared, pc, reqStream, reqModel, sessionHash, streamStarted,
                 waitCounted, userSlot, account, accountWaitCounted,
                 accountSlot, failedAccountIDs, switchCount,
                 lastFailoverStatus, attempts, outcome>>

(* A sticky binding's TTL runs out.                                        *)
StickyExpires(s) ==
  /\ sticky[s] # NoAccount
  /\ sticky' = [sticky EXCEPT ![s] = NoAccount]
  /\ UNCHANGED <<userWait, userActive, accountWait, accountActive, local>>

-----------------------------------------------------------------------------
(* The steps the handler goroutine of r takes by itself.                   *)
Handler(r) ==
  \/ PreflightRejects(r) \/ PreflightPasses(r)
  \/ UserWaitStoreError(r) \/ UserWaitAdmitted(r) \/ UserWaitRejected(r)
  \/ AcquireUserSlot(r) \/ AcquireUserSlotFails(r)
  \/ BillingPasses(r) \/ BillingFails(r)
  \/ SelectAcquired(r) \/ SelectWaitPlan(r) \/ SelectNoAccount(r)
  \/ SelectExhausted(r)
  \/ AccountWaitStoreError(r) \/ AccountWaitAdmitted(r)
  \/ AccountWaitRejected(r)
  \/ AcquireAccountSlot(r) \/ AcquireAccountSlotFails(r)
  \/ AccountAdmitted(r)
  \/ ForwardSucceeds(r) \/ ForwardFailsOver(r)
  \/ ForwardFailoverExhausted(r) \/ ForwardErrors(r)

Next ==
  \/ \E r \in Requests :
       \/ Arrive(r) \/ Handler(r) \/ Heartbeat(r) \/ Cancel(r)
       \/ UserReleaseOnDone(r) \/ AccountReleaseOnDone(r)
  \/ \E s \in Sessions \ {NoSession} : StickyExpires(s)

(* Goroutines that can run do run: the handler and both watchers are       *)
(* weakly fair.  Clients (Arrive, Cancel), the heartbeat ticker and the    *)
(* sticky TTL are not.                                                     *)
Fairness ==
  \A r \in Requests :
    /\ WF_vars(Handler(r))
    /\ WF_vars(UserReleaseOnDone(r))
    /\ WF_vars(AccountReleaseOnDone(r))

Spec == Init /\ [][Next]_vars /\ Fairness

-----------------------------------------------------------------------------
(* Refinement mapping onto the concurrency controller's contract          *)
(* (ConcurrencySlots): a request holds a user queue place while           *)
(* waitCounted is set, a user slot while its wrapped release has not run, *)
(* account queue places while its iterations' accountWaitCounted flags    *)
(* are set, and a slot of the current account while accountReleaseFunc   *)
(* has not run.                                                            *)
SlotsHolding == [r \in Requests |-> userSlot[r] = "held"]
SlotsAccHolding ==
  [r \in Requests |-> IF accountSlot[r] = "held" THEN {account[r]} ELSE {}]

Slots == INSTANCE ConcurrencySlots
           WITH queued <- waitCounted, holding <- SlotsHolding,
                accQueued <- accountWaitCounted, accHolding <- SlotsAccHolding

-----------------------------------------------------------------------------
(* Properties.                                                             *)

(* Every variable holds a value of its type; in particular no counter of   *)
(* the concurrency service is ever decremented below zero.                 *)
TypeOK ==
  /\ userWait \in [Users -> Nat]
  /\ userActive \in [Users -> Nat]
  /\ accountWait \in [Accounts -> Nat]
  /\ accountActive \in [Accounts -> Nat]
  /\ sticky \in [Sessions \ {NoSession} -> Accounts \cup {NoAccount}]
  /\ pc \in [Requests -> PCs]
  /\ reqStream \in [Requests -> BOOLEAN]
  /\ reqModel \in [Requests -> Models]
  /\ sessionHash \in [Requests -> Sessions]
  /\ ctxDone \in [Requests -> BOOLEAN]
  /\ streamStarted \in [Requests -> BOOLEAN]
  /\ waitCounted \in [Requests -> BOOLEAN]
  /\ userSlot \in [Requests -> SlotStates]
  /\ account \in [Requests -> Accounts \cup {NoAccount}]
  /\ accountWaitCounted \in [Requests -> SUBSET Accounts]
  /\ accountSlot \in [Requests -> SlotStates]
  /\ failedAccountIDs \in [Requests -> SUBSET Accounts]
  /\ switchCount \in [Requests -> Nat]
  /\ lastFailoverStatus \in [Requests -> Nat]
  /\ attempts \in [Requests -> Seq(Attempt)]
  /\ outcome \in [Requests -> Outcome]

(* I2/P6: every counter of the concurrency service equals the number of    *)
(* requests it stands for, under any interleaving of acquires, the         *)
(* explicit decrements, the deferred ones and the watchers' releases: no   *)
(* slot or queue place is leaked or released twice.                        *)
UserSlotHolders(u) == {r \in ReqsOf(u) : userSlot[r] = "held"}
UserWaiters(u) == {r \in ReqsOf(u) : waitCounted[r]}
AccountSlotHolders(a) == {r \in Requests : accountSlot[r] = "held" /\ account[r] = a}
AccountWaiters(a) == {r \in Requests : a \in accountWaitCounted[r]}

SlotAccounting ==
  /\ \A u \in Users : userActive[u] = Cardinality(UserSlotHolders(u))
  /\ \A u \in Users : userWait[u] = Cardinality(UserWaiters(u))
  /\ \A a \in Accounts : accountActive[a] = Cardinality(AccountSlotHolders(a))
  /\ \A a \in Accounts : accountWait[a] = Cardinality(AccountWaiters(a))

(* I1: the requests actually holding slots or queue places never exceed    *)
(* the limits the handler passes to the concurrency service.               *)
SlotsWithinLimits ==
  /\ \A u \in Users : Cardinality(UserSlotHolders(u)) <= Concurrency[u]
  /\ \A u \in Users : Cardinality(UserWaiters(u)) <= UserMaxWait[u]
  /\ \A a \in Accounts :
       Cardinality(AccountSlotHolders(a)) <= AccountConcurrency[a]
  /\ \A a \in Accounts : Cardinality(AccountWaiters(a)) <= AccountMaxWaiting[a]

(* Each slot and queue place is held only in the stretch of Responses     *)
(* between the line that takes it and the one (or the defer) that gives it *)
(* back, on the account of the current iteration; in particular a request  *)
(* that has returned holds nothing (deferred decrements, the per-iteration *)
(* account-wait defers, the release after every Forward).                  *)
HeldOnlyInScope ==
  \A r \in Requests :
    /\ waitCounted[r] => pc[r] \in {"acqUser", "userAdmitted"}
    /\ userSlot[r] = "held" =>
         pc[r] \in {"userAdmitted", "select", "accWait", "acqAcc", "accAdmitted",
                    "forward"}
    /\ accountSlot[r] = "held" =>
         pc[r] \in {"accAdmitted", "forward"} /\ account[r] \in Accounts
    /\ accountWaitCounted[r] \subseteq {account[r]}
    /\ accountWaitCounted[r] # {} => pc[r] \in {"acqAcc", "accAdmitted"}
    /\ pc[r] \in {"accWait", "acqAcc", "accAdmitted", "forward"} =>
         account[r] \in Accounts

(* P8/I5: a request makes at most MaxAccountSwitches + 1 upstream calls    *)
(* and never calls the same account twice.                                 *)
FailoverBounded ==
  \A r \in Requests :
    /\ Len(attempts[r]) <= MaxAccountSwitches + 1
    /\ \A i, j \in 1..Len(attempts[r]) :
         i # j => attempts[r][i].acct # attempts[r][j].acct

(* When failover is exhausted, the client status and the error log's       *)
(* upstream_status_code come from the upstream status of the last call;    *)
(* and a selection error after an upstream call is never reported as      *)
(* no_account: that answer is only given before any call (lines 217-227).  *)
ExhaustedReportsLastUpstream ==
  \A r \in Requests :
    /\ outcome[r].kind = "upstream_error" =>
         /\ attempts[r] # <<>>
         /\ outcome[r].upstream = attempts[r][Len(attempts[r])].status
         /\ outcome[r].status = MapUpstreamError(outcome[r].upstream)
    /\ outcome[r].kind = "no_account" => attempts[r] = <<>>

(* Spec 4.H: once a heartbeat has committed the SSE response, an error     *)
(* reaches the client as an SSE error event, never as a JSON body with a   *)
(* status; only streaming requests ever start the stream this way.         *)
ErrorShapeFollowsStream ==
  \A r \in Requests :
    /\ streamStarted[r] => reqStream[r]
    /\ outcome[r].shape = "json" => ~streamStarted[r]
    /\ outcome[r].shape = "sse" => streamStarted[r]

(* Every request that reaches the handler is answered: no wait on a user   *)
(* or account slot lasts forever, whatever the other requests do.          *)
EveryRequestAnswered ==
  \A r \in Requests : (pc[r] # "idle") ~> (pc[r] = "idle")

(* Spec 3: concurrency is the user's maximum of simultaneous in-flight     *)
(* requests, and max_concurrency the account's; checked on the requests    *)
(* inside Forward.                                                         *)
ForwardsWithinLimits ==
  /\ \A u \in Users :
       Cardinality({r \in ReqsOf(u) : pc[r] = "forward"}) <= Concurrency[u]
  /\ \A a \in Accounts :
       Cardinality({r \in Requests : pc[r] = "forward" /\ account[r] = a})
         <= AccountConcurrency[a]

(* The handler's counter bookkeeping implements the controller's contract: *)
(* every wait increment and slot acquire of a request is granted only      *)
(* while fewer requests than the limit hold that scope, and every          *)
(* decrement, deferred decrement and once-guarded release gives back only  *)
(* what the request itself holds.  A counter that drifted from its holders *)
(* (a double release, a lost decrement) would let an admission through    *)
(* that the contract refuses.                                              *)
ImplementsSlots == Slots!SlotsSpec
=============================================================================
