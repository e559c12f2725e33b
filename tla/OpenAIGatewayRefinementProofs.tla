-------------------- MODULE OpenAIGatewayRefinementProofs --------------------
(***************************************************************************)
(* The Responses handler implements the concurrency controller's contract *)
(* (ConcurrencySlots under the mapping Slots of OpenAIGatewayHandler), and *)
(* therefore never lets more requests hold a scope than its limit.         *)
(*                                                                         *)
(* The handler admits on counters (userWait < max, userActive < max, ...), *)
(* the contract on the requests that really hold the scope.  The two      *)
(* agree because of SlotAccounting, which the invariant IInv of           *)
(* OpenAIGatewayHandlerProofs carries; every other step of a request only *)
(* gives back what that request holds (Shrinks) and leaves the others'    *)
(* holdings alone (OthersUnchanged).                                       *)
(***************************************************************************)
EXTENDS OpenAIGatewayHandlerProofs

(* Request r holds nothing after the step that it did not hold before.    *)
Shrinks(r) ==
  /\ waitCounted'[r] => waitCounted[r]
  /\ userSlot'[r] = "held" => userSlot[r] = "held"
  /\ accountWaitCounted'[r] \subseteq accountWaitCounted[r]
  /\ accountSlot'[r] = "held" => accountSlot[r] = "held" /\ account'[r] = account[r]

(* A step of r that only gives back is a GiveBack of the contract.         *)
LEMMA GiveBackStep ==
  ASSUME TypeOK, TypeOK', NEW r \in Requests, OthersUnchanged(r), Shrinks(r)
  PROVE  Slots!SlotsNext
<1>1. waitCounted'[r] \in {FALSE, waitCounted[r]}
  BY DEF TypeOK, Shrinks
<1>2. SlotsHolding'[r] \in {FALSE, SlotsHolding[r]}
  BY DEF Shrinks, SlotsHolding
<1>3. accountWaitCounted'[r] \in SUBSET accountWaitCounted[r]
  BY DEF Shrinks
<1>4. SlotsAccHolding'[r] \in SUBSET SlotsAccHolding[r]
  BY DEF Shrinks, SlotsAccHolding
<1>5. waitCounted' = [waitCounted EXCEPT ![r] = waitCounted'[r]]
  BY DEF TypeOK, OthersUnchanged
<1>6. SlotsHolding' = [SlotsHolding EXCEPT ![r] = SlotsHolding'[r]]
  BY DEF OthersUnchanged, SlotsHolding
<1>7. accountWaitCounted' = [accountWaitCounted EXCEPT ![r] = accountWaitCounted'[r]]
  BY DEF TypeOK, OthersUnchanged
<1>8. SlotsAccHolding' = [SlotsAccHolding EXCEPT ![r] = SlotsAccHolding'[r]]
  BY DEF OthersUnchanged, SlotsAccHolding
<1>9. Slots!GiveBack(r)
  BY <1>1, <1>2, <1>3, <1>4, <1>5, <1>6, <1>7, <1>8 DEF Slots!GiveBack
<1>10. QED
  BY <1>9 DEF Slots!SlotsNext

-----------------------------------------------------------------------------
(* Steps that only give back (or touch nothing the contract sees).        *)
LEMMA PreflightRejectsRefines ==
  ASSUME IInv, NEW r \in Requests, PreflightRejects(r)
  PROVE  Slots!SlotsNext
<1>1. IInv'
  BY PreflightRejectsIInv
<1>2. OthersUnchanged(r) /\ Shrinks(r)
  BY DEF PreflightRejects, Goto, OthersUnchanged, Shrinks
<1>3. QED
  BY <1>1, <1>2, GiveBackStep DEF IInv

LEMMA PreflightPassesRefines ==
  ASSUME IInv, NEW r \in Requests, PreflightPasses(r)
  PROVE  Slots!SlotsNext
<1>1. IInv'
  BY PreflightPassesIInv
<1>2. OthersUnchanged(r) /\ Shrinks(r)
  BY DEF PreflightPasses, Goto, OthersUnchanged, Shrinks
<1>3. QED
  BY <1>1, <1>2, GiveBackStep DEF IInv

LEMMA UserWaitStoreErrorRefines ==
  ASSUME IInv, NEW r \in Requests, UserWaitStoreError(r)
  PROVE  Slots!SlotsNext
<1>1. IInv'
  BY UserWaitStoreErrorIInv
<1>2. OthersUnchanged(r) /\ Shrinks(r)
  BY DEF UserWaitStoreError, Goto, OthersUnchanged, Shrinks
<1>3. QED
  BY <1>1, <1>2, GiveBackStep DEF IInv

LEMMA UserWaitRejectedRefines ==
  ASSUME IInv, NEW r \in Requests, UserWaitRejected(r)
  PROVE  Slots!SlotsNext
<1>1. IInv'
  BY UserWaitRejectedIInv
<1>2. OthersUnchanged(r) /\ Shrinks(r)
  BY DEF UserWaitRejected, Goto, OthersUnchanged, Shrinks
<1>3. QED
  BY <1>1, <1>2, GiveBackStep DEF IInv

LEMMA BillingPassesRefines ==
  ASSUME IInv, NEW r \in Requests, BillingPasses(r)
  PROVE  Slots!SlotsNext
<1>1. IInv'
  BY BillingPassesIInv
<1>2. OthersUnchanged(r) /\ Shrinks(r)
  BY DEF BillingPasses, Goto, OthersUnchanged, Shrinks
<1>3. QED
  BY <1>1, <1>2, GiveBackStep DEF IInv

LEMMA SelectWaitPlanRefines ==
  ASSUME IInv, NEW r \in Requests, SelectWaitPlan(r)
  PROVE  Slots!SlotsNext
<1>1. IInv'
  BY SelectWaitPlanIInv
<1>0. TypeOK
  BY DEF IInv
<1>2. PICK acc \in Candidates(r) : account' = [account EXCEPT ![r] = acc]
  BY Zenon DEF SelectWaitPlan
<1>3. /\ accountSlot' = [accountSlot EXCEPT ![r] = "none"]
      /\ UNCHANGED <<waitCounted, userSlot, accountWaitCounted>>
  BY DEF SelectWaitPlan
<1>4. OthersUnchanged(r) /\ Shrinks(r)
  BY <1>0, <1>2, <1>3 DEF TypeOK, OthersUnchanged, Shrinks
<1>5. QED
  BY <1>1, <1>4, GiveBackStep DEF IInv

LEMMA AccountWaitStoreErrorRefines ==
  ASSUME IInv, NEW r \in Requests, AccountWaitStoreError(r)
  PROVE  Slots!SlotsNext
<1>1. IInv'
  BY AccountWaitStoreErrorIInv
<1>2. OthersUnchanged(r) /\ Shrinks(r)
  BY DEF AccountWaitStoreError, Goto, OthersUnchanged, Shrinks
<1>3. QED
  BY <1>1, <1>2, GiveBackStep DEF IInv

LEMMA AccountAdmittedRefines ==
  ASSUME IInv, NEW r \in Requests, AccountAdmitted(r)
  PROVE  Slots!SlotsNext
<1>1. IInv'
  BY AccountAdmittedIInv
<1>2. OthersUnchanged(r) /\ Shrinks(r)
  BY DEF AccountAdmitted, Goto, OthersUnchanged, Shrinks, BindStickySession
<1>3. QED
  BY <1>1, <1>2, GiveBackStep DEF IInv

LEMMA ForwardFailsOverRefines ==
  ASSUME IInv, NEW r \in Requests, ForwardFailsOver(r)
  PROVE  Slots!SlotsNext
<1>1. IInv'
  BY ForwardFailsOverIInv
<1>2. OthersUnchanged(r) /\ Shrinks(r)
  BY DEF ForwardFailsOver, Goto, OthersUnchanged, Shrinks, ReleaseAccount
<1>3. QED
  BY <1>1, <1>2, GiveBackStep DEF IInv

LEMMA HeartbeatRefines ==
  ASSUME IInv, NEW r \in Requests, Heartbeat(r)
  PROVE  Slots!SlotsNext
<1>1. IInv'
  BY HeartbeatIInv
<1>2. OthersUnchanged(r) /\ Shrinks(r)
  BY DEF Heartbeat, Goto, OthersUnchanged, Shrinks
<1>3. QED
  BY <1>1, <1>2, GiveBackStep DEF IInv

LEMMA CancelRefines ==
  ASSUME IInv, NEW r \in Requests, Cancel(r)
  PROVE  Slots!SlotsNext
<1>1. IInv'
  BY CancelIInv
<1>2. OthersUnchanged(r) /\ Shrinks(r)
  BY DEF Cancel, Goto, OthersUnchanged, Shrinks
<1>3. QED
  BY <1>1, <1>2, GiveBackStep DEF IInv

LEMMA UserReleaseOnDoneRefines ==
  ASSUME IInv, NEW r \in Requests, UserReleaseOnDone(r)
  PROVE  Slots!SlotsNext
<1>1. IInv'
  BY UserReleaseOnDoneIInv
<1>2. OthersUnchanged(r) /\ Shrinks(r)
  BY DEF UserReleaseOnDone, Goto, OthersUnchanged, Shrinks
<1>3. QED
  BY <1>1, <1>2, GiveBackStep DEF IInv

LEMMA AccountReleaseOnDoneRefines ==
  ASSUME IInv, NEW r \in Requests, AccountReleaseOnDone(r)
  PROVE  Slots!SlotsNext
<1>1. IInv'
  BY AccountReleaseOnDoneIInv
<1>2. OthersUnchanged(r) /\ Shrinks(r)
  BY DEF AccountReleaseOnDone, Goto, OthersUnchanged, Shrinks
<1>3. QED
  BY <1>1, <1>2, GiveBackStep DEF IInv

LEMMA ArriveRefines ==
  ASSUME IInv, NEW r \in Requests, Arrive(r)
  PROVE  Slots!SlotsNext
<1>1. IInv'
  BY ArriveIInv
<1>2. /\ userSlot' = [userSlot EXCEPT ![r] = "none"]
      /\ account' = [account EXCEPT ![r] = NoAccount]
      /\ accountSlot' = [accountSlot EXCEPT ![r] = "none"]
      /\ UNCHANGED <<waitCounted, accountWaitCounted>>
  BY DEF Arrive
<1>3. TypeOK
  BY DEF IInv
<1>4. OthersUnchanged(r) /\ Shrinks(r)
  BY <1>2, <1>3 DEF TypeOK, OthersUnchanged, Shrinks
<1>5. QED
  BY <1>1, <1>4, GiveBackStep DEF IInv

(* The error exits before Forward and the exits after it: the defers and *)
(* the release after Forward give back everything r holds.                *)
LEMMA AcquireUserSlotFailsRefines ==
  ASSUME IInv, NEW r \in Requests, AcquireUserSlotFails(r)
  PROVE  Slots!SlotsNext
<1>1. IInv'
  BY AcquireUserSlotFailsIInv
<1>2. /\ pc[r] \in {"acqUser", "userAdmitted", "select", "accWait", "acqAcc"}
      /\ Return(r) /\ UNCHANGED <<accountActive, accountSlot>>
  BY DEF AcquireUserSlotFails
<1>3. /\ OthersUnchanged(r) /\ ~waitCounted'[r] /\ userSlot'[r] # "held"
      /\ accountSlot'[r] # "held" /\ accountWaitCounted'[r] = {}
  BY <1>2, ReturnBeforeForward
<1>4. QED
  BY <1>1, <1>3, GiveBackStep DEF IInv, Shrinks

LEMMA BillingFailsRefines ==
  ASSUME IInv, NEW r \in Requests, BillingFails(r)
  PROVE  Slots!SlotsNext
<1>1. IInv'
  BY BillingFailsIInv
<1>2. /\ pc[r] \in {"acqUser", "userAdmitted", "select", "accWait", "acqAcc"}
      /\ Return(r) /\ UNCHANGED <<accountActive, accountSlot>>
  BY DEF BillingFails
<1>3. /\ OthersUnchanged(r) /\ ~waitCounted'[r] /\ userSlot'[r] # "held"
      /\ accountSlot'[r] # "held" /\ accountWaitCounted'[r] = {}
  BY <1>2, ReturnBeforeForward
<1>4. QED
  BY <1>1, <1>3, GiveBackStep DEF IInv, Shrinks

LEMMA SelectNoAccountRefines ==
  ASSUME IInv, NEW r \in Requests, SelectNoAccount(r)
  PROVE  Slots!SlotsNext
<1>1. IInv'
  BY SelectNoAccountIInv
<1>2. /\ pc[r] \in {"acqUser", "userAdmitted", "select", "accWait", "acqAcc"}
      /\ Return(r) /\ UNCHANGED <<accountActive, accountSlot>>
  BY DEF SelectNoAccount
<1>3. /\ OthersUnchanged(r) /\ ~waitCounted'[r] /\ userSlot'[r] # "held"
      /\ accountSlot'[r] # "held" /\ accountWaitCounted'[r] = {}
  BY <1>2, ReturnBeforeForward
<1>4. QED
  BY <1>1, <1>3, GiveBackStep DEF IInv, Shrinks

LEMMA SelectExhaustedRefines ==
  ASSUME IInv, NEW r \in Requests, SelectExhausted(r)
  PROVE  Slots!SlotsNext
<1>1. IInv'
  BY SelectExhaustedIInv
<1>2. /\ pc[r] \in {"acqUser", "userAdmitted", "select", "accWait", "acqAcc"}
      /\ Return(r) /\ UNCHANGED <<accountActive, accountSlot>>
  BY DEF SelectExhausted
<1>3. /\ OthersUnchanged(r) /\ ~waitCounted'[r] /\ userSlot'[r] # "held"
      /\ accountSlot'[r] # "held" /\ accountWaitCounted'[r] = {}
  BY <1>2, ReturnBeforeForward
<1>4. QED
  BY <1>1, <1>3, GiveBackStep DEF IInv, Shrinks

LEMMA AccountWaitRejectedRefines ==
  ASSUME IInv, NEW r \in Requests, AccountWaitRejected(r)
  PROVE  Slots!SlotsNext
<1>1. IInv'
  BY AccountWaitRejectedIInv
<1>2. /\ pc[r] \in {"acqUser", "userAdmitted", "select", "accWait", "acqAcc"}
      /\ Return(r) /\ UNCHANGED <<accountActive, accountSlot>>
  BY DEF AccountWaitRejected
<1>3. /\ OthersUnchanged(r) /\ ~waitCounted'[r] /\ userSlot'[r] # "held"
      /\ accountSlot'[r] # "held" /\ accountWaitCounted'[r] = {}
  BY <1>2, ReturnBeforeForward
<1>4. QED
  BY <1>1, <1>3, GiveBackStep DEF IInv, Shrinks

LEMMA AcquireAccountSlotFailsRefines ==
  ASSUME IInv, NEW r \in Requests, AcquireAccountSlotFails(r)
  PROVE  Slots!SlotsNext
<1>1. IInv'
  BY AcquireAccountSlotFailsIInv
<1>2. /\ pc[r] \in {"acqUser", "userAdmitted", "select", "accWait", "acqAcc"}
      /\ Return(r) /\ UNCHANGED <<accountActive, accountSlot>>
  BY DEF AcquireAccountSlotFails
<1>3. /\ OthersUnchanged(r) /\ ~waitCounted'[r] /\ userSlot'[r] # "held"
      /\ accountSlot'[r] # "held" /\ accountWaitCounted'[r] = {}
  BY <1>2, ReturnBeforeForward
<1>4. QED
  BY <1>1, <1>3, GiveBackStep DEF IInv, Shrinks

LEMMA ForwardSucceedsRefines ==
  ASSUME IInv, NEW r \in Requests, ForwardSucceeds(r)
  PROVE  Slots!SlotsNext
<1>1. IInv'
  BY ForwardSucceedsIInv
<1>2. pc[r] = "forward" /\ ReleaseAccount(r) /\ Return(r)
  BY DEF ForwardSucceeds
<1>3. /\ OthersUnchanged(r) /\ ~waitCounted'[r] /\ userSlot'[r] # "held"
      /\ accountSlot'[r] # "held" /\ accountWaitCounted'[r] = {}
  BY <1>2, ReleaseAndReturn
<1>4. QED
  BY <1>1, <1>3, GiveBackStep DEF IInv, Shrinks

LEMMA ForwardFailoverExhaustedRefines ==
  ASSUME IInv, NEW r \in Requests, ForwardFailoverExhausted(r)
  PROVE  Slots!SlotsNext
<1>1. IInv'
  BY ForwardFailoverExhaustedIInv
<1>2. pc[r] = "forward" /\ ReleaseAccount(r) /\ Return(r)
  BY DEF ForwardFailoverExhausted
<1>3. /\ OthersUnchanged(r) /\ ~waitCounted'[r] /\ userSlot'[r] # "held"
      /\ accountSlot'[r] # "held" /\ accountWaitCounted'[r] = {}
  BY <1>2, ReleaseAndReturn
<1>4. QED
  BY <1>1, <1>3, GiveBackStep DEF IInv, Shrinks

LEMMA ForwardErrorsRefines ==
  ASSUME IInv, NEW r \in Requests, ForwardErrors(r)
  PROVE  Slots!SlotsNext
<1>1. IInv'
  BY ForwardErrorsIInv
<1>2. pc[r] = "forward" /\ ReleaseAccount(r) /\ Return(r)
  BY DEF ForwardErrors
<1>3. /\ OthersUnchanged(r) /\ ~waitCounted'[r] /\ userSlot'[r] # "held"
      /\ accountSlot'[r] # "held" /\ accountWaitCounted'[r] = {}
  BY <1>2, ReleaseAndReturn
<1>4. QED
  BY <1>1, <1>3, GiveBackStep DEF IInv, Shrinks

-----------------------------------------------------------------------------
(* The acquires.  The contract's holder sets are the handler's, so the    *)
(* counter guard of each acquire is the contract's cardinality guard.     *)
LEMMA CardinalityOfSlots ==
  ASSUME NEW S
  PROVE  Slots!Cardinality(S) = Cardinality(S)
BY DEF Slots!Cardinality, Cardinality

LEMMA MappedSets ==
  ASSUME TypeOK
  PROVE  /\ \A u \in Users : Slots!UserQueue(u) = UserWaiters(u)
         /\ \A u \in Users : Slots!UserHolders(u) = UserSlotHolders(u)
         /\ \A a \in Accounts : Slots!AccountQueue(a) = AccountWaiters(a)
         /\ \A a \in Accounts : Slots!AccountHolders(a) = AccountSlotHolders(a)
<1>1. \A u \in Users : Slots!UserQueue(u) = UserWaiters(u)
  BY DEF Slots!UserQueue, UserWaiters, ReqsOf
<1>2. \A u \in Users : Slots!UserHolders(u) = UserSlotHolders(u)
  BY DEF Slots!UserHolders, UserSlotHolders, ReqsOf, SlotsHolding
<1>3. \A a \in Accounts : Slots!AccountQueue(a) = AccountWaiters(a)
  BY DEF Slots!AccountQueue, AccountWaiters
<1>4. \A a \in Accounts : Slots!AccountHolders(a) = AccountSlotHolders(a)
  BY DEF Slots!AccountHolders, AccountSlotHolders, SlotsAccHolding
<1>5. QED
  BY <1>1, <1>2, <1>3, <1>4

(* Line 163: IncrementWait admits r while userWait < maxWait.             *)
LEMMA UserWaitAdmittedRefines ==
  ASSUME IInv, NEW r \in Requests, UserWaitAdmitted(r)
  PROVE  Slots!SlotsNext
<1>0. TypeOK /\ SlotAccounting /\ HeldOnlyInScope
  BY DEF IInv
<1>1. Owner[r] \in Users
  BY GatewayAssumption
<1>2. ~waitCounted[r]
  <2>1. InScope(r)
    BY <1>0, ScopeAt
  <2>2. QED
    BY <2>1 DEF InScope, UserWaitAdmitted
<1>3. Cardinality(Slots!UserQueue(Owner[r])) < UserMaxWait[Owner[r]]
  <2>1. userWait[Owner[r]] = Cardinality(UserWaiters(Owner[r]))
    BY <1>0, <1>1 DEF SlotAccounting
  <2>2. QED
    BY <1>0, <1>1, <2>1, MappedSets DEF UserWaitAdmitted
<1>4. UNCHANGED <<SlotsHolding, accountWaitCounted, SlotsAccHolding>>
  BY DEF UserWaitAdmitted, SlotsHolding, SlotsAccHolding
<1>5. Slots!EnterUserQueue(r)
  BY <1>2, <1>3, <1>4, CardinalityOfSlots DEF UserWaitAdmitted, Slots!EnterUserQueue
<1>6. QED
  BY <1>5 DEF Slots!SlotsNext

(* Line 181: AcquireUserSlotWithWait grants r a slot while active < max.  *)
LEMMA AcquireUserSlotRefines ==
  ASSUME IInv, NEW r \in Requests, AcquireUserSlot(r)
  PROVE  Slots!SlotsNext
<1>0. TypeOK /\ SlotAccounting /\ HeldOnlyInScope
  BY DEF IInv
<1>1. Owner[r] \in Users
  BY GatewayAssumption
<1>2. ~SlotsHolding[r]
  <2>1. InScope(r)
    BY <1>0, ScopeAt
  <2>2. QED
    BY <2>1 DEF InScope, AcquireUserSlot, SlotsHolding
<1>3. Cardinality(Slots!UserHolders(Owner[r])) < Concurrency[Owner[r]]
  <2>1. userActive[Owner[r]] = Cardinality(UserSlotHolders(Owner[r]))
    BY <1>0, <1>1 DEF SlotAccounting
  <2>2. QED
    BY <1>0, <1>1, <2>1, MappedSets DEF AcquireUserSlot
<1>4. SlotsHolding' = [SlotsHolding EXCEPT ![r] = TRUE]
  BY <1>0 DEF TypeOK, AcquireUserSlot, SlotsHolding
<1>5. UNCHANGED <<waitCounted, accountWaitCounted, SlotsAccHolding>>
  BY DEF AcquireUserSlot, SlotsAccHolding
<1>6. Slots!TakeUserSlot(r)
  BY <1>2, <1>3, <1>4, <1>5, CardinalityOfSlots DEF Slots!TakeUserSlot
<1>7. QED
  BY <1>6 DEF Slots!SlotsNext

(* Line 268: IncrementAccountWaitCount admits r to the queue of account[r].*)
LEMMA AccountWaitAdmittedRefines ==
  ASSUME IInv, NEW r \in Requests, AccountWaitAdmitted(r)
  PROVE  Slots!SlotsNext
<1>0. TypeOK /\ SlotAccounting /\ HeldOnlyInScope
  BY DEF IInv
<1>1. account[r] \in Accounts /\ accountWaitCounted[r] = {}
  <2>1. InScope(r)
    BY <1>0, ScopeAt
  <2>2. QED
    BY <2>1 DEF InScope, AccountWaitAdmitted
<1>2. Cardinality(Slots!AccountQueue(account[r])) < AccountMaxWaiting[account[r]]
  <2>1. accountWait[account[r]] = Cardinality(AccountWaiters(account[r]))
    BY <1>0, <1>1 DEF SlotAccounting
  <2>2. QED
    BY <1>0, <1>1, <2>1, MappedSets DEF AccountWaitAdmitted
<1>3. UNCHANGED <<waitCounted, SlotsHolding, SlotsAccHolding>>
  BY DEF AccountWaitAdmitted, SlotsHolding, SlotsAccHolding
<1>4. Slots!EnterAccountQueue(r, account[r])
  BY <1>1, <1>2, <1>3, CardinalityOfSlots DEF AccountWaitAdmitted, Slots!EnterAccountQueue
<1>5. QED
  BY <1>1, <1>4 DEF Slots!SlotsNext

(* Line 276: AcquireAccountSlotWithWaitTimeout grants r a slot of          *)
(* account[r] while active < concurrency.                                  *)
LEMMA AcquireAccountSlotRefines ==
  ASSUME IInv, NEW r \in Requests, AcquireAccountSlot(r)
  PROVE  Slots!SlotsNext
<1>0. TypeOK /\ SlotAccounting /\ HeldOnlyInScope
  BY DEF IInv
<1>1. account[r] \in Accounts /\ accountSlot[r] # "held"
  <2>1. InScope(r)
    BY <1>0, ScopeAt
  <2>2. QED
    BY <2>1 DEF InScope, AcquireAccountSlot
<1>2. account[r] \notin SlotsAccHolding[r]
  BY <1>1 DEF SlotsAccHolding
<1>3. Cardinality(Slots!AccountHolders(account[r])) < AccountConcurrency[account[r]]
  <2>1. accountActive[account[r]] = Cardinality(AccountSlotHolders(account[r]))
    BY <1>0, <1>1 DEF SlotAccounting
  <2>2. QED
    BY <1>0, <1>1, <2>1, MappedSets DEF AcquireAccountSlot, HasFreeSlot
<1>4. SlotsAccHolding' = [SlotsAccHolding EXCEPT ![r] = @ \cup {account[r]}]
  BY <1>0, <1>1 DEF TypeOK, AcquireAccountSlot, SlotsAccHolding
<1>5. UNCHANGED <<waitCounted, SlotsHolding, accountWaitCounted>>
  BY DEF AcquireAccountSlot, SlotsHolding
<1>6. Slots!TakeAccountSlot(r, account[r])
  BY <1>2, <1>3, <1>4, <1>5, CardinalityOfSlots DEF Slots!TakeAccountSlot
<1>7. QED
  BY <1>1, <1>6 DEF Slots!SlotsNext

(* Line 236: the selector acquires a free slot of the chosen account.     *)
LEMMA SelectAcquiredRefines ==
  ASSUME IInv, NEW r \in Requests, SelectAcquired(r)
  PROVE  Slots!SlotsNext
<1>0. TypeOK /\ SlotAccounting /\ HeldOnlyInScope
  BY DEF IInv
<1>1. PICK acc \in Accounts :
        /\ HasFreeSlot(acc)
        /\ accountActive' = [accountActive EXCEPT ![acc] = @ + 1]
        /\ account' = [account EXCEPT ![r] = acc]
  BY DEF SelectAcquired, Candidates
<1>2. accountSlot[r] # "held"
  <2>1. InScope(r)
    BY <1>0, ScopeAt
  <2>2. QED
    BY <2>1 DEF InScope, SelectAcquired
<1>3. acc \notin SlotsAccHolding[r]
  BY <1>2 DEF SlotsAccHolding
<1>4. Cardinality(Slots!AccountHolders(acc)) < AccountConcurrency[acc]
  <2>1. accountActive[acc] = Cardinality(AccountSlotHolders(acc))
    BY <1>0 DEF SlotAccounting
  <2>2. QED
    BY <1>0, <1>1, <2>1, MappedSets DEF HasFreeSlot
<1>5. SlotsAccHolding' = [SlotsAccHolding EXCEPT ![r] = @ \cup {acc}]
  BY <1>0, <1>1, <1>2 DEF TypeOK, SelectAcquired, SlotsAccHolding
<1>6. UNCHANGED <<waitCounted, SlotsHolding, accountWaitCounted>>
  BY DEF SelectAcquired, SlotsHolding
<1>7. Slots!TakeAccountSlot(r, acc)
  BY <1>3, <1>4, <1>5, <1>6, CardinalityOfSlots DEF Slots!TakeAccountSlot
<1>8. QED
  BY <1>7 DEF Slots!SlotsNext

-----------------------------------------------------------------------------
(* The whole step relation.                                                *)
LEMMA StickyExpiresRefines ==
  ASSUME NEW s \in Sessions \ {NoSession}, StickyExpires(s)
  PROVE  UNCHANGED Slots!svars
BY DEF StickyExpires, local, SlotsHolding, SlotsAccHolding, Slots!svars

LEMMA HandlerRefines ==
  ASSUME IInv, NEW r \in Requests, Handler(r)
  PROVE  Slots!SlotsNext
BY PreflightRejectsRefines, PreflightPassesRefines, UserWaitStoreErrorRefines,
   UserWaitAdmittedRefines, UserWaitRejectedRefines, AcquireUserSlotRefines,
   AcquireUserSlotFailsRefines, BillingPassesRefines, BillingFailsRefines,
   SelectAcquiredRefines, SelectWaitPlanRefines, SelectNoAccountRefines,
   SelectExhaustedRefines, AccountWaitStoreErrorRefines,
   AccountWaitAdmittedRefines, AccountWaitRejectedRefines,
   AcquireAccountSlotRefines, AcquireAccountSlotFailsRefines,
   AccountAdmittedRefines, ForwardSucceedsRefines, ForwardFailsOverRefines,
   ForwardFailoverExhaustedRefines, ForwardErrorsRefines
   DEF Handler

LEMMA NextRefines == IInv /\ [Next]_vars => [Slots!SlotsNext]_Slots!svars
<1> SUFFICES ASSUME IInv, [Next]_vars PROVE [Slots!SlotsNext]_Slots!svars
  OBVIOUS
<1>1. CASE \E r \in Requests :
             \/ Arrive(r) \/ Handler(r) \/ Heartbeat(r) \/ Cancel(r)
             \/ UserReleaseOnDone(r) \/ AccountReleaseOnDone(r)
  BY <1>1, ArriveRefines, HandlerRefines, HeartbeatRefines, CancelRefines,
     UserReleaseOnDoneRefines, AccountReleaseOnDoneRefines
<1>2. CASE \E s \in Sessions \ {NoSession} : StickyExpires(s)
  BY <1>2, StickyExpiresRefines
<1>3. CASE UNCHANGED vars
  BY <1>3 DEF vars, local, SlotsHolding, SlotsAccHolding, Slots!svars
<1>4. QED
  BY <1>1, <1>2, <1>3 DEF Next

LEMMA InitRefines == Init => Slots!SlotsInit
BY DEF Init, Slots!SlotsInit, SlotsHolding, SlotsAccHolding

(* Refinement: every behaviour of the Responses handler, with its counters *)
(* read as the sets of requests holding places and slots, is a behaviour   *)
(* of the concurrency controller's contract: a place or slot is taken only *)
(* while its scope has room, whatever the interleaving of handlers,        *)
(* watchers, cancellations and deferred decrements.                        *)
THEOREM Refinement == Spec => ImplementsSlots
<1>1. Init => IInv /\ Slots!SlotsInit
  BY InitIInv, InitRefines
<1>2. IInv /\ [Next]_vars => IInv' /\ [Slots!SlotsNext]_Slots!svars
  BY NextIInv, NextRefines
<1>3. QED
  BY <1>1, <1>2, PTL DEF Spec, ImplementsSlots, Slots!SlotsSpec

(* The constants of the handler satisfy those the contract's proof needs. *)
LEMMA SlotsConstantsHold == Slots!SlotsConstants
<1>1. Slots!IsFiniteSet(Requests)
  BY GatewayAssumption DEF Slots!IsFiniteSet, IsFiniteSet
<1>2. Concurrency \in [Users -> Nat] /\ AccountConcurrency \in [Accounts -> Nat]
  BY GatewayAssumption
<1>3. QED
  BY <1>1, <1>2, GatewayAssumption DEF Slots!SlotsConstants

(* Under the mapping, the contract's bound is the handler's.               *)
LEMMA LimitsMapped ==
  ASSUME TypeOK, Slots!LeasesWithinLimits
  PROVE  SlotsWithinLimits
BY MappedSets, CardinalityOfSlots DEF Slots!LeasesWithinLimits, SlotsWithinLimits

(* Spec P6 and I1: the requests holding a user slot, a user queue place,  *)
(* an account slot or an account queue place never exceed the limits the  *)
(* handler passes to the concurrency service (lines 163, 181, 268, 276),  *)
(* for every number of requests, users and accounts.  It follows from the *)
(* refinement and the contract's own bound.                                *)
THEOREM SlotsWithinLimitsInvariant == Spec => []SlotsWithinLimits
<1>1. Spec => []Slots!LeasesWithinLimits
  BY Refinement, SlotsConstantsHold, Slots!LeasesStayWithinLimits DEF ImplementsSlots
<1>2. Spec => []TypeOK
  BY TypeCorrect
<1>3. TypeOK /\ Slots!LeasesWithinLimits => SlotsWithinLimits
  BY LimitsMapped
<1>4. QED
  BY <1>1, <1>2, <1>3, PTL
====
