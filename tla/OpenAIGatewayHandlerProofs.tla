---------------------- MODULE OpenAIGatewayHandlerProofs ----------------------
(***************************************************************************)
(* Proofs about the Responses handler model, for every value of the        *)
(* constants that satisfies GatewayAssumption.                             *)
(*                                                                         *)
(* TypeOK (its counters are natural numbers) is not inductive by itself:   *)
(* a release decrements a counter, which stays >= 0 only because the      *)
(* counter equals the number of requests holding what it counts            *)
(* (SlotAccounting), and that equality survives a step only because a      *)
(* request holds a slot or queue place exactly in the stretch of code      *)
(* between the acquire and the release (HeldOnlyInScope).  The three      *)
(* together are inductive.                                                 *)
(***************************************************************************)
EXTENDS OpenAIGatewayHandler, FiniteSetTheorems, SequenceTheorems, TLAPS

IInv == TypeOK /\ SlotAccounting /\ HeldOnlyInScope

-----------------------------------------------------------------------------
(* Counting lemma: two subsets of a finite set that agree everywhere but   *)
(* at x have cardinalities that differ by what happens to x.               *)
LEMMA CardinalityAtPoint ==
  ASSUME NEW R, IsFiniteSet(R), NEW S \in SUBSET R, NEW T \in SUBSET R,
         NEW x \in R, \A y \in R \ {x} : (y \in T <=> y \in S)
  PROVE  /\ IsFiniteSet(T)
         /\ Cardinality(T) = Cardinality(S)
                             + (IF x \in T THEN 1 ELSE 0)
                             - (IF x \in S THEN 1 ELSE 0)
<1>1. IsFiniteSet(S) /\ IsFiniteSet(T)
  BY FS_Subset
<1>2. T \ {x} = S \ {x}
  OBVIOUS
<1>3. /\ IsFiniteSet(S \ {x})
      /\ Cardinality(S \ {x}) = IF x \in S THEN Cardinality(S) - 1 ELSE Cardinality(S)
      /\ Cardinality(T \ {x}) = IF x \in T THEN Cardinality(T) - 1 ELSE Cardinality(T)
  BY <1>1, FS_RemoveElement
<1>4. Cardinality(S) \in Nat /\ Cardinality(T) \in Nat
  BY <1>1, FS_CardinalityType
<1>5. QED
  BY <1>1, <1>2, <1>3, <1>4

(* The sets the counters stand for are finite subsets of Requests.        *)
LEMMA HolderSetsFinite ==
  ASSUME NEW S \in SUBSET Requests
  PROVE  IsFiniteSet(S) /\ Cardinality(S) \in Nat
BY GatewayAssumption, FS_Subset, FS_CardinalityType

(* A counter that equals the size of a set of requests, and moves by what *)
(* happens to one request x, still equals the size of the new set.         *)
LEMMA CounterStep ==
  ASSUME NEW S \in SUBSET Requests, NEW T \in SUBSET Requests, NEW x \in Requests,
         NEW c, NEW c2, c = Cardinality(S),
         \A y \in Requests \ {x} : (y \in T <=> y \in S),
         c2 = c + (IF x \in T THEN 1 ELSE 0) - (IF x \in S THEN 1 ELSE 0)
  PROVE  c2 = Cardinality(T)
BY GatewayAssumption, CardinalityAtPoint

(* A step in which only request r's slot state changes, and each counter   *)
(* moves by the change of r's membership in what it counts, keeps every    *)
(* counter equal to the size of what it counts.                            *)
UserWaitDelta(r, u) ==
  (IF r \in UserWaiters(u)' THEN 1 ELSE 0) - (IF r \in UserWaiters(u) THEN 1 ELSE 0)
UserActiveDelta(r, u) ==
  (IF r \in UserSlotHolders(u)' THEN 1 ELSE 0)
  - (IF r \in UserSlotHolders(u) THEN 1 ELSE 0)
AccountWaitDelta(r, a) ==
  (IF r \in AccountWaiters(a)' THEN 1 ELSE 0) - (IF r \in AccountWaiters(a) THEN 1 ELSE 0)
AccountActiveDelta(r, a) ==
  (IF r \in AccountSlotHolders(a)' THEN 1 ELSE 0)
  - (IF r \in AccountSlotHolders(a) THEN 1 ELSE 0)

OthersUnchanged(r) ==
  \A q \in Requests \ {r} :
    /\ waitCounted'[q] = waitCounted[q]
    /\ userSlot'[q] = userSlot[q]
    /\ accountSlot'[q] = accountSlot[q]
    /\ account'[q] = account[q]
    /\ accountWaitCounted'[q] = accountWaitCounted[q]

LEMMA AccountingStep ==
  ASSUME SlotAccounting, NEW r \in Requests, OthersUnchanged(r),
         \A u \in Users : userWait'[u] = userWait[u] + UserWaitDelta(r, u),
         \A u \in Users : userActive'[u] = userActive[u] + UserActiveDelta(r, u),
         \A a \in Accounts : accountWait'[a] = accountWait[a] + AccountWaitDelta(r, a),
         \A a \in Accounts : accountActive'[a] = accountActive[a] + AccountActiveDelta(r, a)
  PROVE  SlotAccounting'
<1>1. ASSUME NEW u \in Users
      PROVE  /\ userWait'[u] = Cardinality(UserWaiters(u)')
             /\ userActive'[u] = Cardinality(UserSlotHolders(u)')
  <2>1. \A y \in Requests \ {r} : /\ (y \in UserWaiters(u)' <=> y \in UserWaiters(u))
                                  /\ (y \in UserSlotHolders(u)' <=> y \in UserSlotHolders(u))
    BY DEF OthersUnchanged, UserWaiters, UserSlotHolders, ReqsOf
  <2>2. /\ UserWaiters(u) \in SUBSET Requests /\ UserWaiters(u)' \in SUBSET Requests
        /\ UserSlotHolders(u) \in SUBSET Requests /\ UserSlotHolders(u)' \in SUBSET Requests
    BY DEF UserWaiters, UserSlotHolders, ReqsOf
  <2>3. QED
    BY <2>1, <2>2, CounterStep DEF SlotAccounting, UserWaitDelta, UserActiveDelta
<1>2. ASSUME NEW a \in Accounts
      PROVE  /\ accountWait'[a] = Cardinality(AccountWaiters(a)')
             /\ accountActive'[a] = Cardinality(AccountSlotHolders(a)')
  <2>1. \A y \in Requests \ {r} :
          /\ (y \in AccountWaiters(a)' <=> y \in AccountWaiters(a))
          /\ (y \in AccountSlotHolders(a)' <=> y \in AccountSlotHolders(a))
    BY DEF OthersUnchanged, AccountWaiters, AccountSlotHolders
  <2>2. /\ AccountWaiters(a) \in SUBSET Requests /\ AccountWaiters(a)' \in SUBSET Requests
        /\ AccountSlotHolders(a) \in SUBSET Requests
        /\ AccountSlotHolders(a)' \in SUBSET Requests
    BY DEF AccountWaiters, AccountSlotHolders
  <2>3. QED
    BY <2>1, <2>2, CounterStep DEF SlotAccounting, AccountWaitDelta, AccountActiveDelta
<1>3. QED
  BY <1>1, <1>2 DEF SlotAccounting

(* A step that leaves the user counters and the user flags alone moves    *)
(* neither user counter.                                                   *)
LEMMA UserCountersFrame ==
  ASSUME TypeOK, NEW r \in Requests,
         UNCHANGED <<userWait, userActive, waitCounted, userSlot>>
  PROVE  /\ \A u \in Users : userWait'[u] = userWait[u] + UserWaitDelta(r, u)
         /\ \A u \in Users : userActive'[u] = userActive[u] + UserActiveDelta(r, u)
BY DEF TypeOK, UserWaitDelta, UserWaiters, UserActiveDelta, UserSlotHolders, ReqsOf

(* Counters equal to sizes of sets of requests are natural numbers.        *)
LEMMA CountersNat ==
  ASSUME SlotAccounting',
         userWait' \in [Users -> Int], userActive' \in [Users -> Int],
         accountWait' \in [Accounts -> Int], accountActive' \in [Accounts -> Int]
  PROVE  /\ userWait' \in [Users -> Nat] /\ userActive' \in [Users -> Nat]
         /\ accountWait' \in [Accounts -> Nat] /\ accountActive' \in [Accounts -> Nat]
<1>1. /\ \A u \in Users : UserWaiters(u)' \in SUBSET Requests
      /\ \A u \in Users : UserSlotHolders(u)' \in SUBSET Requests
      /\ \A a \in Accounts : AccountWaiters(a)' \in SUBSET Requests
      /\ \A a \in Accounts : AccountSlotHolders(a)' \in SUBSET Requests
  BY DEF UserWaiters, UserSlotHolders, ReqsOf, AccountWaiters, AccountSlotHolders
<1>2. QED
  BY <1>1, HolderSetsFinite DEF SlotAccounting

(* Recording a Forward call keeps the history a sequence of attempts.    *)
LEMMA AttemptsAppend ==
  ASSUME NEW sq \in Seq(Attempt), NEW a \in Accounts, NEW st \in Nat
  PROVE  Append(sq, [acct |-> a, status |-> st]) \in Seq(Attempt)
<1>1. [acct |-> a, status |-> st] \in Attempt
  BY DEF Attempt
<1>2. QED
  BY <1>1, AppendProperties

(* mapUpstreamError always yields an HTTP status.                          *)
LEMMA MapUpstreamErrorNat ==
  \A c : MapUpstreamError(c) \in Nat
BY DEF MapUpstreamError

-----------------------------------------------------------------------------
(* The initial state satisfies the invariant.                              *)
LEMMA InitIInv == Init => IInv
<1> SUFFICES ASSUME Init PROVE IInv
  OBVIOUS
<1>1. TypeOK
  <2>1. (CHOOSE m \in Models : TRUE) \in Models
    BY GatewayAssumption
  <2>2. NoOutcome \in Outcome
    BY DEF NoOutcome, Outcome, Shapes
  <2>3. <<>> \in Seq(Attempt)
    OBVIOUS
  <2>4. /\ userWait \in [Users -> Nat] /\ userActive \in [Users -> Nat]
        /\ accountWait \in [Accounts -> Nat] /\ accountActive \in [Accounts -> Nat]
        /\ sticky \in [Sessions \ {NoSession} -> Accounts \cup {NoAccount}]
    BY DEF Init
  <2>5. /\ pc \in [Requests -> PCs]
        /\ reqStream \in [Requests -> BOOLEAN] /\ reqModel \in [Requests -> Models]
        /\ sessionHash \in [Requests -> Sessions] /\ ctxDone \in [Requests -> BOOLEAN]
        /\ streamStarted \in [Requests -> BOOLEAN] /\ waitCounted \in [Requests -> BOOLEAN]
    BY <2>1, GatewayAssumption DEF Init, PCs
  <2>6. /\ userSlot \in [Requests -> SlotStates]
        /\ account \in [Requests -> Accounts \cup {NoAccount}]
        /\ accountWaitCounted \in [Requests -> SUBSET Accounts]
        /\ accountSlot \in [Requests -> SlotStates]
        /\ failedAccountIDs \in [Requests -> SUBSET Accounts]
        /\ switchCount \in [Requests -> Nat] /\ lastFailoverStatus \in [Requests -> Nat]
    BY DEF Init, SlotStates
  <2>7. attempts \in [Requests -> Seq(Attempt)] /\ outcome \in [Requests -> Outcome]
    BY <2>2, <2>3 DEF Init
  <2>8. QED
    BY <2>4, <2>5, <2>6, <2>7 DEF TypeOK
<1>2. SlotAccounting
  <2>1. /\ \A u \in Users : UserSlotHolders(u) = {} /\ UserWaiters(u) = {}
        /\ \A a \in Accounts : AccountSlotHolders(a) = {} /\ AccountWaiters(a) = {}
    BY DEF Init, UserSlotHolders, UserWaiters, AccountSlotHolders, AccountWaiters, ReqsOf
  <2>2. QED
    BY <2>1, FS_EmptySet DEF Init, SlotAccounting
<1>3. HeldOnlyInScope
  BY DEF Init, HeldOnlyInScope
<1>4. QED
  BY <1>1, <1>2, <1>3 DEF IInv
-----------------------------------------------------------------------------
(* Steps that touch no counter and no slot state keep the accounting.     *)
SlotStateUnchanged ==
  UNCHANGED <<userWait, userActive, accountWait, accountActive, waitCounted,
              userSlot, accountSlot, account, accountWaitCounted>>

LEMMA AccountingFrame ==
  ASSUME SlotAccounting, SlotStateUnchanged
  PROVE  SlotAccounting'
BY DEF SlotAccounting, SlotStateUnchanged, UserSlotHolders, UserWaiters,
       AccountSlotHolders, AccountWaiters

(* A return before Forward (any of the error exits of lines 163-274): the  *)
(* deferred calls give back the user wait place, the user slot and the    *)
(* account wait places; no account slot is held in that stretch.          *)
LEMMA ReturnBeforeForward ==
  ASSUME IInv, NEW r \in Requests,
         pc[r] \in {"acqUser", "userAdmitted", "select", "accWait", "acqAcc"},
         Return(r), UNCHANGED <<accountActive, accountSlot>>
  PROVE  /\ SlotAccounting' /\ OthersUnchanged(r)
         /\ \A q \in Requests \ {r} : /\ pc'[q] = pc[q] /\ account'[q] = account[q]
         /\ pc'[r] = "idle" /\ ~waitCounted'[r] /\ userSlot'[r] # "held"
         /\ accountSlot'[r] # "held" /\ accountWaitCounted'[r] = {}
         /\ userWait' \in [Users -> Int] /\ userActive' \in [Users -> Int]
         /\ accountWait' \in [Accounts -> Int]
<1> USE DEF IInv, TypeOK
<1>1. OthersUnchanged(r)
  BY DEF Return, Goto, DropLocals, OthersUnchanged
<1>2. accountSlot[r] # "held"
  BY DEF HeldOnlyInScope
<1>3. \A u \in Users : userWait'[u] = userWait[u] + UserWaitDelta(r, u)
  BY DEF Return, UserWaitDelta, UserWaiters, ReqsOf
<1>4. \A u \in Users : userActive'[u] = userActive[u] + UserActiveDelta(r, u)
  BY DEF Return, UserActiveDelta, UserSlotHolders, ReqsOf
<1>5. \A a \in Accounts : accountWait'[a] = accountWait[a] + AccountWaitDelta(r, a)
  BY DEF Return, AccountWaitDelta, AccountWaiters
<1>6. \A a \in Accounts : accountActive'[a] = accountActive[a] + AccountActiveDelta(r, a)
  BY <1>2 DEF Return, AccountActiveDelta, AccountSlotHolders
<1>7. SlotAccounting'
  BY <1>1, <1>3, <1>4, <1>5, <1>6, AccountingStep
<1>8. /\ userWait' \in [Users -> Int] /\ userActive' \in [Users -> Int]
      /\ accountWait' \in [Accounts -> Int]
  <2>1. Owner[r] \in Users
    BY GatewayAssumption
  <2>2. userWait' \in [Users -> Int]
    BY <2>1 DEF Return
  <2>3. userActive' \in [Users -> Int]
    BY <2>1 DEF Return
  <2>4. accountWait' \in [Accounts -> Int]
    BY DEF Return
  <2>5. QED
    BY <2>2, <2>3, <2>4
<1>9. QED
  BY <1>1, <1>2, <1>7, <1>8 DEF Return, Goto, DropLocals

(* The account release after Forward followed by the return (lines        *)
(* 288-290 and the exits of lines 299-333).                               *)
LEMMA ReleaseAndReturn ==
  ASSUME IInv, NEW r \in Requests, pc[r] = "forward", ReleaseAccount(r), Return(r)
  PROVE  /\ SlotAccounting' /\ OthersUnchanged(r)
         /\ \A q \in Requests \ {r} : /\ pc'[q] = pc[q] /\ account'[q] = account[q]
         /\ pc'[r] = "idle" /\ ~waitCounted'[r] /\ userSlot'[r] # "held"
         /\ accountSlot'[r] # "held" /\ accountWaitCounted'[r] = {}
         /\ userWait' \in [Users -> Int] /\ userActive' \in [Users -> Int]
         /\ accountWait' \in [Accounts -> Int] /\ accountActive' \in [Accounts -> Int]
         /\ accountSlot' \in [Requests -> SlotStates]
<1> USE DEF IInv, TypeOK
<1>1. OthersUnchanged(r)
  BY DEF Return, ReleaseAccount, Goto, DropLocals, OthersUnchanged
<1>2. ~waitCounted[r] /\ accountWaitCounted[r] = {} /\ account[r] \in Accounts
  BY DEF HeldOnlyInScope
<1>3. \A u \in Users : userWait'[u] = userWait[u] + UserWaitDelta(r, u)
  BY <1>2 DEF Return, UserWaitDelta, UserWaiters, ReqsOf
<1>4. \A u \in Users : userActive'[u] = userActive[u] + UserActiveDelta(r, u)
  BY DEF Return, UserActiveDelta, UserSlotHolders, ReqsOf
<1>5. \A a \in Accounts : accountWait'[a] = accountWait[a] + AccountWaitDelta(r, a)
  BY <1>2 DEF Return, AccountWaitDelta, AccountWaiters
<1>6. \A a \in Accounts : accountActive'[a] = accountActive[a] + AccountActiveDelta(r, a)
  BY <1>2 DEF ReleaseAccount, Return, DropLocals, AccountActiveDelta, AccountSlotHolders
<1>7. SlotAccounting'
  BY <1>1, <1>3, <1>4, <1>5, <1>6, AccountingStep
<1>8. /\ userWait' \in [Users -> Int] /\ userActive' \in [Users -> Int]
      /\ accountWait' \in [Accounts -> Int] /\ accountActive' \in [Accounts -> Int]
  <2>1. Owner[r] \in Users
    BY GatewayAssumption
  <2>2. userWait' \in [Users -> Int]
    BY <2>1 DEF Return
  <2>3. userActive' \in [Users -> Int]
    BY <2>1 DEF Return
  <2>4. accountWait' \in [Accounts -> Int]
    BY DEF Return
  <2>5. accountActive' \in [Accounts -> Int]
    BY <1>2 DEF ReleaseAccount
  <2>6. QED
    BY <2>2, <2>3, <2>4, <2>5
<1>9. accountSlot' \in [Requests -> SlotStates] /\ accountSlot'[r] # "held"
  BY DEF ReleaseAccount, SlotStates
<1>10. QED
  BY <1>1, <1>7, <1>8, <1>9 DEF Return, Goto, DropLocals
(* Return leaves the goroutine's locals and flags well typed.             *)
LEMMA ReturnTypes ==
  ASSUME TypeOK, NEW r \in Requests, Return(r)
  PROVE  /\ pc' \in [Requests -> PCs]
         /\ reqModel' \in [Requests -> Models]
         /\ sessionHash' \in [Requests -> Sessions]
         /\ ctxDone' \in [Requests -> BOOLEAN]
         /\ waitCounted' \in [Requests -> BOOLEAN]
         /\ userSlot' \in [Requests -> SlotStates]
         /\ account' \in [Requests -> Accounts \cup {NoAccount}]
         /\ accountWaitCounted' \in [Requests -> SUBSET Accounts]
         /\ failedAccountIDs' \in [Requests -> SUBSET Accounts]
         /\ switchCount' \in [Requests -> Nat]
         /\ lastFailoverStatus' \in [Requests -> Nat]
<1>1. (CHOOSE m \in Models : TRUE) \in Models /\ NoSession \in Sessions
  BY GatewayAssumption
<1>2. QED
  BY <1>1 DEF TypeOK, Return, Goto, DropLocals, PCs, SlotStates

-----------------------------------------------------------------------------
(* HeldOnlyInScope, request by request.                                   *)
InScope(q) ==
  /\ waitCounted[q] => pc[q] \in {"acqUser", "userAdmitted"}
  /\ userSlot[q] = "held" =>
       pc[q] \in {"userAdmitted", "select", "accWait", "acqAcc", "accAdmitted",
                  "forward"}
  /\ accountSlot[q] = "held" =>
       pc[q] \in {"accAdmitted", "forward"} /\ account[q] \in Accounts
  /\ accountWaitCounted[q] \subseteq {account[q]}
  /\ accountWaitCounted[q] # {} => pc[q] \in {"acqAcc", "accAdmitted"}
  /\ pc[q] \in {"accWait", "acqAcc", "accAdmitted", "forward"} =>
       account[q] \in Accounts

LEMMA ScopeAt ==
  ASSUME HeldOnlyInScope, NEW r \in Requests
  PROVE  InScope(r)
BY DEF HeldOnlyInScope, InScope

(* A step of request r that leaves the others' control and slot state     *)
(* alone keeps HeldOnlyInScope once it holds for r.                        *)
LEMMA ScopeStep ==
  ASSUME HeldOnlyInScope, NEW r \in Requests, OthersUnchanged(r),
         \A q \in Requests \ {r} : pc'[q] = pc[q], InScope(r)'
  PROVE  HeldOnlyInScope'
<1>1. \A q \in Requests : InScope(q)
  BY DEF HeldOnlyInScope, InScope
<1>2. \A q \in Requests : InScope(q)'
  BY <1>1 DEF OthersUnchanged, InScope
<1>3. QED
  BY <1>2 DEF HeldOnlyInScope, InScope

-----------------------------------------------------------------------------
(* Preflight and the user wait queue (lines 59-170).                      *)
LEMMA PreflightRejectsIInv ==
  ASSUME IInv, NEW r \in Requests, PreflightRejects(r)
  PROVE  IInv'
<1>0. TypeOK /\ SlotAccounting /\ HeldOnlyInScope
  BY DEF IInv
<1>1. SlotAccounting'
  BY <1>0, AccountingFrame DEF PreflightRejects, SlotStateUnchanged, shared
<1>2. InScope(r)'
  BY <1>0 DEF HeldOnlyInScope, InScope, PreflightRejects, Goto
<1>3. HeldOnlyInScope'
  BY <1>2, ScopeStep, <1>0 DEF PreflightRejects, Goto, OthersUnchanged
<1>4. TypeOK'
  BY <1>0 DEF TypeOK, shared, PreflightRejects, PreflightStatuses, Goto, PCs, Outcome,
             Shapes, ErrorTypes
<1>5. QED
  BY <1>1, <1>3, <1>4 DEF IInv

LEMMA PreflightPassesIInv ==
  ASSUME IInv, NEW r \in Requests, PreflightPasses(r)
  PROVE  IInv'
<1>0. TypeOK /\ SlotAccounting /\ HeldOnlyInScope
  BY DEF IInv
<1>1. SlotAccounting'
  BY <1>0, AccountingFrame DEF PreflightPasses, SlotStateUnchanged, shared
<1>2. InScope(r)'
  BY <1>0 DEF HeldOnlyInScope, InScope, PreflightPasses, Goto
<1>3. HeldOnlyInScope'
  BY <1>2, ScopeStep, <1>0 DEF PreflightPasses, Goto, OthersUnchanged
<1>4. TypeOK'
  BY <1>0 DEF TypeOK, shared, PreflightPasses, Goto, PCs
<1>5. QED
  BY <1>1, <1>3, <1>4 DEF IInv

LEMMA UserWaitStoreErrorIInv ==
  ASSUME IInv, NEW r \in Requests, UserWaitStoreError(r)
  PROVE  IInv'
<1>0. TypeOK /\ SlotAccounting /\ HeldOnlyInScope
  BY DEF IInv
<1>1. SlotAccounting'
  BY <1>0, AccountingFrame DEF UserWaitStoreError, SlotStateUnchanged, shared
<1>2. InScope(r)'
  BY <1>0 DEF HeldOnlyInScope, InScope, UserWaitStoreError, Goto
<1>3. HeldOnlyInScope'
  BY <1>2, ScopeStep, <1>0 DEF UserWaitStoreError, Goto, OthersUnchanged
<1>4. TypeOK'
  BY <1>0 DEF TypeOK, shared, UserWaitStoreError, Goto, PCs
<1>5. QED
  BY <1>1, <1>3, <1>4 DEF IInv

LEMMA UserWaitAdmittedIInv ==
  ASSUME IInv, NEW r \in Requests, UserWaitAdmitted(r)
  PROVE  IInv'
<1>0. TypeOK /\ SlotAccounting /\ HeldOnlyInScope
  BY DEF IInv
<1>1. OthersUnchanged(r)
  BY DEF UserWaitAdmitted, Goto, OthersUnchanged
<1>2. ~waitCounted[r] /\ Owner[r] \in Users
  BY <1>0, GatewayAssumption DEF HeldOnlyInScope, UserWaitAdmitted
<1>3. SlotAccounting'
  <2>1. \A u \in Users : userWait'[u] = userWait[u] + UserWaitDelta(r, u)
    BY <1>0, <1>2 DEF TypeOK, UserWaitAdmitted, UserWaitDelta, UserWaiters, ReqsOf
  <2>2. \A u \in Users : userActive'[u] = userActive[u] + UserActiveDelta(r, u)
    BY <1>0 DEF TypeOK, UserWaitAdmitted, UserActiveDelta, UserSlotHolders, ReqsOf
  <2>3. \A a \in Accounts : accountWait'[a] = accountWait[a] + AccountWaitDelta(r, a)
    BY <1>0 DEF TypeOK, UserWaitAdmitted, AccountWaitDelta, AccountWaiters
  <2>4. \A a \in Accounts : accountActive'[a] = accountActive[a] + AccountActiveDelta(r, a)
    BY <1>0 DEF TypeOK, UserWaitAdmitted, AccountActiveDelta, AccountSlotHolders
  <2>5. QED
    BY <1>1, <2>1, <2>2, <2>3, <2>4, AccountingStep, <1>0
<1>4. HeldOnlyInScope'
  <2>1. InScope(r)'
    BY <1>0 DEF TypeOK, HeldOnlyInScope, InScope, UserWaitAdmitted, Goto
  <2>2. QED
    BY <1>1, <2>1, ScopeStep, <1>0 DEF UserWaitAdmitted, Goto
<1>5. TypeOK'
  <2>1. userWait' \in [Users -> Int]
    BY <1>0, <1>2 DEF TypeOK, UserWaitAdmitted
  <2>2. QED
    BY <1>0, <1>3, <2>1, CountersNat DEF TypeOK, UserWaitAdmitted, Goto, PCs
<1>6. QED
  BY <1>3, <1>4, <1>5 DEF IInv

LEMMA UserWaitRejectedIInv ==
  ASSUME IInv, NEW r \in Requests, UserWaitRejected(r)
  PROVE  IInv'
<1>0. TypeOK /\ SlotAccounting /\ HeldOnlyInScope
  BY DEF IInv
<1>1. SlotAccounting'
  BY <1>0, AccountingFrame DEF UserWaitRejected, SlotStateUnchanged, shared
<1>2. InScope(r)'
  BY <1>0 DEF HeldOnlyInScope, InScope, UserWaitRejected, Goto
<1>3. HeldOnlyInScope'
  BY <1>2, ScopeStep, <1>0 DEF UserWaitRejected, Goto, OthersUnchanged
<1>4. TypeOK'
  BY <1>0 DEF TypeOK, shared, UserWaitRejected, RespondJSON, Goto, PCs, Outcome, Shapes,
         ErrorTypes
<1>5. QED
  BY <1>1, <1>3, <1>4 DEF IInv
-----------------------------------------------------------------------------
(* The user slot (lines 177-194), the heartbeat and billing (196-203).    *)
LEMMA AcquireUserSlotIInv ==
  ASSUME IInv, NEW r \in Requests, AcquireUserSlot(r)
  PROVE  IInv'
<1>0. TypeOK /\ SlotAccounting /\ HeldOnlyInScope
  BY DEF IInv
<1>1. OthersUnchanged(r)
  BY <1>0 DEF TypeOK, AcquireUserSlot, Goto, OthersUnchanged
<1>2. userSlot[r] # "held" /\ Owner[r] \in Users
  <2>1. InScope(r)
    BY <1>0, ScopeAt
  <2>2. pc[r] = "acqUser"
    BY DEF AcquireUserSlot
  <2>3. userSlot[r] # "held"
    BY <2>1, <2>2 DEF InScope
  <2>4. QED
    BY <2>3, GatewayAssumption
<1>3. SlotAccounting'
  <2>1. \A u \in Users : userWait'[u] = userWait[u] + UserWaitDelta(r, u)
    BY <1>0 DEF TypeOK, AcquireUserSlot, UserWaitDelta, UserWaiters, ReqsOf
  <2>2. \A u \in Users : userActive'[u] = userActive[u] + UserActiveDelta(r, u)
    BY <1>0, <1>2 DEF TypeOK, AcquireUserSlot, UserActiveDelta, UserSlotHolders, ReqsOf
  <2>3. \A a \in Accounts : accountWait'[a] = accountWait[a] + AccountWaitDelta(r, a)
    BY <1>0 DEF TypeOK, AcquireUserSlot, AccountWaitDelta, AccountWaiters
  <2>4. \A a \in Accounts : accountActive'[a] = accountActive[a] + AccountActiveDelta(r, a)
    BY <1>0 DEF TypeOK, AcquireUserSlot, AccountActiveDelta, AccountSlotHolders
  <2>5. QED
    BY <1>1, <2>1, <2>2, <2>3, <2>4, AccountingStep, <1>0
<1>4. HeldOnlyInScope'
  <2>1. InScope(r)
    BY <1>0, ScopeAt
  <2>2. InScope(r)'
    BY <1>0, <2>1 DEF TypeOK, InScope, AcquireUserSlot, Goto
  <2>3. \A q \in Requests \ {r} : pc'[q] = pc[q]
    BY <1>0 DEF TypeOK, AcquireUserSlot, Goto
  <2>4. QED
    BY <1>0, <1>1, <2>2, <2>3, ScopeStep
<1>5. TypeOK'
  <2>1. userActive' \in [Users -> Int]
    BY <1>0, <1>2 DEF TypeOK, AcquireUserSlot
  <2>2. QED
    BY <1>0, <1>3, <2>1, CountersNat DEF TypeOK, AcquireUserSlot, Goto, PCs, SlotStates
<1>6. QED
  BY <1>3, <1>4, <1>5 DEF IInv

LEMMA AcquireUserSlotFailsIInv ==
  ASSUME IInv, NEW r \in Requests, AcquireUserSlotFails(r)
  PROVE  IInv'
<1>0. TypeOK /\ SlotAccounting /\ HeldOnlyInScope
  BY DEF IInv
<1>1. /\ pc[r] \in {"acqUser", "userAdmitted", "select", "accWait", "acqAcc"}
      /\ Return(r) /\ UNCHANGED <<accountActive, accountSlot>>
  BY DEF AcquireUserSlotFails
<1>2. /\ SlotAccounting' /\ OthersUnchanged(r)
      /\ \A q \in Requests \ {r} : /\ pc'[q] = pc[q] /\ account'[q] = account[q]
      /\ pc'[r] = "idle" /\ ~waitCounted'[r] /\ userSlot'[r] # "held"
      /\ accountSlot'[r] # "held" /\ accountWaitCounted'[r] = {}
      /\ userWait' \in [Users -> Int] /\ userActive' \in [Users -> Int]
      /\ accountWait' \in [Accounts -> Int]
  BY <1>1, ReturnBeforeForward
<1>3. HeldOnlyInScope'
  <2>1. InScope(r)'
    BY <1>2 DEF InScope
  <2>2. QED
    BY <1>0, <1>2, <2>1, ScopeStep
<1>4. TypeOK'
  <2>1. outcome' \in [Requests -> Outcome]
    BY <1>0 DEF TypeOK, AcquireUserSlotFails, RespondStreamingAware, Outcome,
              ErrorTypes, Shapes
  <2>2. UNCHANGED <<sticky, reqStream, streamStarted, attempts>>
    BY DEF AcquireUserSlotFails
  <2>3. QED
    BY <1>0, <1>1, <1>2, <2>1, <2>2, CountersNat, ReturnTypes DEF TypeOK
<1>5. QED
  BY <1>2, <1>3, <1>4 DEF IInv
(* Heartbeat, cancellation, and the early exits of lines 196-274.        *)

LEMMA HeartbeatIInv ==
  ASSUME IInv, NEW r \in Requests, Heartbeat(r)
  PROVE  IInv'
<1>0. TypeOK /\ SlotAccounting /\ HeldOnlyInScope
  BY DEF IInv
<1>1. SlotAccounting'
  BY <1>0, AccountingFrame DEF Heartbeat, SlotStateUnchanged, shared
<1>2. InScope(r)'
  BY <1>0 DEF TypeOK, HeldOnlyInScope, InScope, Heartbeat
<1>3. HeldOnlyInScope'
  BY <1>2, ScopeStep, <1>0 DEF Heartbeat, OthersUnchanged, shared
<1>4. TypeOK'
  BY <1>0 DEF TypeOK, shared, Heartbeat, PCs
<1>5. QED
  BY <1>1, <1>3, <1>4 DEF IInv

LEMMA CancelIInv ==
  ASSUME IInv, NEW r \in Requests, Cancel(r)
  PROVE  IInv'
<1>0. TypeOK /\ SlotAccounting /\ HeldOnlyInScope
  BY DEF IInv
<1>1. SlotAccounting'
  BY <1>0, AccountingFrame DEF Cancel, SlotStateUnchanged, shared
<1>2. InScope(r)'
  BY <1>0 DEF TypeOK, HeldOnlyInScope, InScope, Cancel
<1>3. HeldOnlyInScope'
  BY <1>2, ScopeStep, <1>0 DEF Cancel, OthersUnchanged, shared
<1>4. TypeOK'
  BY <1>0 DEF TypeOK, shared, Cancel, PCs
<1>5. QED
  BY <1>1, <1>3, <1>4 DEF IInv

LEMMA AccountWaitStoreErrorIInv ==
  ASSUME IInv, NEW r \in Requests, AccountWaitStoreError(r)
  PROVE  IInv'
<1>0. TypeOK /\ SlotAccounting /\ HeldOnlyInScope
  BY DEF IInv
<1>1. SlotAccounting'
  BY <1>0, AccountingFrame DEF AccountWaitStoreError, SlotStateUnchanged, shared
<1>2. InScope(r)'
  BY <1>0 DEF TypeOK, HeldOnlyInScope, InScope, AccountWaitStoreError, Goto
<1>3. HeldOnlyInScope'
  BY <1>2, ScopeStep, <1>0 DEF AccountWaitStoreError, Goto, OthersUnchanged, shared
<1>4. TypeOK'
  BY <1>0 DEF TypeOK, shared, AccountWaitStoreError, Goto, PCs
<1>5. QED
  BY <1>1, <1>3, <1>4 DEF IInv

LEMMA BillingFailsIInv ==
  ASSUME IInv, NEW r \in Requests, BillingFails(r)
  PROVE  IInv'
<1>0. TypeOK /\ SlotAccounting /\ HeldOnlyInScope
  BY DEF IInv
<1>1. /\ pc[r] \in {"acqUser", "userAdmitted", "select", "accWait", "acqAcc"}
      /\ Return(r) /\ UNCHANGED <<accountActive, accountSlot>>
  BY DEF BillingFails
<1>2. /\ SlotAccounting' /\ OthersUnchanged(r)
      /\ \A q \in Requests \ {r} : /\ pc'[q] = pc[q] /\ account'[q] = account[q]
      /\ pc'[r] = "idle" /\ ~waitCounted'[r] /\ userSlot'[r] # "held"
      /\ accountSlot'[r] # "held" /\ accountWaitCounted'[r] = {}
      /\ userWait' \in [Users -> Int] /\ userActive' \in [Users -> Int]
      /\ accountWait' \in [Accounts -> Int]
  BY <1>1, ReturnBeforeForward
<1>3. HeldOnlyInScope'
  <2>1. InScope(r)'
    BY <1>2 DEF InScope
  <2>2. QED
    BY <1>0, <1>2, <2>1, ScopeStep
<1>4. TypeOK'
  <2>1. outcome' \in [Requests -> Outcome]
    BY <1>0 DEF TypeOK, BillingFails, RespondStreamingAware, Outcome, ErrorTypes, Shapes, BillingStatus
  <2>2. UNCHANGED <<sticky, reqStream, streamStarted, attempts>>
    BY DEF BillingFails
  <2>3. QED
    BY <1>0, <1>1, <1>2, <2>1, <2>2, CountersNat, ReturnTypes DEF TypeOK
<1>5. QED
  BY <1>2, <1>3, <1>4 DEF IInv

LEMMA SelectNoAccountIInv ==
  ASSUME IInv, NEW r \in Requests, SelectNoAccount(r)
  PROVE  IInv'
<1>0. TypeOK /\ SlotAccounting /\ HeldOnlyInScope
  BY DEF IInv
<1>1. /\ pc[r] \in {"acqUser", "userAdmitted", "select", "accWait", "acqAcc"}
      /\ Return(r) /\ UNCHANGED <<accountActive, accountSlot>>
  BY DEF SelectNoAccount
<1>2. /\ SlotAccounting' /\ OthersUnchanged(r)
      /\ \A q \in Requests \ {r} : /\ pc'[q] = pc[q] /\ account'[q] = account[q]
      /\ pc'[r] = "idle" /\ ~waitCounted'[r] /\ userSlot'[r] # "held"
      /\ accountSlot'[r] # "held" /\ accountWaitCounted'[r] = {}
      /\ userWait' \in [Users -> Int] /\ userActive' \in [Users -> Int]
      /\ accountWait' \in [Accounts -> Int]
  BY <1>1, ReturnBeforeForward
<1>3. HeldOnlyInScope'
  <2>1. InScope(r)'
    BY <1>2 DEF InScope
  <2>2. QED
    BY <1>0, <1>2, <2>1, ScopeStep
<1>4. TypeOK'
  <2>1. outcome' \in [Requests -> Outcome]
    BY <1>0 DEF TypeOK, SelectNoAccount, RespondStreamingAware, Outcome, ErrorTypes, Shapes
  <2>2. UNCHANGED <<sticky, reqStream, streamStarted, attempts>>
    BY DEF SelectNoAccount
  <2>3. QED
    BY <1>0, <1>1, <1>2, <2>1, <2>2, CountersNat, ReturnTypes DEF TypeOK
<1>5. QED
  BY <1>2, <1>3, <1>4 DEF IInv

LEMMA SelectExhaustedIInv ==
  ASSUME IInv, NEW r \in Requests, SelectExhausted(r)
  PROVE  IInv'
<1>0. TypeOK /\ SlotAccounting /\ HeldOnlyInScope
  BY DEF IInv
<1>1. /\ pc[r] \in {"acqUser", "userAdmitted", "select", "accWait", "acqAcc"}
      /\ Return(r) /\ UNCHANGED <<accountActive, accountSlot>>
  BY DEF SelectExhausted
<1>2. /\ SlotAccounting' /\ OthersUnchanged(r)
      /\ \A q \in Requests \ {r} : /\ pc'[q] = pc[q] /\ account'[q] = account[q]
      /\ pc'[r] = "idle" /\ ~waitCounted'[r] /\ userSlot'[r] # "held"
      /\ accountSlot'[r] # "held" /\ accountWaitCounted'[r] = {}
      /\ userWait' \in [Users -> Int] /\ userActive' \in [Users -> Int]
      /\ accountWait' \in [Accounts -> Int]
  BY <1>1, ReturnBeforeForward
<1>3. HeldOnlyInScope'
  <2>1. InScope(r)'
    BY <1>2 DEF InScope
  <2>2. QED
    BY <1>0, <1>2, <2>1, ScopeStep
<1>4. TypeOK'
  <2>1. outcome' \in [Requests -> Outcome]
    BY <1>0 DEF TypeOK, SelectExhausted, RespondStreamingAware, Outcome, ErrorTypes, Shapes, MapUpstreamError
  <2>2. UNCHANGED <<sticky, reqStream, streamStarted, attempts>>
    BY DEF SelectExhausted
  <2>3. QED
    BY <1>0, <1>1, <1>2, <2>1, <2>2, CountersNat, ReturnTypes DEF TypeOK
<1>5. QED
  BY <1>2, <1>3, <1>4 DEF IInv

LEMMA AccountWaitRejectedIInv ==
  ASSUME IInv, NEW r \in Requests, AccountWaitRejected(r)
  PROVE  IInv'
<1>0. TypeOK /\ SlotAccounting /\ HeldOnlyInScope
  BY DEF IInv
<1>1. /\ pc[r] \in {"acqUser", "userAdmitted", "select", "accWait", "acqAcc"}
      /\ Return(r) /\ UNCHANGED <<accountActive, accountSlot>>
  BY DEF AccountWaitRejected
<1>2. /\ SlotAccounting' /\ OthersUnchanged(r)
      /\ \A q \in Requests \ {r} : /\ pc'[q] = pc[q] /\ account'[q] = account[q]
      /\ pc'[r] = "idle" /\ ~waitCounted'[r] /\ userSlot'[r] # "held"
      /\ accountSlot'[r] # "held" /\ accountWaitCounted'[r] = {}
      /\ userWait' \in [Users -> Int] /\ userActive' \in [Users -> Int]
      /\ accountWait' \in [Accounts -> Int]
  BY <1>1, ReturnBeforeForward
<1>3. HeldOnlyInScope'
  <2>1. InScope(r)'
    BY <1>2 DEF InScope
  <2>2. QED
    BY <1>0, <1>2, <2>1, ScopeStep
<1>4. TypeOK'
  <2>1. outcome' \in [Requests -> Outcome]
    BY <1>0 DEF TypeOK, AccountWaitRejected, RespondStreamingAware, Outcome, ErrorTypes, Shapes
  <2>2. UNCHANGED <<sticky, reqStream, streamStarted, attempts>>
    BY DEF AccountWaitRejected
  <2>3. QED
    BY <1>0, <1>1, <1>2, <2>1, <2>2, CountersNat, ReturnTypes DEF TypeOK
<1>5. QED
  BY <1>2, <1>3, <1>4 DEF IInv

LEMMA AcquireAccountSlotFailsIInv ==
  ASSUME IInv, NEW r \in Requests, AcquireAccountSlotFails(r)
  PROVE  IInv'
<1>0. TypeOK /\ SlotAccounting /\ HeldOnlyInScope
  BY DEF IInv
<1>1. /\ pc[r] \in {"acqUser", "userAdmitted", "select", "accWait", "acqAcc"}
      /\ Return(r) /\ UNCHANGED <<accountActive, accountSlot>>
  BY DEF AcquireAccountSlotFails
<1>2. /\ SlotAccounting' /\ OthersUnchanged(r)
      /\ \A q \in Requests \ {r} : /\ pc'[q] = pc[q] /\ account'[q] = account[q]
      /\ pc'[r] = "idle" /\ ~waitCounted'[r] /\ userSlot'[r] # "held"
      /\ accountSlot'[r] # "held" /\ accountWaitCounted'[r] = {}
      /\ userWait' \in [Users -> Int] /\ userActive' \in [Users -> Int]
      /\ accountWait' \in [Accounts -> Int]
  BY <1>1, ReturnBeforeForward
<1>3. HeldOnlyInScope'
  <2>1. InScope(r)'
    BY <1>2 DEF InScope
  <2>2. QED
    BY <1>0, <1>2, <2>1, ScopeStep
<1>4. TypeOK'
  <2>1. outcome' \in [Requests -> Outcome]
    BY <1>0 DEF TypeOK, AcquireAccountSlotFails, RespondStreamingAware, Outcome, ErrorTypes, Shapes
  <2>2. UNCHANGED <<sticky, reqStream, streamStarted, attempts>>
    BY DEF AcquireAccountSlotFails
  <2>3. QED
    BY <1>0, <1>1, <1>2, <2>1, <2>2, CountersNat, ReturnTypes DEF TypeOK
<1>5. QED
  BY <1>2, <1>3, <1>4 DEF IInv
(* Billing passes, the watchers of wrapReleaseOnDone, a new request and  *)
(* the expiry of a sticky binding.                                        *)

LEMMA BillingPassesIInv ==
  ASSUME IInv, NEW r \in Requests, BillingPasses(r)
  PROVE  IInv'
<1>0. TypeOK /\ SlotAccounting /\ HeldOnlyInScope
  BY DEF IInv
<1>1. OthersUnchanged(r) /\ \A q \in Requests \ {r} : pc'[q] = pc[q]
  BY <1>0 DEF TypeOK, BillingPasses, shared, Goto, OthersUnchanged
<1>9. InScope(r)
  BY <1>0, ScopeAt
<1>2. Owner[r] \in Users
  BY <1>0, <1>9, GatewayAssumption DEF TypeOK, InScope, BillingPasses, shared
<1>3. SlotAccounting'
  <2>1. \A u \in Users : userWait'[u] = userWait[u] + UserWaitDelta(r, u)
    BY <1>0, <1>2 DEF TypeOK, BillingPasses, shared, UserWaitDelta, UserWaiters, ReqsOf
  <2>2. \A u \in Users : userActive'[u] = userActive[u] + UserActiveDelta(r, u)
    BY <1>0, <1>2 DEF TypeOK, BillingPasses, shared, UserActiveDelta, UserSlotHolders, ReqsOf
  <2>3. \A a \in Accounts : accountWait'[a] = accountWait[a] + AccountWaitDelta(r, a)
    BY <1>0, <1>2 DEF TypeOK, BillingPasses, shared, AccountWaitDelta, AccountWaiters
  <2>4. \A a \in Accounts : accountActive'[a] = accountActive[a] + AccountActiveDelta(r, a)
    BY <1>0, <1>2 DEF TypeOK, BillingPasses, shared, AccountActiveDelta, AccountSlotHolders
  <2>5. QED
    BY <1>1, <2>1, <2>2, <2>3, <2>4, AccountingStep, <1>0
<1>4. HeldOnlyInScope'
  <2>1. InScope(r)'
    BY <1>0, <1>2, <1>9 DEF TypeOK, InScope, BillingPasses, shared, Goto
  <2>2. QED
    BY <1>1, <2>1, ScopeStep, <1>0
<1>5. TypeOK'
  <2>1. userWait' \in [Users -> Int]
    BY <1>0, <1>2 DEF TypeOK, BillingPasses, shared
  <2>2. QED
    BY <1>0, <1>3, <2>1, CountersNat DEF TypeOK, BillingPasses, shared, Goto, PCs, SlotStates
<1>6. QED
  BY <1>3, <1>4, <1>5 DEF IInv

LEMMA UserReleaseOnDoneIInv ==
  ASSUME IInv, NEW r \in Requests, UserReleaseOnDone(r)
  PROVE  IInv'
<1>0. TypeOK /\ SlotAccounting /\ HeldOnlyInScope
  BY DEF IInv
<1>1. OthersUnchanged(r) /\ \A q \in Requests \ {r} : pc'[q] = pc[q]
  BY <1>0 DEF TypeOK, UserReleaseOnDone, shared, Goto, OthersUnchanged
<1>9. InScope(r)
  BY <1>0, ScopeAt
<1>2. userSlot[r] = "held" /\ Owner[r] \in Users
  BY <1>0, <1>9, GatewayAssumption DEF TypeOK, InScope, UserReleaseOnDone, shared
<1>3. SlotAccounting'
  <2>1. \A u \in Users : userWait'[u] = userWait[u] + UserWaitDelta(r, u)
    BY <1>0, <1>2 DEF TypeOK, UserReleaseOnDone, shared, UserWaitDelta, UserWaiters, ReqsOf
  <2>2. \A u \in Users : userActive'[u] = userActive[u] + UserActiveDelta(r, u)
    BY <1>0, <1>2 DEF TypeOK, UserReleaseOnDone, shared, UserActiveDelta, UserSlotHolders, ReqsOf
  <2>3. \A a \in Accounts : accountWait'[a] = accountWait[a] + AccountWaitDelta(r, a)
    BY <1>0, <1>2 DEF TypeOK, UserReleaseOnDone, shared, AccountWaitDelta, AccountWaiters
  <2>4. \A a \in Accounts : accountActive'[a] = accountActive[a] + AccountActiveDelta(r, a)
    BY <1>0, <1>2 DEF TypeOK, UserReleaseOnDone, shared, AccountActiveDelta, AccountSlotHolders
  <2>5. QED
    BY <1>1, <2>1, <2>2, <2>3, <2>4, AccountingStep, <1>0
<1>4. HeldOnlyInScope'
  <2>1. InScope(r)'
    BY <1>0, <1>2, <1>9 DEF TypeOK, InScope, UserReleaseOnDone, shared
  <2>2. QED
    BY <1>1, <2>1, ScopeStep, <1>0
<1>5. TypeOK'
  <2>1. userActive' \in [Users -> Int]
    BY <1>0, <1>2 DEF TypeOK, UserReleaseOnDone, shared
  <2>2. QED
    BY <1>0, <1>3, <2>1, CountersNat DEF TypeOK, UserReleaseOnDone, shared, Goto, PCs, SlotStates
<1>6. QED
  BY <1>3, <1>4, <1>5 DEF IInv

LEMMA AccountReleaseOnDoneIInv ==
  ASSUME IInv, NEW r \in Requests, AccountReleaseOnDone(r)
  PROVE  IInv'
<1>0. TypeOK /\ SlotAccounting /\ HeldOnlyInScope
  BY DEF IInv
<1>1. OthersUnchanged(r) /\ \A q \in Requests \ {r} : pc'[q] = pc[q]
  BY <1>0 DEF TypeOK, AccountReleaseOnDone, shared, Goto, OthersUnchanged
<1>9. InScope(r)
  BY <1>0, ScopeAt
<1>2. accountSlot[r] = "held" /\ account[r] \in Accounts /\ accountWaitCounted[r] = {}
  BY <1>0, <1>9, GatewayAssumption DEF TypeOK, InScope, AccountReleaseOnDone, shared, InScope
<1>3. SlotAccounting'
  <2>0. UNCHANGED <<userWait, userActive, waitCounted, userSlot>>
    BY DEF AccountReleaseOnDone
  <2>1. \A u \in Users : userWait'[u] = userWait[u] + UserWaitDelta(r, u)
    BY <1>0, <2>0, UserCountersFrame
  <2>2. \A u \in Users : userActive'[u] = userActive[u] + UserActiveDelta(r, u)
    BY <1>0, <2>0, UserCountersFrame
  <2>3. \A a \in Accounts : accountWait'[a] = accountWait[a] + AccountWaitDelta(r, a)
    BY <1>0, <1>2 DEF TypeOK, AccountReleaseOnDone, shared, AccountWaitDelta, AccountWaiters
  <2>4. \A a \in Accounts : accountActive'[a] = accountActive[a] + AccountActiveDelta(r, a)
    BY <1>0, <1>2 DEF TypeOK, AccountReleaseOnDone, shared, AccountActiveDelta, AccountSlotHolders
  <2>5. QED
    BY <1>1, <2>1, <2>2, <2>3, <2>4, AccountingStep, <1>0
<1>4. HeldOnlyInScope'
  <2>1. InScope(r)'
    BY <1>0, <1>2, <1>9 DEF TypeOK, InScope, AccountReleaseOnDone, shared
  <2>2. QED
    BY <1>1, <2>1, ScopeStep, <1>0
<1>5. TypeOK'
  <2>1. accountActive' \in [Accounts -> Int]
    BY <1>0, <1>2 DEF TypeOK, AccountReleaseOnDone, shared
  <2>2. QED
    BY <1>0, <1>3, <2>1, CountersNat DEF TypeOK, AccountReleaseOnDone, shared, Goto, PCs, SlotStates
<1>6. QED
  BY <1>3, <1>4, <1>5 DEF IInv

LEMMA ArriveIInv ==
  ASSUME IInv, NEW r \in Requests, Arrive(r)
  PROVE  IInv'
<1>0. TypeOK /\ SlotAccounting /\ HeldOnlyInScope
  BY DEF IInv
<1>1. OthersUnchanged(r) /\ \A q \in Requests \ {r} : pc'[q] = pc[q]
  BY <1>0 DEF TypeOK, Arrive, shared, Goto, OthersUnchanged
<1>9. InScope(r)
  BY <1>0, ScopeAt
<1>2. ~waitCounted[r] /\ userSlot[r] # "held" /\ accountSlot[r] # "held" /\ accountWaitCounted[r] = {}
  BY <1>0, <1>9, GatewayAssumption DEF TypeOK, InScope, Arrive, shared, InScope
<1>3. SlotAccounting'
  <2>1. \A u \in Users : userWait'[u] = userWait[u] + UserWaitDelta(r, u)
    BY <1>0, <1>2 DEF TypeOK, Arrive, shared, UserWaitDelta, UserWaiters, ReqsOf
  <2>2. \A u \in Users : userActive'[u] = userActive[u] + UserActiveDelta(r, u)
    BY <1>0, <1>2 DEF TypeOK, Arrive, shared, UserActiveDelta, UserSlotHolders, ReqsOf
  <2>3. \A a \in Accounts : accountWait'[a] = accountWait[a] + AccountWaitDelta(r, a)
    BY <1>0, <1>2 DEF TypeOK, Arrive, shared, AccountWaitDelta, AccountWaiters
  <2>4. \A a \in Accounts : accountActive'[a] = accountActive[a] + AccountActiveDelta(r, a)
    BY <1>0, <1>2 DEF TypeOK, Arrive, shared, AccountActiveDelta, AccountSlotHolders
  <2>5. QED
    BY <1>1, <2>1, <2>2, <2>3, <2>4, AccountingStep, <1>0
<1>4. HeldOnlyInScope'
  <2>1. InScope(r)'
    BY <1>0, <1>2, <1>9 DEF TypeOK, InScope, Arrive, shared, Goto
  <2>2. QED
    BY <1>1, <2>1, ScopeStep, <1>0
<1>5. TypeOK'
  <2>1. outcome' \in [Requests -> Outcome]
    BY <1>0, <1>2 DEF TypeOK, Arrive, shared, NoOutcome, Outcome, Shapes
  <2>2. QED
    BY <1>0, <1>3, <2>1, CountersNat DEF TypeOK, Arrive, shared, Goto, PCs, SlotStates
<1>6. QED
  BY <1>3, <1>4, <1>5 DEF IInv

LEMMA StickyExpiresIInv ==
  ASSUME IInv, NEW s \in Sessions \ {NoSession}, StickyExpires(s)
  PROVE  IInv'
<1>0. TypeOK /\ SlotAccounting /\ HeldOnlyInScope
  BY DEF IInv
<1>1. SlotAccounting'
  BY <1>0, AccountingFrame DEF StickyExpires, SlotStateUnchanged, local
<1>2. HeldOnlyInScope'
  BY <1>0 DEF HeldOnlyInScope, StickyExpires, local
<1>3. TypeOK'
  BY <1>0 DEF TypeOK, StickyExpires, local
<1>4. QED
  BY <1>1, <1>2, <1>3 DEF IInv
(* Account selection and the account wait queue and slot (213-284).      *)

LEMMA SelectAcquiredIInv ==
  ASSUME IInv, NEW r \in Requests, SelectAcquired(r)
  PROVE  IInv'
<1>0. TypeOK /\ SlotAccounting /\ HeldOnlyInScope
  BY DEF IInv
<1>9. InScope(r)
  BY <1>0, ScopeAt
<1>1. OthersUnchanged(r) /\ \A q \in Requests \ {r} : pc'[q] = pc[q]
  BY <1>0 DEF TypeOK, SelectAcquired, shared, Goto, OthersUnchanged
<1>8. PICK acc \in Accounts : /\ accountActive' = [accountActive EXCEPT ![acc] = @ + 1]
                          /\ account' = [account EXCEPT ![r] = acc]
  BY DEF SelectAcquired, Candidates
<1>2. accountSlot[r] # "held" /\ accountWaitCounted[r] = {}
  BY <1>0, <1>9, GatewayAssumption DEF TypeOK, InScope, SelectAcquired, shared
<1>3. SlotAccounting'
  <2>0. UNCHANGED <<userWait, userActive, waitCounted, userSlot>>
    BY DEF SelectAcquired, shared
  <2>1. \A u \in Users : userWait'[u] = userWait[u] + UserWaitDelta(r, u)
    BY <1>0, <2>0, UserCountersFrame
  <2>2. \A u \in Users : userActive'[u] = userActive[u] + UserActiveDelta(r, u)
    BY <1>0, <2>0, UserCountersFrame
  <2>3. \A a \in Accounts : accountWait'[a] = accountWait[a] + AccountWaitDelta(r, a)
    BY <1>0, <1>1, <1>8, <1>9, <1>2 DEF TypeOK, SelectAcquired, shared, AccountWaitDelta, AccountWaiters
  <2>4. \A a \in Accounts : accountActive'[a] = accountActive[a] + AccountActiveDelta(r, a)
    BY <1>0, <1>1, <1>8, <1>9, <1>2 DEF TypeOK, SelectAcquired, shared, AccountActiveDelta, AccountSlotHolders
  <2>5. QED
    BY <1>1, <2>1, <2>2, <2>3, <2>4, AccountingStep, <1>0
<1>4. HeldOnlyInScope'
  <2>1. InScope(r)'
    BY <1>0, <1>1, <1>8, <1>9, <1>2 DEF TypeOK, InScope, SelectAcquired, shared, Goto
  <2>2. QED
    BY <1>1, <2>1, ScopeStep, <1>0
<1>5. TypeOK'
  <2>1. accountActive' \in [Accounts -> Int] /\ account' \in [Requests -> Accounts \cup {NoAccount}]
    BY <1>0, <1>1, <1>8, <1>9, <1>2 DEF TypeOK, SelectAcquired, shared
  <2>2. QED
    BY <1>0, <1>3, <2>1, CountersNat DEF TypeOK, SelectAcquired, shared, Goto, PCs, SlotStates
<1>6. QED
  BY <1>3, <1>4, <1>5 DEF IInv

LEMMA SelectWaitPlanIInv ==
  ASSUME IInv, NEW r \in Requests, SelectWaitPlan(r)
  PROVE  IInv'
<1>0. TypeOK /\ SlotAccounting /\ HeldOnlyInScope
  BY DEF IInv
<1>9. InScope(r)
  BY <1>0, ScopeAt
<1>1. OthersUnchanged(r) /\ \A q \in Requests \ {r} : pc'[q] = pc[q]
  BY <1>0 DEF TypeOK, SelectWaitPlan, shared, Goto, OthersUnchanged
<1>8. PICK acc \in Accounts : account' = [account EXCEPT ![r] = acc]
  BY DEF SelectWaitPlan, Candidates
<1>2. accountSlot[r] # "held" /\ accountWaitCounted[r] = {}
  BY <1>0, <1>9, GatewayAssumption DEF TypeOK, InScope, SelectWaitPlan, shared
<1>3. SlotAccounting'
  <2>0. UNCHANGED <<userWait, userActive, waitCounted, userSlot>>
    BY DEF SelectWaitPlan, shared
  <2>1. \A u \in Users : userWait'[u] = userWait[u] + UserWaitDelta(r, u)
    BY <1>0, <2>0, UserCountersFrame
  <2>2. \A u \in Users : userActive'[u] = userActive[u] + UserActiveDelta(r, u)
    BY <1>0, <2>0, UserCountersFrame
  <2>3. \A a \in Accounts : accountWait'[a] = accountWait[a] + AccountWaitDelta(r, a)
    BY <1>0, <1>1, <1>8, <1>9, <1>2 DEF TypeOK, SelectWaitPlan, shared, AccountWaitDelta, AccountWaiters
  <2>4. \A a \in Accounts : accountActive'[a] = accountActive[a] + AccountActiveDelta(r, a)
    BY <1>0, <1>1, <1>8, <1>9, <1>2 DEF TypeOK, SelectWaitPlan, shared, AccountActiveDelta, AccountSlotHolders
  <2>5. QED
    BY <1>1, <2>1, <2>2, <2>3, <2>4, AccountingStep, <1>0
<1>4. HeldOnlyInScope'
  <2>1. InScope(r)'
    BY <1>0, <1>1, <1>8, <1>9, <1>2 DEF TypeOK, InScope, SelectWaitPlan, shared, Goto
  <2>2. QED
    BY <1>1, <2>1, ScopeStep, <1>0
<1>5. TypeOK'
  <2>1. account' \in [Requests -> Accounts \cup {NoAccount}]
    BY <1>0, <1>1, <1>8, <1>9, <1>2 DEF TypeOK, SelectWaitPlan, shared
  <2>2. QED
    BY <1>0, <1>3, <2>1, CountersNat DEF TypeOK, SelectWaitPlan, shared, Goto, PCs, SlotStates
<1>6. QED
  BY <1>3, <1>4, <1>5 DEF IInv

LEMMA AccountWaitAdmittedIInv ==
  ASSUME IInv, NEW r \in Requests, AccountWaitAdmitted(r)
  PROVE  IInv'
<1>0. TypeOK /\ SlotAccounting /\ HeldOnlyInScope
  BY DEF IInv
<1>9. InScope(r)
  BY <1>0, ScopeAt
<1>1. OthersUnchanged(r) /\ \A q \in Requests \ {r} : pc'[q] = pc[q]
  BY <1>0 DEF TypeOK, AccountWaitAdmitted, shared, Goto, OthersUnchanged
<1>2. account[r] \in Accounts /\ accountWaitCounted[r] = {}
  BY <1>0, <1>9, GatewayAssumption DEF TypeOK, InScope, AccountWaitAdmitted, shared
<1>3. SlotAccounting'
  <2>0. UNCHANGED <<userWait, userActive, waitCounted, userSlot>>
    BY DEF AccountWaitAdmitted
  <2>1. \A u \in Users : userWait'[u] = userWait[u] + UserWaitDelta(r, u)
    BY <1>0, <2>0, UserCountersFrame
  <2>2. \A u \in Users : userActive'[u] = userActive[u] + UserActiveDelta(r, u)
    BY <1>0, <2>0, UserCountersFrame
  <2>3. \A a \in Accounts : accountWait'[a] = accountWait[a] + AccountWaitDelta(r, a)
    BY <1>0, <1>1, <1>9, <1>2 DEF TypeOK, AccountWaitAdmitted, shared, AccountWaitDelta, AccountWaiters
  <2>4. \A a \in Accounts : accountActive'[a] = accountActive[a] + AccountActiveDelta(r, a)
    BY <1>0, <1>1, <1>9, <1>2 DEF TypeOK, AccountWaitAdmitted, shared, AccountActiveDelta, AccountSlotHolders
  <2>5. QED
    BY <1>1, <2>1, <2>2, <2>3, <2>4, AccountingStep, <1>0
<1>4. HeldOnlyInScope'
  <2>1. InScope(r)'
    BY <1>0, <1>1, <1>9, <1>2 DEF TypeOK, InScope, AccountWaitAdmitted, shared, Goto
  <2>2. QED
    BY <1>1, <2>1, ScopeStep, <1>0
<1>5. TypeOK'
  <2>1. accountWait' \in [Accounts -> Int] /\ accountWaitCounted' \in [Requests -> SUBSET Accounts]
    BY <1>0, <1>1, <1>9, <1>2 DEF TypeOK, AccountWaitAdmitted, shared
  <2>2. QED
    BY <1>0, <1>3, <2>1, CountersNat DEF TypeOK, AccountWaitAdmitted, shared, Goto, PCs, SlotStates
<1>6. QED
  BY <1>3, <1>4, <1>5 DEF IInv

LEMMA AcquireAccountSlotIInv ==
  ASSUME IInv, NEW r \in Requests, AcquireAccountSlot(r)
  PROVE  IInv'
<1>0. TypeOK /\ SlotAccounting /\ HeldOnlyInScope
  BY DEF IInv
<1>9. InScope(r)
  BY <1>0, ScopeAt
<1>1. OthersUnchanged(r) /\ \A q \in Requests \ {r} : pc'[q] = pc[q]
  BY <1>0 DEF TypeOK, AcquireAccountSlot, shared, Goto, OthersUnchanged
<1>2. account[r] \in Accounts /\ accountSlot[r] # "held"
  BY <1>0, <1>9, GatewayAssumption DEF TypeOK, InScope, AcquireAccountSlot, shared
<1>3. SlotAccounting'
  <2>0. UNCHANGED <<userWait, userActive, waitCounted, userSlot>>
    BY DEF AcquireAccountSlot, shared
  <2>1. \A u \in Users : userWait'[u] = userWait[u] + UserWaitDelta(r, u)
    BY <1>0, <2>0, UserCountersFrame
  <2>2. \A u \in Users : userActive'[u] = userActive[u] + UserActiveDelta(r, u)
    BY <1>0, <2>0, UserCountersFrame
  <2>3. \A a \in Accounts : accountWait'[a] = accountWait[a] + AccountWaitDelta(r, a)
    BY <1>0, <1>1, <1>9, <1>2 DEF TypeOK, AcquireAccountSlot, shared, AccountWaitDelta, AccountWaiters
  <2>4. \A a \in Accounts : accountActive'[a] = accountActive[a] + AccountActiveDelta(r, a)
    BY <1>0, <1>1, <1>9, <1>2 DEF TypeOK, AcquireAccountSlot, shared, AccountActiveDelta, AccountSlotHolders
  <2>5. QED
    BY <1>1, <2>1, <2>2, <2>3, <2>4, AccountingStep, <1>0
<1>4. HeldOnlyInScope'
  <2>1. InScope(r)'
    BY <1>0, <1>1, <1>9, <1>2 DEF TypeOK, InScope, AcquireAccountSlot, shared, Goto
  <2>2. QED
    BY <1>1, <2>1, ScopeStep, <1>0
<1>5. TypeOK'
  <2>1. accountActive' \in [Accounts -> Int]
    BY <1>0, <1>1, <1>9, <1>2 DEF TypeOK, AcquireAccountSlot, shared
  <2>2. QED
    BY <1>0, <1>3, <2>1, CountersNat DEF TypeOK, AcquireAccountSlot, shared, Goto, PCs, SlotStates
<1>6. QED
  BY <1>3, <1>4, <1>5 DEF IInv

LEMMA AccountAdmittedIInv ==
  ASSUME IInv, NEW r \in Requests, AccountAdmitted(r)
  PROVE  IInv'
<1>0. TypeOK /\ SlotAccounting /\ HeldOnlyInScope
  BY DEF IInv
<1>9. InScope(r)
  BY <1>0, ScopeAt
<1>1. OthersUnchanged(r) /\ \A q \in Requests \ {r} : pc'[q] = pc[q]
  BY <1>0 DEF TypeOK, AccountAdmitted, shared, Goto, OthersUnchanged
<1>2. account[r] \in Accounts /\ accountWaitCounted[r] \subseteq {account[r]}
  BY <1>0, <1>9, GatewayAssumption DEF TypeOK, InScope, AccountAdmitted, shared
<1>3. SlotAccounting'
  <2>0. UNCHANGED <<userWait, userActive, waitCounted, userSlot>>
    BY DEF AccountAdmitted, shared
  <2>1. \A u \in Users : userWait'[u] = userWait[u] + UserWaitDelta(r, u)
    BY <1>0, <2>0, UserCountersFrame
  <2>2. \A u \in Users : userActive'[u] = userActive[u] + UserActiveDelta(r, u)
    BY <1>0, <2>0, UserCountersFrame
  <2>3. \A a \in Accounts : accountWait'[a] = accountWait[a] + AccountWaitDelta(r, a)
    BY <1>0, <1>1, <1>9, <1>2 DEF TypeOK, AccountAdmitted, shared, AccountWaitDelta, AccountWaiters
  <2>4. \A a \in Accounts : accountActive'[a] = accountActive[a] + AccountActiveDelta(r, a)
    BY <1>0, <1>1, <1>9, <1>2 DEF TypeOK, AccountAdmitted, shared, AccountActiveDelta, AccountSlotHolders
  <2>5. QED
    BY <1>1, <2>1, <2>2, <2>3, <2>4, AccountingStep, <1>0
<1>4. HeldOnlyInScope'
  <2>1. InScope(r)'
    BY <1>0, <1>1, <1>9, <1>2 DEF TypeOK, InScope, AccountAdmitted, shared, Goto
  <2>2. QED
    BY <1>1, <2>1, ScopeStep, <1>0
<1>5. TypeOK'
  <2>1. accountWait' \in [Accounts -> Int] /\ sticky' \in [Sessions \ {NoSession} -> Accounts \cup {NoAccount}]
    <3>1. accountWait' \in [Accounts -> Int]
      BY <1>0, <1>2 DEF TypeOK, AccountAdmitted
    <3>2. BindStickySession(r, account[r])
      BY DEF AccountAdmitted
    <3>3. sessionHash[r] \in Sessions
      BY <1>0 DEF TypeOK
    <3>4. sticky' \in [Sessions \ {NoSession} -> Accounts \cup {NoAccount}]
      BY <1>0, <1>2, <3>2, <3>3 DEF TypeOK, BindStickySession
    <3>5. QED
      BY <3>1, <3>4
  <2>2. QED
    BY <1>0, <1>3, <2>1, CountersNat DEF TypeOK, AccountAdmitted, shared, Goto, PCs, SlotStates
<1>6. QED
  BY <1>3, <1>4, <1>5 DEF IInv
(* Forward and its outcomes (lines 286-333).                             *)

LEMMA ForwardFailsOverIInv ==
  ASSUME IInv, NEW r \in Requests, ForwardFailsOver(r)
  PROVE  IInv'
<1>0. TypeOK /\ SlotAccounting /\ HeldOnlyInScope
  BY DEF IInv
<1>9. InScope(r)
  BY <1>0, ScopeAt
<1>1. OthersUnchanged(r) /\ \A q \in Requests \ {r} : pc'[q] = pc[q]
  BY <1>0 DEF TypeOK, ForwardFailsOver, ReleaseAccount, Goto, OthersUnchanged
<1>8. PICK st \in FailoverStatuses :
        /\ attempts' = [attempts EXCEPT ![r] = Append(@, [acct |-> account[r], status |-> st])]
        /\ lastFailoverStatus' = [lastFailoverStatus EXCEPT ![r] = st]
  BY DEF ForwardFailsOver
<1>2. account[r] \in Accounts /\ accountWaitCounted[r] = {} /\ ~waitCounted[r]
  BY <1>0, <1>9 DEF ForwardFailsOver, InScope
<1>3. SlotAccounting'
  <2>1. \A u \in Users : userWait'[u] = userWait[u] + UserWaitDelta(r, u)
    BY <1>0, <1>2 DEF TypeOK, ForwardFailsOver, UserWaitDelta, UserWaiters, ReqsOf
  <2>2. \A u \in Users : userActive'[u] = userActive[u] + UserActiveDelta(r, u)
    BY <1>0 DEF TypeOK, ForwardFailsOver, UserActiveDelta, UserSlotHolders, ReqsOf
  <2>3. \A a \in Accounts : accountWait'[a] = accountWait[a] + AccountWaitDelta(r, a)
    BY <1>0, <1>2 DEF TypeOK, ForwardFailsOver, AccountWaitDelta, AccountWaiters
  <2>4. \A a \in Accounts : accountActive'[a] = accountActive[a] + AccountActiveDelta(r, a)
    BY <1>0, <1>2 DEF TypeOK, ForwardFailsOver, ReleaseAccount, AccountActiveDelta,
                     AccountSlotHolders
  <2>5. QED
    BY <1>1, <2>1, <2>2, <2>3, <2>4, AccountingStep, <1>0
<1>4. HeldOnlyInScope'
  <2>1. InScope(r)'
    BY <1>0, <1>2, <1>9 DEF TypeOK, InScope, ForwardFailsOver, ReleaseAccount, Goto
  <2>2. QED
    BY <1>1, <2>1, ScopeStep, <1>0
<1>5. TypeOK'
  <2>1. /\ accountActive' \in [Accounts -> Int] /\ accountSlot' \in [Requests -> SlotStates]
    BY <1>0, <1>2 DEF TypeOK, ForwardFailsOver, ReleaseAccount, SlotStates
  <2>2. /\ attempts' \in [Requests -> Seq(Attempt)]
        /\ lastFailoverStatus' \in [Requests -> Nat]
    <3>1. st \in Nat
      BY GatewayAssumption
    <3>2. Append(attempts[r], [acct |-> account[r], status |-> st]) \in Seq(Attempt)
      BY <1>0, <1>2, <3>1, AttemptsAppend DEF TypeOK
    <3>3. QED
      BY <1>0, <1>8, <3>1, <3>2 DEF TypeOK
  <2>3. /\ failedAccountIDs' \in [Requests -> SUBSET Accounts]
        /\ switchCount' \in [Requests -> Nat] /\ pc' \in [Requests -> PCs]
    BY <1>0, <1>2 DEF TypeOK, ForwardFailsOver, Goto, PCs
  <2>4. QED
    BY <1>0, <1>3, <2>1, <2>2, <2>3, CountersNat DEF TypeOK, ForwardFailsOver
<1>6. QED
  BY <1>3, <1>4, <1>5 DEF IInv

LEMMA ForwardSucceedsIInv ==
  ASSUME IInv, NEW r \in Requests, ForwardSucceeds(r)
  PROVE  IInv'
<1>0. TypeOK /\ SlotAccounting /\ HeldOnlyInScope
  BY DEF IInv
<1>1. pc[r] = "forward" /\ ReleaseAccount(r) /\ Return(r)
  BY DEF ForwardSucceeds
<1>2. /\ SlotAccounting' /\ OthersUnchanged(r)
      /\ \A q \in Requests \ {r} : /\ pc'[q] = pc[q] /\ account'[q] = account[q]
      /\ pc'[r] = "idle" /\ ~waitCounted'[r] /\ userSlot'[r] # "held"
      /\ accountSlot'[r] # "held" /\ accountWaitCounted'[r] = {}
      /\ userWait' \in [Users -> Int] /\ userActive' \in [Users -> Int]
      /\ accountWait' \in [Accounts -> Int] /\ accountActive' \in [Accounts -> Int]
      /\ accountSlot' \in [Requests -> SlotStates]
  BY <1>1, ReleaseAndReturn
<1>3. HeldOnlyInScope'
  <2>1. InScope(r)'
    BY <1>2 DEF InScope
  <2>2. QED
    BY <1>0, <1>2, <2>1, ScopeStep
<1>4. TypeOK'
  <2>1. account[r] \in Accounts
    BY <1>0, <1>1, ScopeAt DEF InScope
  <2>2. /\ outcome' \in [Requests -> Outcome] /\ attempts' \in [Requests -> Seq(Attempt)]
    <3>1. Append(attempts[r], [acct |-> account[r], status |-> 200]) \in Seq(Attempt)
      BY <1>0, <2>1, AttemptsAppend DEF TypeOK
    <3>2. QED
      BY <1>0, <3>1 DEF TypeOK, ForwardSucceeds, Outcome, Shapes
  <2>3. UNCHANGED <<sticky, reqStream, streamStarted>>
    BY DEF ForwardSucceeds
  <2>4. QED
    BY <1>0, <1>1, <1>2, <2>2, <2>3, CountersNat, ReturnTypes DEF TypeOK
<1>5. QED
  BY <1>2, <1>3, <1>4 DEF IInv

LEMMA ForwardFailoverExhaustedIInv ==
  ASSUME IInv, NEW r \in Requests, ForwardFailoverExhausted(r)
  PROVE  IInv'
<1>0. TypeOK /\ SlotAccounting /\ HeldOnlyInScope
  BY DEF IInv
<1>1. pc[r] = "forward" /\ ReleaseAccount(r) /\ Return(r)
  BY DEF ForwardFailoverExhausted
<1>2. /\ SlotAccounting' /\ OthersUnchanged(r)
      /\ \A q \in Requests \ {r} : /\ pc'[q] = pc[q] /\ account'[q] = account[q]
      /\ pc'[r] = "idle" /\ ~waitCounted'[r] /\ userSlot'[r] # "held"
      /\ accountSlot'[r] # "held" /\ accountWaitCounted'[r] = {}
      /\ userWait' \in [Users -> Int] /\ userActive' \in [Users -> Int]
      /\ accountWait' \in [Accounts -> Int] /\ accountActive' \in [Accounts -> Int]
      /\ accountSlot' \in [Requests -> SlotStates]
  BY <1>1, ReleaseAndReturn
<1>3. HeldOnlyInScope'
  <2>1. InScope(r)'
    BY <1>2 DEF InScope
  <2>2. QED
    BY <1>0, <1>2, <2>1, ScopeStep
<1>4. TypeOK'
  <2>1. account[r] \in Accounts
    BY <1>0, <1>1, ScopeAt DEF InScope
  <2>2. /\ outcome' \in [Requests -> Outcome] /\ attempts' \in [Requests -> Seq(Attempt)]
    <3>1. PICK st \in FailoverStatuses :
            /\ attempts' = [attempts EXCEPT ![r] = Append(@, [acct |-> account[r], status |-> st])]
            /\ RespondStreamingAware(r, "upstream_error", MapUpstreamError(st), st)
      BY DEF ForwardFailoverExhausted
    <3>2. st \in Nat /\ MapUpstreamError(st) \in Nat
      BY GatewayAssumption, MapUpstreamErrorNat
    <3>3. Append(attempts[r], [acct |-> account[r], status |-> st]) \in Seq(Attempt)
      BY <1>0, <2>1, <3>2, AttemptsAppend DEF TypeOK
    <3>4. QED
      BY <1>0, <3>1, <3>2, <3>3 DEF TypeOK, RespondStreamingAware, Outcome, Shapes,
                                     ErrorTypes
  <2>3. UNCHANGED <<sticky, reqStream, streamStarted>>
    BY DEF ForwardFailoverExhausted
  <2>4. QED
    BY <1>0, <1>1, <1>2, <2>2, <2>3, CountersNat, ReturnTypes DEF TypeOK
<1>5. QED
  BY <1>2, <1>3, <1>4 DEF IInv

LEMMA ForwardErrorsIInv ==
  ASSUME IInv, NEW r \in Requests, ForwardErrors(r)
  PROVE  IInv'
<1>0. TypeOK /\ SlotAccounting /\ HeldOnlyInScope
  BY DEF IInv
<1>1. pc[r] = "forward" /\ ReleaseAccount(r) /\ Return(r)
  BY DEF ForwardErrors
<1>2. /\ SlotAccounting' /\ OthersUnchanged(r)
      /\ \A q \in Requests \ {r} : /\ pc'[q] = pc[q] /\ account'[q] = account[q]
      /\ pc'[r] = "idle" /\ ~waitCounted'[r] /\ userSlot'[r] # "held"
      /\ accountSlot'[r] # "held" /\ accountWaitCounted'[r] = {}
      /\ userWait' \in [Users -> Int] /\ userActive' \in [Users -> Int]
      /\ accountWait' \in [Accounts -> Int] /\ accountActive' \in [Accounts -> Int]
      /\ accountSlot' \in [Requests -> SlotStates]
  BY <1>1, ReleaseAndReturn
<1>3. HeldOnlyInScope'
  <2>1. InScope(r)'
    BY <1>2 DEF InScope
  <2>2. QED
    BY <1>0, <1>2, <2>1, ScopeStep
<1>4. TypeOK'
  <2>1. account[r] \in Accounts
    BY <1>0, <1>1, ScopeAt DEF InScope
  <2>2. /\ outcome' \in [Requests -> Outcome] /\ attempts' \in [Requests -> Seq(Attempt)]
    <3>1. Append(attempts[r], [acct |-> account[r], status |-> 0]) \in Seq(Attempt)
      BY <1>0, <2>1, AttemptsAppend DEF TypeOK
    <3>2. QED
      BY <1>0, <3>1 DEF TypeOK, ForwardErrors, Outcome, Shapes, ErrorTypes
  <2>3. UNCHANGED <<sticky, reqStream, streamStarted>>
    BY DEF ForwardErrors
  <2>4. QED
    BY <1>0, <1>1, <1>2, <2>2, <2>3, CountersNat, ReturnTypes DEF TypeOK
<1>5. QED
  BY <1>2, <1>3, <1>4 DEF IInv
-----------------------------------------------------------------------------
(* The invariant is preserved by every step of Next and by stuttering.     *)
LEMMA StutterIInv ==
  ASSUME IInv, UNCHANGED vars
  PROVE  IInv'
<1>1. SlotStateUnchanged
  BY DEF vars, shared, local, SlotStateUnchanged
<1>2. SlotAccounting'
  BY <1>1, AccountingFrame DEF IInv
<1>3. HeldOnlyInScope'
  BY DEF IInv, vars, shared, local, HeldOnlyInScope
<1>4. TypeOK'
  BY DEF IInv, vars, shared, local, TypeOK
<1>5. QED
  BY <1>2, <1>3, <1>4 DEF IInv

LEMMA HandlerIInv ==
  ASSUME IInv, NEW r \in Requests, Handler(r)
  PROVE  IInv'
BY PreflightRejectsIInv, PreflightPassesIInv, UserWaitStoreErrorIInv,
   UserWaitAdmittedIInv, UserWaitRejectedIInv, AcquireUserSlotIInv,
   AcquireUserSlotFailsIInv, BillingPassesIInv, BillingFailsIInv,
   SelectAcquiredIInv, SelectWaitPlanIInv, SelectNoAccountIInv,
   SelectExhaustedIInv, AccountWaitStoreErrorIInv, AccountWaitAdmittedIInv,
   AccountWaitRejectedIInv, AcquireAccountSlotIInv, AcquireAccountSlotFailsIInv,
   AccountAdmittedIInv, ForwardSucceedsIInv, ForwardFailsOverIInv,
   ForwardFailoverExhaustedIInv, ForwardErrorsIInv
   DEF Handler

LEMMA NextIInv == IInv /\ [Next]_vars => IInv'
<1> SUFFICES ASSUME IInv, [Next]_vars PROVE IInv'
  OBVIOUS
<1>1. CASE \E r \in Requests :
             \/ Arrive(r) \/ Handler(r) \/ Heartbeat(r) \/ Cancel(r)
             \/ UserReleaseOnDone(r) \/ AccountReleaseOnDone(r)
  BY <1>1, ArriveIInv, HandlerIInv, HeartbeatIInv, CancelIInv,
     UserReleaseOnDoneIInv, AccountReleaseOnDoneIInv
<1>2. CASE \E s \in Sessions \ {NoSession} : StickyExpires(s)
  BY <1>2, StickyExpiresIInv
<1>3. CASE UNCHANGED vars
  BY <1>3, StutterIInv
<1>4. QED
  BY <1>1, <1>2, <1>3 DEF Next

-----------------------------------------------------------------------------
(* Type correctness: every variable keeps its type and no counter of the  *)
(* concurrency service goes below zero, whatever the interleaving of the  *)
(* handlers, the release-on-done watchers and cancellations.              *)
THEOREM TypeCorrect == Spec => []TypeOK
<1>1. Init => IInv
  BY InitIInv
<1>2. IInv /\ [Next]_vars => IInv'
  BY NextIInv
<1>3. IInv => TypeOK
  BY DEF IInv
<1>4. QED
  BY <1>1, <1>2, <1>3, PTL DEF Spec

(* Counter accounting (spec I2/P6): each counter of the concurrency       *)
(* service equals the number of requests holding what it counts, across   *)
(* the explicit and the deferred decrements and the watchers' releases.   *)
THEOREM SlotAccountingInvariant == Spec => []SlotAccounting
<1>1. IInv => SlotAccounting
  BY DEF IInv
<1>2. QED
  BY <1>1, InitIInv, NextIInv, PTL DEF Spec

(* Each slot and queue place is held only inside the code that owns it,   *)
(* so a request that has returned holds nothing.                          *)
THEOREM HeldOnlyInScopeInvariant == Spec => []HeldOnlyInScope
<1>1. IInv => HeldOnlyInScope
  BY DEF IInv
<1>2. QED
  BY <1>1, InitIInv, NextIInv, PTL DEF Spec
====
