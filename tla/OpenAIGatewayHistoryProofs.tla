--------------------- MODULE OpenAIGatewayHistoryProofs ---------------------
(***************************************************************************)
(* Proofs about what a request leaves behind: its history of upstream     *)
(* calls (FailoverBounded), the status an exhausted failover reports      *)
(* (ExhaustedReportsLastUpstream) and the shape of its error response     *)
(* (ErrorShapeFollowsStream).                                              *)
(*                                                                         *)
(* None of the three is inductive.  Each speaks only of the history and   *)
(* the outcome, which are final once the request has returned; what makes *)
(* them hold is what the failover loop keeps while it runs (lines         *)
(* 205-334): one call recorded per switch, the failed set equal to the    *)
(* accounts already called, lastFailoverStatus equal to the status of the *)
(* last call, an account taken only from the candidates, and no response  *)
(* written before the return.  HistoryAt(r) states all of it for one      *)
(* request, and HInv for all of them.                                      *)
(***************************************************************************)
EXTENDS OpenAIGatewayHandlerProofs

(* The accounts a history has called, and that it called none twice.     *)
AcctsOf(s) == {s[i].acct : i \in 1..Len(s)}
DistinctAccts(s) == \A i, j \in 1..Len(s) : i # j => s[i].acct # s[j].acct

(* The points of the loop at which account[r] is the selected account.    *)
AccountPCs == {"accWait", "acqAcc", "accAdmitted", "forward"}

HistoryAt(r) ==
  /\ Len(attempts[r]) <= MaxAccountSwitches + 1
  /\ DistinctAccts(attempts[r])
  /\ outcome[r].kind = "upstream_error" =>
       /\ attempts[r] # <<>>
       /\ outcome[r].upstream = attempts[r][Len(attempts[r])].status
       /\ outcome[r].status = MapUpstreamError(outcome[r].upstream)
  /\ outcome[r].kind = "no_account" => attempts[r] = <<>>
  /\ streamStarted[r] => reqStream[r]
  /\ outcome[r].shape = "json" => ~streamStarted[r]
  /\ outcome[r].shape = "sse" => streamStarted[r]
  /\ pc[r] # "idle" =>
       /\ outcome[r] = NoOutcome
       /\ Len(attempts[r]) = switchCount[r]
       /\ switchCount[r] <= MaxAccountSwitches
       /\ AcctsOf(attempts[r]) = failedAccountIDs[r]
       /\ attempts[r] # <<>> =>
            attempts[r][Len(attempts[r])].status = lastFailoverStatus[r]
  /\ pc[r] \in {"preflight", "incWait"} => ~streamStarted[r]
  /\ pc[r] \in AccountPCs => account[r] \notin failedAccountIDs[r]

HInv == \A r \in Requests : HistoryAt(r)

(* The per-request state HistoryAt(r) reads.                               *)
HVarsAt(r) ==
  <<pc[r], attempts[r], outcome[r], switchCount[r], failedAccountIDs[r],
    lastFailoverStatus[r], account[r], streamStarted[r], reqStream[r]>>

-----------------------------------------------------------------------------
(* Appending a call to a history: one more entry, the new one last, its   *)
(* account added to those called, and no account called twice if the new *)
(* one was not called before.                                              *)
LEMMA AppendCall ==
  ASSUME NEW s \in Seq(Attempt), NEW e \in Attempt
  PROVE  /\ Len(Append(s, e)) = Len(s) + 1
         /\ Append(s, e)[Len(s) + 1] = e
         /\ AcctsOf(Append(s, e)) = AcctsOf(s) \cup {e.acct}
         /\ DistinctAccts(s) /\ e.acct \notin AcctsOf(s) =>
              DistinctAccts(Append(s, e))
<1>1. /\ Len(Append(s, e)) = Len(s) + 1
      /\ Append(s, e)[Len(s) + 1] = e
      /\ \A i \in 1..Len(s) : Append(s, e)[i] = s[i]
  BY AppendProperties
<1>2. 1..Len(Append(s, e)) = (1..Len(s)) \cup {Len(s) + 1}
  BY <1>1, LenProperties
<1>3. AcctsOf(Append(s, e)) = AcctsOf(s) \cup {e.acct}
  BY <1>1, <1>2 DEF AcctsOf
<1>4. ASSUME DistinctAccts(s), e.acct \notin AcctsOf(s)
      PROVE  DistinctAccts(Append(s, e))
  BY <1>1, <1>2, <1>4 DEF DistinctAccts, AcctsOf
<1>5. QED
  BY <1>1, <1>3, <1>4

(* The empty history has called nobody.                                    *)
LEMMA EmptyHistory ==
  /\ Len(<<>>) = 0
  /\ AcctsOf(<<>>) = {}
  /\ DistinctAccts(<<>>)
BY DEF AcctsOf, DistinctAccts

(* A history that has called somebody is not empty.                        *)
LEMMA CalledNonEmpty ==
  ASSUME NEW s \in Seq(Attempt), AcctsOf(s) # {}
  PROVE  s # <<>>
BY EmptyHistory

(* A history that has called nobody is empty.                            *)
LEMMA UncalledEmpty ==
  ASSUME NEW s \in Seq(Attempt), AcctsOf(s) = {}
  PROVE  s = <<>>
<1>1. Len(s) \in Nat /\ (s # <<>> => Len(s) \in Nat \ {0})
  BY EmptySeq, LenProperties
<1>2. s # <<>> => s[1].acct \in AcctsOf(s)
  BY <1>1 DEF AcctsOf
<1>3. QED
  BY <1>2

(* HistoryAt(q) reads only HVarsAt(q).                                     *)
LEMMA HistoryFrame ==
  ASSUME NEW q, HistoryAt(q), HVarsAt(q)' = HVarsAt(q)
  PROVE  HistoryAt(q)'
<1>1. /\ pc'[q] = pc[q] /\ attempts'[q] = attempts[q]
      /\ outcome'[q] = outcome[q] /\ switchCount'[q] = switchCount[q]
      /\ failedAccountIDs'[q] = failedAccountIDs[q]
      /\ lastFailoverStatus'[q] = lastFailoverStatus[q]
      /\ account'[q] = account[q] /\ streamStarted'[q] = streamStarted[q]
      /\ reqStream'[q] = reqStream[q]
  BY DEF HVarsAt
<1>2. QED
  BY <1>1 DEF HistoryAt

(* A step of r that leaves the others' HVarsAt alone keeps HInv once it    *)
(* keeps HistoryAt(r).                                                     *)
LEMMA HistoryStep ==
  ASSUME HInv, NEW r \in Requests,
         \A q \in Requests \ {r} : HVarsAt(q)' = HVarsAt(q),
         HistoryAt(r)'
  PROVE  HInv'
BY HistoryFrame DEF HInv

LEMMA InitHInv == Init => HInv
<1> SUFFICES ASSUME Init, NEW r \in Requests PROVE HistoryAt(r)
  BY DEF HInv
<1>1. attempts[r] = <<>> /\ pc[r] = "idle" /\ outcome[r] = NoOutcome
      /\ ~streamStarted[r]
  BY DEF Init
<1>2. Len(attempts[r]) <= MaxAccountSwitches + 1 /\ DistinctAccts(attempts[r])
  BY <1>1, EmptyHistory, GatewayAssumption
<1>3. outcome[r].kind = "none" /\ outcome[r].shape = "none"
  BY <1>1 DEF NoOutcome
<1>4. QED
  BY <1>1, <1>2, <1>3 DEF HistoryAt, AccountPCs

-----------------------------------------------------------------------------
(* The shapes of the steps of request r.                                   *)

(* A step inside the loop that records nothing and answers nothing.       *)
LEMMA LoopStep ==
  ASSUME NEW r \in Requests, HistoryAt(r), pc[r] # "idle", pc'[r] # "idle",
         attempts'[r] = attempts[r], outcome'[r] = outcome[r],
         switchCount'[r] = switchCount[r],
         failedAccountIDs'[r] = failedAccountIDs[r],
         lastFailoverStatus'[r] = lastFailoverStatus[r],
         streamStarted'[r] = streamStarted[r], reqStream'[r] = reqStream[r],
         pc'[r] \in {"preflight", "incWait"} => pc[r] \in {"preflight", "incWait"},
         pc'[r] \in AccountPCs => account'[r] \notin failedAccountIDs[r]
  PROVE  HistoryAt(r)'
BY DEF HistoryAt

(* A return before Forward: the history stays, the response is written.  *)
LEMMA EarlyReturn ==
  ASSUME TypeOK, NEW r \in Requests, HistoryAt(r), pc[r] # "idle",
         pc'[r] = "idle", attempts'[r] = attempts[r],
         streamStarted'[r] = streamStarted[r], reqStream'[r] = reqStream[r],
         outcome'[r].shape = "json" => ~streamStarted[r],
         outcome'[r].shape = "sse" => streamStarted[r],
         outcome'[r].kind = "upstream_error" =>
           /\ failedAccountIDs[r] # {}
           /\ outcome'[r].upstream = lastFailoverStatus[r]
           /\ outcome'[r].status = MapUpstreamError(outcome'[r].upstream),
         outcome'[r].kind = "no_account" => failedAccountIDs[r] = {}
  PROVE  HistoryAt(r)'
<1>1. /\ Len(attempts[r]) = switchCount[r]
      /\ switchCount[r] <= MaxAccountSwitches
      /\ AcctsOf(attempts[r]) = failedAccountIDs[r]
      /\ attempts[r] # <<>> =>
           attempts[r][Len(attempts[r])].status = lastFailoverStatus[r]
      /\ DistinctAccts(attempts[r])
  BY DEF HistoryAt
<1>2. Len(attempts'[r]) <= MaxAccountSwitches + 1
  BY <1>1, GatewayAssumption
<1>3. outcome'[r].kind = "upstream_error" =>
        /\ attempts'[r] # <<>>
        /\ outcome'[r].upstream = attempts'[r][Len(attempts'[r])].status
        /\ outcome'[r].status = MapUpstreamError(outcome'[r].upstream)
  <2>1. attempts[r] \in Seq(Attempt)
    BY DEF TypeOK
  <2>2. failedAccountIDs[r] # {} => attempts[r] # <<>>
    BY <1>1, <2>1, CalledNonEmpty
  <2>3. QED
    BY <1>1, <2>2
<1>5. outcome'[r].kind = "no_account" => attempts'[r] = <<>>
  <2>1. attempts[r] \in Seq(Attempt)
    BY DEF TypeOK
  <2>2. failedAccountIDs[r] = {} => attempts[r] = <<>>
    BY <1>1, <2>1, UncalledEmpty
  <2>3. QED
    BY <2>2
<1>4. QED
  BY <1>1, <1>2, <1>3, <1>5 DEF HistoryAt, AccountPCs

(* A return after Forward: the call is recorded, the response written.    *)
LEMMA ForwardReturn ==
  ASSUME TypeOK, NEW r \in Requests, HistoryAt(r), pc[r] = "forward",
         account[r] \in Accounts, pc'[r] = "idle", NEW st \in Nat,
         attempts'[r] = Append(attempts[r], [acct |-> account[r], status |-> st]),
         streamStarted'[r] = streamStarted[r], reqStream'[r] = reqStream[r],
         outcome'[r].shape = "json" => ~streamStarted[r],
         outcome'[r].shape = "sse" => streamStarted[r],
         outcome'[r].kind = "upstream_error" =>
           /\ outcome'[r].upstream = st
           /\ outcome'[r].status = MapUpstreamError(outcome'[r].upstream),
         outcome'[r].kind # "no_account"
  PROVE  HistoryAt(r)'
<1> DEFINE e == [acct |-> account[r], status |-> st]
<1>1. /\ Len(attempts[r]) = switchCount[r]
      /\ switchCount[r] <= MaxAccountSwitches
      /\ AcctsOf(attempts[r]) = failedAccountIDs[r]
      /\ DistinctAccts(attempts[r])
      /\ account[r] \notin failedAccountIDs[r]
  BY DEF HistoryAt, AccountPCs
<1>2. attempts[r] \in Seq(Attempt) /\ e \in Attempt
  BY DEF TypeOK, Attempt
<1>3. /\ Len(attempts'[r]) = Len(attempts[r]) + 1
      /\ attempts'[r][Len(attempts[r]) + 1] = e
      /\ DistinctAccts(attempts'[r])
  BY <1>1, <1>2, AppendCall
<1>4. Len(attempts'[r]) <= MaxAccountSwitches + 1
  BY <1>1, <1>3, GatewayAssumption
<1>5. attempts'[r] # <<>>
  BY <1>2, <1>3, AppendProperties
<1>6. QED
  BY <1>3, <1>4, <1>5 DEF HistoryAt, AccountPCs

(* Lines 292-305: an UpstreamFailoverError with switches left.            *)
LEMMA FailoverStep ==
  ASSUME TypeOK, NEW r \in Requests, HistoryAt(r), pc[r] = "forward",
         account[r] \in Accounts, pc'[r] = "select", NEW st \in Nat,
         switchCount[r] < MaxAccountSwitches,
         attempts'[r] = Append(attempts[r], [acct |-> account[r], status |-> st]),
         lastFailoverStatus'[r] = st,
         failedAccountIDs'[r] = failedAccountIDs[r] \cup {account[r]},
         switchCount'[r] = switchCount[r] + 1,
         outcome'[r] = outcome[r],
         streamStarted'[r] = streamStarted[r], reqStream'[r] = reqStream[r]
  PROVE  HistoryAt(r)'
<1> DEFINE e == [acct |-> account[r], status |-> st]
<1>1. /\ Len(attempts[r]) = switchCount[r]
      /\ AcctsOf(attempts[r]) = failedAccountIDs[r]
      /\ DistinctAccts(attempts[r])
      /\ account[r] \notin failedAccountIDs[r]
      /\ outcome[r] = NoOutcome
      /\ switchCount[r] \in Nat
  BY DEF HistoryAt, AccountPCs, TypeOK
<1>2. attempts[r] \in Seq(Attempt) /\ e \in Attempt
  BY DEF TypeOK, Attempt
<1>3. /\ Len(attempts'[r]) = Len(attempts[r]) + 1
      /\ attempts'[r][Len(attempts[r]) + 1] = e
      /\ AcctsOf(attempts'[r]) = AcctsOf(attempts[r]) \cup {account[r]}
      /\ DistinctAccts(attempts'[r])
  BY <1>1, <1>2, AppendCall
<1>4. /\ Len(attempts'[r]) = switchCount'[r]
      /\ switchCount'[r] <= MaxAccountSwitches
      /\ Len(attempts'[r]) <= MaxAccountSwitches + 1
  BY <1>1, <1>3, GatewayAssumption
<1>5. attempts'[r][Len(attempts'[r])].status = lastFailoverStatus'[r]
  BY <1>3
<1>6. outcome'[r].kind = "none" /\ outcome'[r].shape = "none"
  BY <1>1 DEF NoOutcome
<1>7. QED
  BY <1>1, <1>3, <1>4, <1>5, <1>6 DEF HistoryAt, AccountPCs

-----------------------------------------------------------------------------
(* The steps inside the loop.                                              *)

LEMMA PreflightPassesHInv ==
  ASSUME IInv, HInv, NEW r \in Requests, PreflightPasses(r)
  PROVE  HInv'
<1>0. TypeOK /\ HistoryAt(r)
  BY DEF IInv, HInv
<1>1. \A q \in Requests \ {r} : HVarsAt(q)' = HVarsAt(q)
  BY <1>0 DEF TypeOK, PreflightPasses, Goto, HVarsAt
<1>3. HistoryAt(r)'
  BY <1>0, LoopStep DEF TypeOK, PreflightPasses, Goto, AccountPCs
<1>4. QED
  BY <1>1, <1>3, HistoryStep

LEMMA UserWaitStoreErrorHInv ==
  ASSUME IInv, HInv, NEW r \in Requests, UserWaitStoreError(r)
  PROVE  HInv'
<1>0. TypeOK /\ HistoryAt(r)
  BY DEF IInv, HInv
<1>1. \A q \in Requests \ {r} : HVarsAt(q)' = HVarsAt(q)
  BY <1>0 DEF TypeOK, UserWaitStoreError, Goto, HVarsAt
<1>3. HistoryAt(r)'
  BY <1>0, LoopStep DEF TypeOK, UserWaitStoreError, Goto, AccountPCs
<1>4. QED
  BY <1>1, <1>3, HistoryStep

LEMMA UserWaitAdmittedHInv ==
  ASSUME IInv, HInv, NEW r \in Requests, UserWaitAdmitted(r)
  PROVE  HInv'
<1>0. TypeOK /\ HistoryAt(r)
  BY DEF IInv, HInv
<1>1. \A q \in Requests \ {r} : HVarsAt(q)' = HVarsAt(q)
  BY <1>0 DEF TypeOK, UserWaitAdmitted, Goto, HVarsAt
<1>3. HistoryAt(r)'
  BY <1>0, LoopStep DEF TypeOK, UserWaitAdmitted, Goto, AccountPCs
<1>4. QED
  BY <1>1, <1>3, HistoryStep

LEMMA AcquireUserSlotHInv ==
  ASSUME IInv, HInv, NEW r \in Requests, AcquireUserSlot(r)
  PROVE  HInv'
<1>0. TypeOK /\ HistoryAt(r)
  BY DEF IInv, HInv
<1>1. \A q \in Requests \ {r} : HVarsAt(q)' = HVarsAt(q)
  BY <1>0 DEF TypeOK, AcquireUserSlot, Goto, HVarsAt
<1>3. HistoryAt(r)'
  BY <1>0, LoopStep DEF TypeOK, AcquireUserSlot, Goto, AccountPCs
<1>4. QED
  BY <1>1, <1>3, HistoryStep

LEMMA BillingPassesHInv ==
  ASSUME IInv, HInv, NEW r \in Requests, BillingPasses(r)
  PROVE  HInv'
<1>0. TypeOK /\ HistoryAt(r)
  BY DEF IInv, HInv
<1>1. \A q \in Requests \ {r} : HVarsAt(q)' = HVarsAt(q)
  BY <1>0 DEF TypeOK, BillingPasses, Goto, HVarsAt
<1>3. HistoryAt(r)'
  BY <1>0, LoopStep DEF TypeOK, BillingPasses, Goto, AccountPCs
<1>4. QED
  BY <1>1, <1>3, HistoryStep

LEMMA AccountWaitStoreErrorHInv ==
  ASSUME IInv, HInv, NEW r \in Requests, AccountWaitStoreError(r)
  PROVE  HInv'
<1>0. TypeOK /\ HistoryAt(r)
  BY DEF IInv, HInv
<1>1. \A q \in Requests \ {r} : HVarsAt(q)' = HVarsAt(q)
  BY <1>0 DEF TypeOK, AccountWaitStoreError, Goto, HVarsAt
<1>2. account[r] \notin failedAccountIDs[r]
  BY <1>0 DEF HistoryAt, AccountPCs, AccountWaitStoreError
<1>3. HistoryAt(r)'
  BY <1>0, <1>2, LoopStep DEF TypeOK, AccountWaitStoreError, Goto, AccountPCs
<1>4. QED
  BY <1>1, <1>3, HistoryStep

LEMMA AccountWaitAdmittedHInv ==
  ASSUME IInv, HInv, NEW r \in Requests, AccountWaitAdmitted(r)
  PROVE  HInv'
<1>0. TypeOK /\ HistoryAt(r)
  BY DEF IInv, HInv
<1>1. \A q \in Requests \ {r} : HVarsAt(q)' = HVarsAt(q)
  BY <1>0 DEF TypeOK, AccountWaitAdmitted, Goto, HVarsAt
<1>2. account[r] \notin failedAccountIDs[r]
  BY <1>0 DEF HistoryAt, AccountPCs, AccountWaitAdmitted
<1>3. HistoryAt(r)'
  BY <1>0, <1>2, LoopStep DEF TypeOK, AccountWaitAdmitted, Goto, AccountPCs
<1>4. QED
  BY <1>1, <1>3, HistoryStep

LEMMA AcquireAccountSlotHInv ==
  ASSUME IInv, HInv, NEW r \in Requests, AcquireAccountSlot(r)
  PROVE  HInv'
<1>0. TypeOK /\ HistoryAt(r)
  BY DEF IInv, HInv
<1>1. \A q \in Requests \ {r} : HVarsAt(q)' = HVarsAt(q)
  BY <1>0 DEF TypeOK, AcquireAccountSlot, Goto, HVarsAt
<1>2. account[r] \notin failedAccountIDs[r]
  BY <1>0 DEF HistoryAt, AccountPCs, AcquireAccountSlot
<1>3. HistoryAt(r)'
  BY <1>0, <1>2, LoopStep DEF TypeOK, AcquireAccountSlot, Goto, AccountPCs
<1>4. QED
  BY <1>1, <1>3, HistoryStep

LEMMA AccountAdmittedHInv ==
  ASSUME IInv, HInv, NEW r \in Requests, AccountAdmitted(r)
  PROVE  HInv'
<1>0. TypeOK /\ HistoryAt(r)
  BY DEF IInv, HInv
<1>1. \A q \in Requests \ {r} : HVarsAt(q)' = HVarsAt(q)
  BY <1>0 DEF TypeOK, AccountAdmitted, Goto, HVarsAt
<1>2. account[r] \notin failedAccountIDs[r]
  BY <1>0 DEF HistoryAt, AccountPCs, AccountAdmitted
<1>3. HistoryAt(r)'
  BY <1>0, <1>2, LoopStep DEF TypeOK, AccountAdmitted, Goto, AccountPCs
<1>4. QED
  BY <1>1, <1>3, HistoryStep

LEMMA SelectAcquiredHInv ==
  ASSUME IInv, HInv, NEW r \in Requests, SelectAcquired(r)
  PROVE  HInv'
<1>0. TypeOK /\ HistoryAt(r)
  BY DEF IInv, HInv
<1>1. \A q \in Requests \ {r} : HVarsAt(q)' = HVarsAt(q)
  BY <1>0 DEF TypeOK, SelectAcquired, Goto, HVarsAt
<1>2. account'[r] \notin failedAccountIDs[r]
  <2>1. PICK acc \in Candidates(r) : account' = [account EXCEPT ![r] = acc]
    BY Zenon DEF SelectAcquired
  <2>2. QED
    BY <1>0, <2>1 DEF TypeOK, Candidates
<1>3. HistoryAt(r)'
  BY <1>0, <1>2, LoopStep DEF TypeOK, SelectAcquired, Goto, AccountPCs
<1>4. QED
  BY <1>1, <1>3, HistoryStep

LEMMA SelectWaitPlanHInv ==
  ASSUME IInv, HInv, NEW r \in Requests, SelectWaitPlan(r)
  PROVE  HInv'
<1>0. TypeOK /\ HistoryAt(r)
  BY DEF IInv, HInv
<1>1. \A q \in Requests \ {r} : HVarsAt(q)' = HVarsAt(q)
  BY <1>0 DEF TypeOK, SelectWaitPlan, Goto, HVarsAt
<1>2. account'[r] \notin failedAccountIDs[r]
  <2>1. PICK acc \in Candidates(r) : account' = [account EXCEPT ![r] = acc]
    BY Zenon DEF SelectWaitPlan
  <2>2. QED
    BY <1>0, <2>1 DEF TypeOK, Candidates
<1>3. HistoryAt(r)'
  BY <1>0, <1>2, LoopStep DEF TypeOK, SelectWaitPlan, Goto, AccountPCs
<1>4. QED
  BY <1>1, <1>3, HistoryStep

-----------------------------------------------------------------------------
(* The returns before Forward: the defers run and a response is written. *)

LEMMA PreflightRejectsHInv ==
  ASSUME IInv, HInv, NEW r \in Requests, PreflightRejects(r)
  PROVE  HInv'
<1>0. TypeOK /\ HistoryAt(r)
  BY DEF IInv, HInv
<1>1. \A q \in Requests \ {r} : HVarsAt(q)' = HVarsAt(q)
  BY <1>0 DEF TypeOK, PreflightRejects, Goto, Return, DropLocals, RespondStreamingAware, RespondJSON, HVarsAt
<1>2. /\ outcome'[r].shape = "json"
      /\ outcome'[r].kind \notin {"upstream_error", "no_account"}
  BY <1>0 DEF TypeOK, PreflightRejects, RespondStreamingAware, RespondJSON
<1>5. ~streamStarted[r]
  BY <1>0 DEF HistoryAt, PreflightRejects
<1>3. pc[r] # "idle" /\ pc'[r] = "idle" /\ attempts'[r] = attempts[r]
      /\ streamStarted'[r] = streamStarted[r] /\ reqStream'[r] = reqStream[r]
  BY <1>0 DEF TypeOK, PreflightRejects, Goto, Return, DropLocals
<1>4. HistoryAt(r)'
  BY <1>0, <1>2, <1>3, <1>5, EarlyReturn
<1>6. QED
  BY <1>1, <1>4, HistoryStep

LEMMA UserWaitRejectedHInv ==
  ASSUME IInv, HInv, NEW r \in Requests, UserWaitRejected(r)
  PROVE  HInv'
<1>0. TypeOK /\ HistoryAt(r)
  BY DEF IInv, HInv
<1>1. \A q \in Requests \ {r} : HVarsAt(q)' = HVarsAt(q)
  BY <1>0 DEF TypeOK, UserWaitRejected, Goto, Return, DropLocals, RespondStreamingAware, RespondJSON, HVarsAt
<1>2. /\ outcome'[r].shape = "json"
      /\ outcome'[r].kind \notin {"upstream_error", "no_account"}
  BY <1>0 DEF TypeOK, UserWaitRejected, RespondStreamingAware, RespondJSON
<1>5. ~streamStarted[r]
  BY <1>0 DEF HistoryAt, UserWaitRejected
<1>3. pc[r] # "idle" /\ pc'[r] = "idle" /\ attempts'[r] = attempts[r]
      /\ streamStarted'[r] = streamStarted[r] /\ reqStream'[r] = reqStream[r]
  BY <1>0 DEF TypeOK, UserWaitRejected, Goto, Return, DropLocals
<1>4. HistoryAt(r)'
  BY <1>0, <1>2, <1>3, <1>5, EarlyReturn
<1>6. QED
  BY <1>1, <1>4, HistoryStep

LEMMA AcquireUserSlotFailsHInv ==
  ASSUME IInv, HInv, NEW r \in Requests, AcquireUserSlotFails(r)
  PROVE  HInv'
<1>0. TypeOK /\ HistoryAt(r)
  BY DEF IInv, HInv
<1>1. \A q \in Requests \ {r} : HVarsAt(q)' = HVarsAt(q)
  BY <1>0 DEF TypeOK, AcquireUserSlotFails, Goto, Return, DropLocals, RespondStreamingAware, RespondJSON, HVarsAt
<1>2. outcome'[r] = [kind |-> "concurrency_limit", status |-> outcome'[r].status, upstream |-> 0,
                    shape |-> IF streamStarted[r] THEN "sse" ELSE "json"]
  BY <1>0 DEF TypeOK, AcquireUserSlotFails, RespondStreamingAware, RespondJSON
<1>3. pc[r] # "idle" /\ pc'[r] = "idle" /\ attempts'[r] = attempts[r]
      /\ streamStarted'[r] = streamStarted[r] /\ reqStream'[r] = reqStream[r]
  BY <1>0 DEF TypeOK, AcquireUserSlotFails, Goto, Return, DropLocals
<1>4. HistoryAt(r)'
  BY <1>0, <1>2, <1>3, EarlyReturn
<1>6. QED
  BY <1>1, <1>4, HistoryStep

LEMMA BillingFailsHInv ==
  ASSUME IInv, HInv, NEW r \in Requests, BillingFails(r)
  PROVE  HInv'
<1>0. TypeOK /\ HistoryAt(r)
  BY DEF IInv, HInv
<1>1. \A q \in Requests \ {r} : HVarsAt(q)' = HVarsAt(q)
  BY <1>0 DEF TypeOK, BillingFails, Goto, Return, DropLocals, RespondStreamingAware, RespondJSON, HVarsAt
<1>2. outcome'[r] = [kind |-> "billing_error", status |-> outcome'[r].status, upstream |-> 0,
                    shape |-> IF streamStarted[r] THEN "sse" ELSE "json"]
  BY <1>0 DEF TypeOK, BillingFails, RespondStreamingAware, RespondJSON
<1>3. pc[r] # "idle" /\ pc'[r] = "idle" /\ attempts'[r] = attempts[r]
      /\ streamStarted'[r] = streamStarted[r] /\ reqStream'[r] = reqStream[r]
  BY <1>0 DEF TypeOK, BillingFails, Goto, Return, DropLocals
<1>4. HistoryAt(r)'
  BY <1>0, <1>2, <1>3, EarlyReturn
<1>6. QED
  BY <1>1, <1>4, HistoryStep

LEMMA SelectNoAccountHInv ==
  ASSUME IInv, HInv, NEW r \in Requests, SelectNoAccount(r)
  PROVE  HInv'
<1>0. TypeOK /\ HistoryAt(r)
  BY DEF IInv, HInv
<1>1. \A q \in Requests \ {r} : HVarsAt(q)' = HVarsAt(q)
  BY <1>0 DEF TypeOK, SelectNoAccount, Goto, Return, DropLocals, RespondStreamingAware, RespondJSON, HVarsAt
<1>2. /\ outcome'[r] = [kind |-> "no_account", status |-> outcome'[r].status, upstream |-> 0,
                       shape |-> IF streamStarted[r] THEN "sse" ELSE "json"]
      /\ failedAccountIDs[r] = {}
  BY <1>0 DEF TypeOK, SelectNoAccount, RespondStreamingAware, RespondJSON
<1>3. pc[r] # "idle" /\ pc'[r] = "idle" /\ attempts'[r] = attempts[r]
      /\ streamStarted'[r] = streamStarted[r] /\ reqStream'[r] = reqStream[r]
  BY <1>0 DEF TypeOK, SelectNoAccount, Goto, Return, DropLocals
<1>4. HistoryAt(r)'
  BY <1>0, <1>2, <1>3, EarlyReturn
<1>6. QED
  BY <1>1, <1>4, HistoryStep

LEMMA AccountWaitRejectedHInv ==
  ASSUME IInv, HInv, NEW r \in Requests, AccountWaitRejected(r)
  PROVE  HInv'
<1>0. TypeOK /\ HistoryAt(r)
  BY DEF IInv, HInv
<1>1. \A q \in Requests \ {r} : HVarsAt(q)' = HVarsAt(q)
  BY <1>0 DEF TypeOK, AccountWaitRejected, Goto, Return, DropLocals, RespondStreamingAware, RespondJSON, HVarsAt
<1>2. outcome'[r] = [kind |-> "concurrency_limit", status |-> outcome'[r].status, upstream |-> 0,
                    shape |-> IF streamStarted[r] THEN "sse" ELSE "json"]
  BY <1>0 DEF TypeOK, AccountWaitRejected, RespondStreamingAware, RespondJSON
<1>3. pc[r] # "idle" /\ pc'[r] = "idle" /\ attempts'[r] = attempts[r]
      /\ streamStarted'[r] = streamStarted[r] /\ reqStream'[r] = reqStream[r]
  BY <1>0 DEF TypeOK, AccountWaitRejected, Goto, Return, DropLocals
<1>4. HistoryAt(r)'
  BY <1>0, <1>2, <1>3, EarlyReturn
<1>6. QED
  BY <1>1, <1>4, HistoryStep

LEMMA AcquireAccountSlotFailsHInv ==
  ASSUME IInv, HInv, NEW r \in Requests, AcquireAccountSlotFails(r)
  PROVE  HInv'
<1>0. TypeOK /\ HistoryAt(r)
  BY DEF IInv, HInv
<1>1. \A q \in Requests \ {r} : HVarsAt(q)' = HVarsAt(q)
  BY <1>0 DEF TypeOK, AcquireAccountSlotFails, Goto, Return, DropLocals, RespondStreamingAware, RespondJSON, HVarsAt
<1>2. outcome'[r] = [kind |-> "concurrency_limit", status |-> outcome'[r].status, upstream |-> 0,
                    shape |-> IF streamStarted[r] THEN "sse" ELSE "json"]
  BY <1>0 DEF TypeOK, AcquireAccountSlotFails, RespondStreamingAware, RespondJSON
<1>3. pc[r] # "idle" /\ pc'[r] = "idle" /\ attempts'[r] = attempts[r]
      /\ streamStarted'[r] = streamStarted[r] /\ reqStream'[r] = reqStream[r]
  BY <1>0 DEF TypeOK, AcquireAccountSlotFails, Goto, Return, DropLocals
<1>4. HistoryAt(r)'
  BY <1>0, <1>2, <1>3, EarlyReturn
<1>6. QED
  BY <1>1, <1>4, HistoryStep

LEMMA SelectExhaustedHInv ==
  ASSUME IInv, HInv, NEW r \in Requests, SelectExhausted(r)
  PROVE  HInv'
<1>0. TypeOK /\ HistoryAt(r)
  BY DEF IInv, HInv
<1>1. \A q \in Requests \ {r} : HVarsAt(q)' = HVarsAt(q)
  BY <1>0 DEF TypeOK, SelectExhausted, Goto, Return, DropLocals, RespondStreamingAware, RespondJSON, HVarsAt
<1>2. /\ outcome'[r] = [kind |-> "upstream_error",
                       status |-> MapUpstreamError(lastFailoverStatus[r]),
                       upstream |-> lastFailoverStatus[r],
                       shape |-> IF streamStarted[r] THEN "sse" ELSE "json"]
      /\ failedAccountIDs[r] # {}
  BY <1>0 DEF TypeOK, SelectExhausted, RespondStreamingAware, RespondJSON
<1>3. pc[r] # "idle" /\ pc'[r] = "idle" /\ attempts'[r] = attempts[r]
      /\ streamStarted'[r] = streamStarted[r] /\ reqStream'[r] = reqStream[r]
  BY <1>0 DEF TypeOK, SelectExhausted, Goto, Return, DropLocals
<1>5. /\ outcome'[r].shape = "json" => ~streamStarted[r]
      /\ outcome'[r].shape = "sse" => streamStarted[r]
      /\ outcome'[r].kind = "upstream_error" =>
           /\ failedAccountIDs[r] # {}
           /\ outcome'[r].upstream = lastFailoverStatus[r]
           /\ outcome'[r].status = MapUpstreamError(outcome'[r].upstream)
      /\ outcome'[r].kind # "no_account"
  BY <1>2
<1>4. HistoryAt(r)'
  BY <1>0, <1>3, <1>5, EarlyReturn
<1>6. QED
  BY <1>1, <1>4, HistoryStep

-----------------------------------------------------------------------------
(* Forward and what follows it (lines 286-334).                           *)

(* At forward the selected account is an account.                         *)
LEMMA ForwardAccount ==
  ASSUME IInv, NEW r \in Requests, pc[r] = "forward"
  PROVE  account[r] \in Accounts
<1>1. InScope(r)
  BY ScopeAt DEF IInv
<1>2. QED
  BY <1>1 DEF InScope

LEMMA ForwardSucceedsHInv ==
  ASSUME IInv, HInv, NEW r \in Requests, ForwardSucceeds(r)
  PROVE  HInv'
<1>0. TypeOK /\ HistoryAt(r) /\ pc[r] = "forward"
  BY DEF IInv, HInv, ForwardSucceeds
<1>1. \A q \in Requests \ {r} : HVarsAt(q)' = HVarsAt(q)
  BY <1>0 DEF TypeOK, ForwardSucceeds, Goto, Return, DropLocals, ReleaseAccount, RespondStreamingAware, HVarsAt
<1>2. account[r] \in Accounts
  BY <1>0, ForwardAccount
<1>4. /\ attempts'[r] = Append(attempts[r], [acct |-> account[r], status |-> 200])
      /\ outcome'[r].shape = "forwarder" /\ outcome'[r].kind = "success"
  BY <1>0 DEF TypeOK, ForwardSucceeds, RespondStreamingAware
<1>5. pc'[r] = "idle" /\ streamStarted'[r] = streamStarted[r] /\ reqStream'[r] = reqStream[r]
  BY <1>0 DEF TypeOK, ForwardSucceeds, Goto, Return
<1>6. HistoryAt(r)'
  BY <1>0, <1>2, <1>4, <1>5, ForwardReturn
<1>7. QED
  BY <1>1, <1>6, HistoryStep

LEMMA ForwardErrorsHInv ==
  ASSUME IInv, HInv, NEW r \in Requests, ForwardErrors(r)
  PROVE  HInv'
<1>0. TypeOK /\ HistoryAt(r) /\ pc[r] = "forward"
  BY DEF IInv, HInv, ForwardErrors
<1>1. \A q \in Requests \ {r} : HVarsAt(q)' = HVarsAt(q)
  BY <1>0 DEF TypeOK, ForwardErrors, Goto, Return, DropLocals, ReleaseAccount, RespondStreamingAware, HVarsAt
<1>2. account[r] \in Accounts
  BY <1>0, ForwardAccount
<1>4. /\ attempts'[r] = Append(attempts[r], [acct |-> account[r], status |-> 0])
      /\ outcome'[r].shape = "forwarder" /\ outcome'[r].kind = "forward_error"
  BY <1>0 DEF TypeOK, ForwardErrors, RespondStreamingAware
<1>5. pc'[r] = "idle" /\ streamStarted'[r] = streamStarted[r] /\ reqStream'[r] = reqStream[r]
  BY <1>0 DEF TypeOK, ForwardErrors, Goto, Return
<1>6. HistoryAt(r)'
  BY <1>0, <1>2, <1>4, <1>5, ForwardReturn
<1>7. QED
  BY <1>1, <1>6, HistoryStep

LEMMA ForwardFailoverExhaustedHInv ==
  ASSUME IInv, HInv, NEW r \in Requests, ForwardFailoverExhausted(r)
  PROVE  HInv'
<1>0. TypeOK /\ HistoryAt(r) /\ pc[r] = "forward"
  BY DEF IInv, HInv, ForwardFailoverExhausted
<1>1. \A q \in Requests \ {r} : HVarsAt(q)' = HVarsAt(q)
  BY <1>0 DEF TypeOK, ForwardFailoverExhausted, Goto, Return, DropLocals, ReleaseAccount, RespondStreamingAware, HVarsAt
<1>2. account[r] \in Accounts
  BY <1>0, ForwardAccount
<1>3. PICK st \in FailoverStatuses :
        /\ attempts' = [attempts EXCEPT ![r] = Append(@, [acct |-> account[r], status |-> st])]
        /\ RespondStreamingAware(r, "upstream_error", MapUpstreamError(st), st)
  BY Zenon DEF ForwardFailoverExhausted
<1>8. st \in Nat
  BY GatewayAssumption
<1>4. /\ attempts'[r] = Append(attempts[r], [acct |-> account[r], status |-> st])
      /\ outcome'[r] = [kind |-> "upstream_error", status |-> MapUpstreamError(st),
                        upstream |-> st,
                        shape |-> IF streamStarted[r] THEN "sse" ELSE "json"]
  BY <1>0, <1>3 DEF TypeOK, ForwardFailoverExhausted, RespondStreamingAware
<1>5. pc'[r] = "idle" /\ streamStarted'[r] = streamStarted[r] /\ reqStream'[r] = reqStream[r]
  BY <1>0 DEF TypeOK, ForwardFailoverExhausted, Goto, Return
<1>9. /\ outcome'[r].shape = "json" => ~streamStarted[r]
      /\ outcome'[r].shape = "sse" => streamStarted[r]
      /\ outcome'[r].kind = "upstream_error" =>
           /\ outcome'[r].upstream = st
           /\ outcome'[r].status = MapUpstreamError(outcome'[r].upstream)
      /\ outcome'[r].kind # "no_account"
  BY <1>4
<1>6. HistoryAt(r)'
  BY <1>0, <1>2, <1>4, <1>5, <1>8, <1>9, ForwardReturn
<1>7. QED
  BY <1>1, <1>6, HistoryStep

LEMMA ForwardFailsOverHInv ==
  ASSUME IInv, HInv, NEW r \in Requests, ForwardFailsOver(r)
  PROVE  HInv'
<1>0. TypeOK /\ HistoryAt(r) /\ pc[r] = "forward"
  BY DEF IInv, HInv, ForwardFailsOver
<1>1. \A q \in Requests \ {r} : HVarsAt(q)' = HVarsAt(q)
  BY <1>0 DEF TypeOK, ForwardFailsOver, Goto, ReleaseAccount, HVarsAt
<1>2. account[r] \in Accounts
  BY <1>0, ForwardAccount
<1>3. PICK st \in FailoverStatuses :
        /\ attempts' = [attempts EXCEPT ![r] = Append(@, [acct |-> account[r], status |-> st])]
        /\ lastFailoverStatus' = [lastFailoverStatus EXCEPT ![r] = st]
  BY Zenon DEF ForwardFailsOver
<1>4. st \in Nat
  BY GatewayAssumption
<1>5. /\ attempts'[r] = Append(attempts[r], [acct |-> account[r], status |-> st])
      /\ lastFailoverStatus'[r] = st
      /\ failedAccountIDs'[r] = failedAccountIDs[r] \cup {account[r]}
      /\ switchCount'[r] = switchCount[r] + 1
      /\ switchCount[r] < MaxAccountSwitches
      /\ pc'[r] = "select" /\ outcome'[r] = outcome[r]
      /\ streamStarted'[r] = streamStarted[r] /\ reqStream'[r] = reqStream[r]
  BY <1>0, <1>3 DEF TypeOK, ForwardFailsOver, Goto
<1>6. HistoryAt(r)'
  BY <1>0, <1>2, <1>4, <1>5, FailoverStep
<1>7. QED
  BY <1>1, <1>6, HistoryStep

-----------------------------------------------------------------------------
(* A new request on goroutine r starts with an empty history.              *)
LEMMA ArriveHInv ==
  ASSUME IInv, HInv, NEW r \in Requests, Arrive(r)
  PROVE  HInv'
<1>0. TypeOK
  BY DEF IInv
<1>1. \A q \in Requests \ {r} : HVarsAt(q)' = HVarsAt(q)
  BY <1>0 DEF TypeOK, Arrive, Goto, HVarsAt
<1>2. /\ pc'[r] = "preflight" /\ attempts'[r] = <<>> /\ outcome'[r] = NoOutcome
      /\ switchCount'[r] = 0 /\ failedAccountIDs'[r] = {}
      /\ ~streamStarted'[r]
  BY <1>0 DEF TypeOK, Arrive, Goto
<1>3. HistoryAt(r)'
  <2>1. Len(attempts'[r]) <= MaxAccountSwitches + 1 /\ DistinctAccts(attempts'[r])
        /\ AcctsOf(attempts'[r]) = {} /\ Len(attempts'[r]) = 0
    BY <1>2, EmptyHistory, GatewayAssumption
  <2>2. outcome'[r].kind = "none" /\ outcome'[r].shape = "none"
    BY <1>2 DEF NoOutcome
  <2>3. QED
    BY <1>2, <2>1, <2>2, GatewayAssumption DEF HistoryAt, AccountPCs
<1>4. QED
  BY <1>1, <1>3, HistoryStep

(* The heartbeat starts the stream only of a streaming request that is    *)
(* waiting for a slot, before any response is written.                     *)
LEMMA HeartbeatHInv ==
  ASSUME IInv, HInv, NEW r \in Requests, Heartbeat(r)
  PROVE  HInv'
<1>0. TypeOK /\ HistoryAt(r)
  BY DEF IInv, HInv
<1>1. \A q \in Requests \ {r} : HVarsAt(q)' = HVarsAt(q)
  BY <1>0 DEF TypeOK, Heartbeat, HVarsAt
<1>2. /\ pc[r] \in {"acqUser", "acqAcc"} /\ reqStream[r]
      /\ streamStarted'[r] = TRUE
      /\ UNCHANGED <<pc, attempts, outcome, switchCount, failedAccountIDs,
                     lastFailoverStatus, account, reqStream>>
  BY <1>0 DEF TypeOK, Heartbeat
<1>3. outcome[r] = NoOutcome
  BY <1>0, <1>2 DEF HistoryAt
<1>4. outcome'[r].shape = "none"
  BY <1>2, <1>3 DEF NoOutcome
<1>5. HistoryAt(r)'
  BY <1>0, <1>2, <1>4 DEF HistoryAt
<1>6. QED
  BY <1>1, <1>5, HistoryStep

(* The other environment steps touch nothing HistoryAt reads.             *)
LEMMA EnvironmentHInv ==
  ASSUME IInv, HInv,
         \/ \E r \in Requests : Cancel(r) \/ UserReleaseOnDone(r) \/ AccountReleaseOnDone(r)
         \/ \E s \in Sessions \ {NoSession} : StickyExpires(s)
         \/ UNCHANGED vars
  PROVE  HInv'
<1>1. \A q \in Requests : HVarsAt(q)' = HVarsAt(q)
  BY DEF IInv, TypeOK, Cancel, UserReleaseOnDone, AccountReleaseOnDone,
         StickyExpires, vars, local, HVarsAt
<1>2. QED
  BY <1>1, HistoryFrame DEF HInv

-----------------------------------------------------------------------------
LEMMA HandlerHInv ==
  ASSUME IInv, HInv, NEW r \in Requests, Handler(r)
  PROVE  HInv'
BY PreflightRejectsHInv, PreflightPassesHInv, UserWaitStoreErrorHInv,
   UserWaitAdmittedHInv, UserWaitRejectedHInv, AcquireUserSlotHInv,
   AcquireUserSlotFailsHInv, BillingPassesHInv, BillingFailsHInv,
   SelectAcquiredHInv, SelectWaitPlanHInv, SelectNoAccountHInv,
   SelectExhaustedHInv, AccountWaitStoreErrorHInv, AccountWaitAdmittedHInv,
   AccountWaitRejectedHInv, AcquireAccountSlotHInv, AcquireAccountSlotFailsHInv,
   AccountAdmittedHInv, ForwardSucceedsHInv, ForwardFailsOverHInv,
   ForwardFailoverExhaustedHInv, ForwardErrorsHInv
   DEF Handler

LEMMA NextHInv == IInv /\ HInv /\ [Next]_vars => HInv'
<1> SUFFICES ASSUME IInv, HInv, [Next]_vars PROVE HInv'
  OBVIOUS
<1>1. CASE \E r \in Requests : Arrive(r) \/ Handler(r) \/ Heartbeat(r)
  BY <1>1, ArriveHInv, HandlerHInv, HeartbeatHInv
<1>2. CASE \E r \in Requests : Cancel(r) \/ UserReleaseOnDone(r) \/ AccountReleaseOnDone(r)
  BY <1>2, EnvironmentHInv
<1>3. CASE \E s \in Sessions \ {NoSession} : StickyExpires(s)
  BY <1>3, EnvironmentHInv
<1>4. CASE UNCHANGED vars
  BY <1>4, EnvironmentHInv
<1>5. QED
  BY <1>1, <1>2, <1>3, <1>4 DEF Next

-----------------------------------------------------------------------------
(* IInv /\ HInv is an invariant of the handler.                            *)
LEMMA HistoryInvariant == Spec => [](IInv /\ HInv)
<1>1. Init => IInv /\ HInv
  BY InitIInv, InitHInv
<1>2. IInv /\ HInv /\ [Next]_vars => (IInv /\ HInv)'
  BY NextIInv, NextHInv
<1>3. QED
  BY <1>1, <1>2, PTL DEF Spec

(* Spec P8/I5 (lines 292-305): a request calls upstream at most            *)
(* maxAccountSwitches + 1 times and never calls the same account twice,    *)
(* whatever the failover statuses, cancellations and sticky bindings, for  *)
(* every switch budget.                                                    *)
THEOREM FailoverBoundedInvariant == Spec => []FailoverBounded
<1>1. HInv => FailoverBounded
  BY DEF HInv, HistoryAt, DistinctAccts, FailoverBounded
<1>2. QED
  BY <1>1, HistoryInvariant, PTL

(* Lines 224-227 and 294-301: an exhausted failover, found at selection or *)
(* inside Forward, reports the status of the last upstream call, mapped    *)
(* by mapUpstreamError, both to the client and in the error log.           *)
THEOREM ExhaustedReportsLastUpstreamInvariant ==
  Spec => []ExhaustedReportsLastUpstream
<1>1. HInv => ExhaustedReportsLastUpstream
  BY DEF HInv, HistoryAt, ExhaustedReportsLastUpstream
<1>2. QED
  BY <1>1, HistoryInvariant, PTL

(* Spec 4.H (lines 365-383): once a heartbeat has committed the SSE        *)
(* response, every error the handler writes is an SSE event, and a JSON    *)
(* error is written only while the stream has not started.                 *)
THEOREM ErrorShapeFollowsStreamInvariant == Spec => []ErrorShapeFollowsStream
<1>1. HInv => ErrorShapeFollowsStream
  BY DEF HInv, HistoryAt, ErrorShapeFollowsStream
<1>2. QED
  BY <1>1, HistoryInvariant, PTL

====
