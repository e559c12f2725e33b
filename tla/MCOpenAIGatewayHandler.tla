----------------------- MODULE MCOpenAIGatewayHandler -----------------------
(***************************************************************************)
(* Small instances of the Responses handler for TLC.  All requests belong  *)
(* to one user u1.  Account a1 has one slot and a one-place queue; a2 has  *)
(* one slot and no queue, so that a wait plan for it is always rejected.   *)
(*                                                                         *)
(*  admission (three requests, two user slots, a one-place user queue):    *)
(*    the single account a1 serves the single model, so that one request  *)
(*    queues on the user while two are past it and one of those queues    *)
(*    on a1; one failover status, after which nothing is left to select.  *)
(*  failover (two requests, one user slot): m1 served by both accounts,    *)
(*    m2 by a1 only, m3 by none; a sticky session; two failover statuses   *)
(*    with different client mappings; one account switch, so that an m1    *)
(*    request failing on both accounts exhausts inside Forward and an m2   *)
(*    request failing on a1 exhausts at selection.                         *)
(*  liveness (two requests, one user slot, the single account a1): both   *)
(*    requests keep coming back and contend for the user and the account. *)
(***************************************************************************)
EXTENDS OpenAIGatewayHandler, TLC

CONSTANTS r1, r2, r3, u1, a1, a2, m1, m2, m3, s1

MCAccounts == {a1, a2}
MCAccountConcurrency == [a \in Accounts |-> 1]
MCAccountMaxWaiting == [a \in Accounts |-> IF a = a1 THEN 1 ELSE 0]
MCOwner == [r \in Requests |-> u1]

MCAdmissionRequests == {r1, r2, r3}
MCAdmissionConcurrency == (u1 :> 2)
MCAdmissionAccounts == {a1}
MCAdmissionModels == {m1}
MCAdmissionSupports == (a1 :> {m1})
MCAdmissionSessions == {NoSession}
MCAdmissionStatuses == {529}

MCFailoverRequests == {r1, r2}
MCFailoverConcurrency == (u1 :> 1)
MCFailoverModels == {m1, m2, m3}
MCFailoverSupports == (a1 :> {m1, m2}) @@ (a2 :> {m1})
MCFailoverSessions == {NoSession, s1}
MCFailoverStatuses == {429, 529}

MCUserMaxWait == (u1 :> 1)

MCLivenessRequests == {r1, r2}

(* The requests are interchangeable: they share the user and the inputs.  *)
MCSymmetry == Permutations(Requests)
=============================================================================
