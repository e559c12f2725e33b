--------------------------- MODULE ConcurrencySlots ---------------------------
(***************************************************************************)
(* What the concurrency controller promises its callers (spec 4.A, 5 and  *)
(* 9), stated over the requests that hold something rather than over      *)
(* counters.  Each request may hold a place in its user's wait queue, a   *)
(* user slot, places in account wait queues and account slots.  A place   *)
(* or a slot is granted only while its scope has room (IncrementWait:     *)
(* waiting < max_waiting; AcquireSlotWithWait: active < max_active); what *)
(* a request holds it may give back at any time, several things at once   *)
(* (a return running its defers); and a step of one request never touches *)
(* what another request holds.                                             *)
(*                                                                         *)
(* The Responses handler keeps counters instead, moved by increments,     *)
(* explicit decrements, deferred decrements and once-guarded releases;    *)
(* OpenAIGatewayHandler maps its state onto this module's (Slots) and     *)
(* OpenAIGatewayHandlerProofs proves that it implements it.               *)
(***************************************************************************)
EXTENDS Naturals, FiniteSets, FiniteSetTheorems, TLAPS

CONSTANTS
  Requests, Users, Owner, Concurrency, UserMaxWait,
  Accounts, AccountConcurrency, AccountMaxWaiting

VARIABLES
  queued,       \* queued[r]: r holds a place in its user's wait queue
  holding,      \* holding[r]: r holds a slot of its user
  accQueued,    \* accQueued[r]: the accounts in whose wait queue r has a place
  accHolding    \* accHolding[r]: the accounts of which r holds a slot

svars == <<queued, holding, accQueued, accHolding>>

UserQueue(u) == {r \in Requests : Owner[r] = u /\ queued[r]}
UserHolders(u) == {r \in Requests : Owner[r] = u /\ holding[r]}
AccountQueue(a) == {r \in Requests : a \in accQueued[r]}
AccountHolders(a) == {r \in Requests : a \in accHolding[r]}

SlotsInit ==
  /\ queued = [r \in Requests |-> FALSE]
  /\ holding = [r \in Requests |-> FALSE]
  /\ accQueued = [r \in Requests |-> {}]
  /\ accHolding = [r \in Requests |-> {}]

(* IncrementWait(user, max_waiting) admitting r.                           *)
EnterUserQueue(r) ==
  /\ ~queued[r]
  /\ Cardinality(UserQueue(Owner[r])) < UserMaxWait[Owner[r]]
  /\ queued' = [queued EXCEPT ![r] = TRUE]
  /\ UNCHANGED <<holding, accQueued, accHolding>>

(* AcquireSlotWithWait(user, concurrency) granting r a slot.               *)
TakeUserSlot(r) ==
  /\ ~holding[r]
  /\ Cardinality(UserHolders(Owner[r])) < Concurrency[Owner[r]]
  /\ holding' = [holding EXCEPT ![r] = TRUE]
  /\ UNCHANGED <<queued, accQueued, accHolding>>

(* IncrementWait(account a, max_waiting) admitting r.                      *)
EnterAccountQueue(r, a) ==
  /\ a \notin accQueued[r]
  /\ Cardinality(AccountQueue(a)) < AccountMaxWaiting[a]
  /\ accQueued' = [accQueued EXCEPT ![r] = @ \cup {a}]
  /\ UNCHANGED <<queued, holding, accHolding>>

(* An immediate or waited acquire of a slot of account a.                  *)
TakeAccountSlot(r, a) ==
  /\ a \notin accHolding[r]
  /\ Cardinality(AccountHolders(a)) < AccountConcurrency[a]
  /\ accHolding' = [accHolding EXCEPT ![r] = @ \cup {a}]
  /\ UNCHANGED <<queued, holding, accQueued>>

(* DecrementWait calls and release functions of r, any number at once.    *)
GiveBack(r) ==
  \E q \in {FALSE, queued[r]}, h \in {FALSE, holding[r]},
     aq \in SUBSET accQueued[r], ah \in SUBSET accHolding[r] :
       /\ queued' = [queued EXCEPT ![r] = q]
       /\ holding' = [holding EXCEPT ![r] = h]
       /\ accQueued' = [accQueued EXCEPT ![r] = aq]
       /\ accHolding' = [accHolding EXCEPT ![r] = ah]

SlotsNext ==
  \E r \in Requests :
    \/ EnterUserQueue(r)
    \/ TakeUserSlot(r)
    \/ \E a \in Accounts : EnterAccountQueue(r, a) \/ TakeAccountSlot(r, a)
    \/ GiveBack(r)

SlotsSpec == SlotsInit /\ [][SlotsNext]_svars

-----------------------------------------------------------------------------
SlotsTypeOK ==
  /\ queued \in [Requests -> BOOLEAN]
  /\ holding \in [Requests -> BOOLEAN]
  /\ accQueued \in [Requests -> SUBSET Accounts]
  /\ accHolding \in [Requests -> SUBSET Accounts]

(* Spec P6 and 4.A: no scope ever has more holders than its limit.        *)
LeasesWithinLimits ==
  /\ \A u \in Users : Cardinality(UserQueue(u)) <= UserMaxWait[u]
  /\ \A u \in Users : Cardinality(UserHolders(u)) <= Concurrency[u]
  /\ \A a \in Accounts : Cardinality(AccountQueue(a)) <= AccountMaxWaiting[a]
  /\ \A a \in Accounts : Cardinality(AccountHolders(a)) <= AccountConcurrency[a]
-----------------------------------------------------------------------------
(* The constants the proofs need: finitely many requests, each owned by a *)
(* user, and limits that are natural numbers.                              *)
SlotsConstants ==
  /\ IsFiniteSet(Requests)
  /\ Owner \in [Requests -> Users]
  /\ Concurrency \in [Users -> Nat]
  /\ UserMaxWait \in [Users -> Nat]
  /\ AccountConcurrency \in [Accounts -> Nat]
  /\ AccountMaxWaiting \in [Accounts -> Nat]

SlotsInv == SlotsTypeOK /\ LeasesWithinLimits

(* A set of holders within its limit stays within it when it shrinks, or  *)
(* when it gains one holder while below the limit.                         *)
LEMMA BoundedGrowth ==
  ASSUME NEW S \in SUBSET Requests, NEW T \in SUBSET Requests, NEW x,
         NEW lim \in Nat, IsFiniteSet(Requests), Cardinality(S) <= lim,
         \/ T \subseteq S
         \/ T = S \cup {x} /\ Cardinality(S) < lim
  PROVE  Cardinality(T) <= lim
<1>1. IsFiniteSet(S) /\ Cardinality(S) \in Nat
  BY FS_Subset, FS_CardinalityType
<1>2. CASE T \subseteq S
  <2>1. Cardinality(T) <= Cardinality(S)
    BY <1>1, <1>2, FS_Subset
  <2>2. Cardinality(T) \in Nat
    BY <1>1, <1>2, FS_Subset, FS_CardinalityType
  <2>3. QED
    BY <1>1, <2>1, <2>2
<1>3. CASE T = S \cup {x} /\ Cardinality(S) < lim
  BY <1>1, <1>3, FS_AddElement
<1>4. QED
  BY <1>2, <1>3

(* Growth(S, T, lim): scope S becomes T by shrinking or by one admission  *)
(* below the limit.                                                        *)
Growth(S, T, lim) ==
  \/ T \subseteq S
  \/ \E x \in Requests : T = S \cup {x} /\ Cardinality(S) < lim

LEMMA LimitsStep ==
  ASSUME SlotsConstants, LeasesWithinLimits, SlotsTypeOK, SlotsTypeOK',
         \A u \in Users : Growth(UserQueue(u), UserQueue(u)', UserMaxWait[u]),
         \A u \in Users : Growth(UserHolders(u), UserHolders(u)', Concurrency[u]),
         \A a \in Accounts :
           Growth(AccountQueue(a), AccountQueue(a)', AccountMaxWaiting[a]),
         \A a \in Accounts :
           Growth(AccountHolders(a), AccountHolders(a)', AccountConcurrency[a])
  PROVE  LeasesWithinLimits'
<1>1. ASSUME NEW S \in SUBSET Requests, NEW T \in SUBSET Requests,
             NEW lim \in Nat, Cardinality(S) <= lim, Growth(S, T, lim)
      PROVE  Cardinality(T) <= lim
  BY <1>1, BoundedGrowth DEF SlotsConstants, Growth
<1>2. /\ \A u \in Users : UserQueue(u) \in SUBSET Requests /\ UserQueue(u)' \in SUBSET Requests
      /\ \A u \in Users : UserHolders(u) \in SUBSET Requests /\ UserHolders(u)' \in SUBSET Requests
      /\ \A a \in Accounts : AccountQueue(a) \in SUBSET Requests /\ AccountQueue(a)' \in SUBSET Requests
      /\ \A a \in Accounts : AccountHolders(a) \in SUBSET Requests /\ AccountHolders(a)' \in SUBSET Requests
  BY DEF UserQueue, UserHolders, AccountQueue, AccountHolders
<1>3. QED
  BY <1>1, <1>2 DEF LeasesWithinLimits, SlotsConstants

LEMMA SlotsInitInv ==
  ASSUME SlotsConstants, SlotsInit
  PROVE  SlotsInv
<1>1. /\ \A u \in Users : UserQueue(u) = {} /\ UserHolders(u) = {}
      /\ \A a \in Accounts : AccountQueue(a) = {} /\ AccountHolders(a) = {}
  BY DEF SlotsInit, UserQueue, UserHolders, AccountQueue, AccountHolders
<1>2. Cardinality({}) = 0
  BY FS_EmptySet
<1>3. SlotsTypeOK
  BY DEF SlotsTypeOK, SlotsInit
<1>4. LeasesWithinLimits
  <2>1. ASSUME NEW u \in Users
        PROVE  /\ Cardinality(UserQueue(u)) <= UserMaxWait[u]
               /\ Cardinality(UserHolders(u)) <= Concurrency[u]
    <3>1. UserMaxWait[u] \in Nat /\ Concurrency[u] \in Nat
      BY DEF SlotsConstants
    <3>2. QED
      BY <1>1, <1>2, <3>1
  <2>2. ASSUME NEW a \in Accounts
        PROVE  /\ Cardinality(AccountQueue(a)) <= AccountMaxWaiting[a]
               /\ Cardinality(AccountHolders(a)) <= AccountConcurrency[a]
    <3>1. AccountMaxWaiting[a] \in Nat /\ AccountConcurrency[a] \in Nat
      BY DEF SlotsConstants
    <3>2. QED
      BY <1>1, <1>2, <3>1
  <2>3. QED
    BY <2>1, <2>2 DEF LeasesWithinLimits
<1>5. QED
  BY <1>3, <1>4 DEF SlotsInv

LEMMA SlotsNextInv ==
  ASSUME SlotsConstants, SlotsInv, [SlotsNext]_svars
  PROVE  SlotsInv'
<1> USE DEF SlotsInv
<1>1. CASE UNCHANGED svars
  BY <1>1 DEF svars, SlotsTypeOK, LeasesWithinLimits, UserQueue, UserHolders,
             AccountQueue, AccountHolders
<1>2. ASSUME NEW r \in Requests, EnterUserQueue(r) PROVE SlotsInv'
  <2>1. SlotsTypeOK'
    BY <1>2 DEF EnterUserQueue, SlotsTypeOK
  <2>2. \A u \in Users : Growth(UserQueue(u), UserQueue(u)', UserMaxWait[u])
    <3> SUFFICES ASSUME NEW u \in Users
                 PROVE  Growth(UserQueue(u), UserQueue(u)', UserMaxWait[u])
      OBVIOUS
    <3>1. CASE u = Owner[r]
      <4>1. UserQueue(u)' = UserQueue(u) \cup {r}
        BY <1>2, <3>1 DEF EnterUserQueue, UserQueue, SlotsTypeOK
      <4>2. QED
        BY <1>2, <3>1, <4>1 DEF Growth, EnterUserQueue
    <3>2. CASE u # Owner[r]
      BY <1>2, <3>2 DEF EnterUserQueue, UserQueue, SlotsTypeOK, Growth
    <3>3. QED
      BY <3>1, <3>2
  <2>3. QED
    BY <1>2, <2>1, <2>2, LimitsStep
       DEF EnterUserQueue, Growth, UserHolders, AccountQueue, AccountHolders
<1>3. ASSUME NEW r \in Requests, TakeUserSlot(r) PROVE SlotsInv'
  <2>1. SlotsTypeOK'
    BY <1>3 DEF TakeUserSlot, SlotsTypeOK
  <2>2. \A u \in Users : Growth(UserHolders(u), UserHolders(u)', Concurrency[u])
    <3> SUFFICES ASSUME NEW u \in Users
                 PROVE  Growth(UserHolders(u), UserHolders(u)', Concurrency[u])
      OBVIOUS
    <3>1. CASE u = Owner[r]
      <4>1. UserHolders(u)' = UserHolders(u) \cup {r}
        BY <1>3, <3>1 DEF TakeUserSlot, UserHolders, SlotsTypeOK
      <4>2. QED
        BY <1>3, <3>1, <4>1 DEF Growth, TakeUserSlot
    <3>2. CASE u # Owner[r]
      BY <1>3, <3>2 DEF TakeUserSlot, UserHolders, SlotsTypeOK, Growth
    <3>3. QED
      BY <3>1, <3>2
  <2>3. QED
    BY <1>3, <2>1, <2>2, LimitsStep
       DEF TakeUserSlot, Growth, UserQueue, AccountQueue, AccountHolders
<1>4. ASSUME NEW r \in Requests, NEW b \in Accounts, EnterAccountQueue(r, b)
      PROVE  SlotsInv'
  <2>1. SlotsTypeOK'
    BY <1>4 DEF EnterAccountQueue, SlotsTypeOK
  <2>2. \A a \in Accounts : Growth(AccountQueue(a), AccountQueue(a)', AccountMaxWaiting[a])
    <3> SUFFICES ASSUME NEW a \in Accounts
                 PROVE  Growth(AccountQueue(a), AccountQueue(a)', AccountMaxWaiting[a])
      OBVIOUS
    <3>1. CASE a = b
      <4>1. AccountQueue(a)' = AccountQueue(a) \cup {r}
        BY <1>4, <3>1 DEF EnterAccountQueue, AccountQueue, SlotsTypeOK
      <4>2. QED
        BY <1>4, <3>1, <4>1 DEF Growth, EnterAccountQueue
    <3>2. CASE a # b
      BY <1>4, <3>2 DEF EnterAccountQueue, AccountQueue, SlotsTypeOK, Growth
    <3>3. QED
      BY <3>1, <3>2
  <2>3. QED
    BY <1>4, <2>1, <2>2, LimitsStep
       DEF EnterAccountQueue, Growth, UserQueue, UserHolders, AccountHolders
<1>5. ASSUME NEW r \in Requests, NEW b \in Accounts, TakeAccountSlot(r, b)
      PROVE  SlotsInv'
  <2>1. SlotsTypeOK'
    BY <1>5 DEF TakeAccountSlot, SlotsTypeOK
  <2>2. \A a \in Accounts : Growth(AccountHolders(a), AccountHolders(a)', AccountConcurrency[a])
    <3> SUFFICES ASSUME NEW a \in Accounts
                 PROVE  Growth(AccountHolders(a), AccountHolders(a)', AccountConcurrency[a])
      OBVIOUS
    <3>1. CASE a = b
      <4>1. AccountHolders(a)' = AccountHolders(a) \cup {r}
        BY <1>5, <3>1 DEF TakeAccountSlot, AccountHolders, SlotsTypeOK
      <4>2. QED
        BY <1>5, <3>1, <4>1 DEF Growth, TakeAccountSlot
    <3>2. CASE a # b
      BY <1>5, <3>2 DEF TakeAccountSlot, AccountHolders, SlotsTypeOK, Growth
    <3>3. QED
      BY <3>1, <3>2
  <2>3. QED
    BY <1>5, <2>1, <2>2, LimitsStep
       DEF TakeAccountSlot, Growth, UserQueue, UserHolders, AccountQueue
<1>6. ASSUME NEW r \in Requests, GiveBack(r) PROVE SlotsInv'
  <2>1. PICK q \in {FALSE, queued[r]}, h \in {FALSE, holding[r]},
             aq \in SUBSET accQueued[r], ah \in SUBSET accHolding[r] :
               /\ queued' = [queued EXCEPT ![r] = q]
               /\ holding' = [holding EXCEPT ![r] = h]
               /\ accQueued' = [accQueued EXCEPT ![r] = aq]
               /\ accHolding' = [accHolding EXCEPT ![r] = ah]
    BY <1>6 DEF GiveBack
  <2>2. SlotsTypeOK'
    BY <2>1 DEF SlotsTypeOK
  <2>3. /\ \A u \in Users : UserQueue(u)' \subseteq UserQueue(u)
        /\ \A u \in Users : UserHolders(u)' \subseteq UserHolders(u)
        /\ \A a \in Accounts : AccountQueue(a)' \subseteq AccountQueue(a)
        /\ \A a \in Accounts : AccountHolders(a)' \subseteq AccountHolders(a)
    BY <2>1 DEF SlotsTypeOK, UserQueue, UserHolders, AccountQueue, AccountHolders
  <2>4. QED
    BY <2>2, <2>3, LimitsStep DEF Growth
<1>7. QED
  BY <1>1, <1>2, <1>3, <1>4, <1>5, <1>6 DEF SlotsNext

(* The contract keeps every scope within its limit: at no time do more     *)
(* requests hold a user slot, a user queue place, an account slot or an   *)
(* account queue place than the limit the handler passed for that scope.  *)
THEOREM LeasesStayWithinLimits ==
  ASSUME SlotsConstants
  PROVE  SlotsSpec => []LeasesWithinLimits
<1>1. SlotsInit => SlotsInv
  BY SlotsInitInv
<1>2. SlotsInv /\ [SlotsNext]_svars => SlotsInv'
  BY SlotsNextInv
<1>3. QED
  BY <1>1, <1>2, PTL DEF SlotsSpec, SlotsInv
====
