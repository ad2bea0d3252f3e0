-------------------------- MODULE IdempotencyProofs --------------------------
(****************************************************************************)
(* Theorems about Idempotency, for any accounts, keys, bodies and workers.  *)
(****************************************************************************)
EXTENDS Idempotency, TLAPS

(* A client that waits has one attempt in service at a time.                 *)
Alone ==
    \A k \in Careful : \A v, w \in Workers : key[v] = k /\ key[w] = k => v = w

(* The worker of an attempt that has not paid yet may still pay.             *)
MayPay(k) == \E w \in Workers : key[w] = k /\ stage[w] = "handle"

(* Every payment, and every chance of one, has taken a mark: Redis holds the *)
(* last one (or the answer that replaced it) or has dropped it.              *)
MarksTaken ==
    \A k \in Careful :
        /\ paid[k] <= expired[k] + 1
        /\ cache[k] = Absent => paid[k] <= expired[k]
        /\ MayPay(k) => paid[k] <= expired[k]
        /\ MayPay(k) /\ cache[k] = Absent => paid[k] + 1 <= expired[k]
        /\ \A w \in Workers : key[w] = k /\ stage[w] = "set" => cache[k] = Absent

(* An answer is given, or stored, only after a COMMIT.                       *)
Told ==
    /\ AnswersArePaid
    /\ \A w \in Workers : stage[w] = "store" => paid[key[w]] >= 1

ShopInv == ShopTyped /\ Alone /\ MarksTaken /\ Told

(* What Redis holds under a key is told apart by its status.                 *)
LEMMA Statuses ==
    /\ Absent # PROCESSING /\ Absent # COMPLETED /\ PROCESSING # COMPLETED
    /\ Absent.status # "COMPLETED" /\ PROCESSING.status # "COMPLETED"
BY DEF Absent, PROCESSING, COMPLETED

(* No attempt is in service, nothing is cached and nothing is paid.          *)
LEMMA ShopStart == ShopInit => ShopInv
BY KeyAssumption, Statuses
   DEF ShopInit, ShopInv, ShopTyped, Alone, MayPay, MarksTaken, Told, AnswersArePaid

(* An attempt under a careful key finds no other one.                        *)
LEMMA ArriveStep ==
    ASSUME ShopInv, NEW w \in Workers, NEW k \in Keys, Arrive(w, k)
    PROVE  ShopInv'
<1> USE DEF Arrive, ShopInv, ShopTyped, toldVars, cacheVars
<1>1. /\ key' = [key EXCEPT ![w] = k] /\ stage' = [stage EXCEPT ![w] = "get"]
      /\ UNCHANGED <<cache, expired, paid, answered>> /\ attempts' = attempts + 1
  OBVIOUS
<1>2. ShopTyped'
  BY KeyAssumption, <1>1
<1>3. Alone'
  BY <1>1 DEF Alone
<1>4. MarksTaken'
  <2>1. \A j \in Careful : MayPay(j)' => MayPay(j)
    BY <1>1 DEF MayPay
  <2> QED
    BY <1>1, <2>1 DEF MarksTaken
<1>5. Told'
  BY <1>1 DEF Told, AnswersArePaid
<1> QED
  BY <1>2, <1>3, <1>4, <1>5

(* An attempt that ends, with whatever answer, leaves the marks as they are. *)
LEMMA LeaveStep ==
    ASSUME ShopInv, NEW w \in Workers, Leave(w), UNCHANGED cacheVars, UNCHANGED paid,
           \/ answered' = answered
           \/ answered' = answered \cup {key[w]} /\ stage[w] # "none" /\ paid[key[w]] >= 1
    PROVE  ShopInv'
<1> USE DEF Leave, ShopInv, ShopTyped, cacheVars
<1>1. /\ key' = [key EXCEPT ![w] = NoKey] /\ stage' = [stage EXCEPT ![w] = "none"]
      /\ UNCHANGED <<cache, expired, paid, attempts>>
  OBVIOUS
<1>2. ShopTyped'
  BY <1>1
<1>3. Alone'
  BY KeyAssumption, <1>1 DEF Alone
<1>4. MarksTaken'
  <2>1. \A k \in Careful : MayPay(k)' => MayPay(k)
    BY <1>1 DEF MayPay
  <2> QED
    BY <1>1, <2>1 DEF MarksTaken
<1>5. Told'
  BY <1>1 DEF Told, AnswersArePaid
<1> QED
  BY <1>2, <1>3, <1>4, <1>5

(* GET and the steps inside the handler that do not end it.                  *)
LEMMA ReadStep ==
    ASSUME ShopInv, NEW w \in Workers,
           GetNothing(w) \/ ((Handle(w) \/ Advance(w)) /\ UNCHANGED shopVars)
    PROVE  ShopInv'
<1> USE DEF ShopInv, ShopTyped, cacheVars, deskVars, toldVars, shopVars
<1>1. CASE GetNothing(w)
  <2>1. /\ stage' = [stage EXCEPT ![w] = "set"]
        /\ UNCHANGED <<key, cache, expired, paid, attempts, answered>>
        /\ stage[w] = "get" /\ cache[key[w]] = Absent
    BY <1>1 DEF GetNothing, Goto, Unclaimed
  <2>2. \A k \in Careful : MayPay(k)' => MayPay(k)
    BY <2>1 DEF MayPay
  <2>3. ShopTyped' /\ Alone' /\ Told'
    BY <2>1 DEF Alone, Told, AnswersArePaid
  <2>4. MarksTaken'
    BY <2>1, <2>2 DEF MarksTaken
  <2> QED
    BY <2>3, <2>4
<1>2. CASE UNCHANGED shopVars
  BY <1>2 DEF Alone, MayPay, MarksTaken, Told, AnswersArePaid
<1> QED
  BY <1>1, <1>2

(* The mark is taken where Redis holds nothing.                              *)
LEMMA MarkStep ==
    ASSUME ShopInv, NEW w \in Workers, SetProcessing(w)
    PROVE  ShopInv'
<1> USE DEF ShopInv, ShopTyped
<1>1. /\ cache' = [cache EXCEPT ![key[w]] = PROCESSING]
      /\ stage' = [stage EXCEPT ![w] = "handle"]
      /\ stage[w] = "set" /\ key[w] \in Keys
      /\ UNCHANGED <<key, expired, paid, attempts, answered>>
  BY DEF SetProcessing, Goto, toldVars
<1>2. ShopTyped' /\ Alone'
  BY <1>1 DEF Alone
<1>3. MarksTaken'
  <2>1. ASSUME NEW k \in Careful
        PROVE  /\ k # key[w] => (MayPay(k)' => MayPay(k)) /\ cache'[k] = cache[k]
               /\ k = key[w] => cache[k] = Absent /\ cache'[k] = PROCESSING
    BY <1>1, KeyAssumption DEF MayPay, MarksTaken
  <2>2. \A k \in Careful : \A v \in Workers :
          key[v] = k /\ stage'[v] = "set" => k # key[w] /\ stage[v] = "set"
    BY <1>1 DEF Alone
  <2> QED
    BY <1>1, <2>1, <2>2, Statuses, KeyAssumption DEF MarksTaken
<1>4. Told'
  BY <1>1, Statuses DEF Told, AnswersArePaid
<1> QED
  BY <1>2, <1>3, <1>4

(* A payment uses up the chance its worker had.                              *)
LEMMA PayStep ==
    ASSUME ShopInv, NEW w \in Workers, Pay(w)
    PROVE  ShopInv'
<1> USE DEF ShopInv, ShopTyped
<1>1. /\ paid' = [paid EXCEPT ![key[w]] = @ + 1]
      /\ stage' = [stage EXCEPT ![w] = "store"]
      /\ stage[w] = "handle" /\ key[w] \in Keys
      /\ UNCHANGED <<key, cache, expired, attempts, answered>>
  BY DEF Pay, Goto, cacheVars
<1>2. ShopTyped' /\ Alone'
  BY <1>1 DEF Alone
<1>3. MarksTaken'
  <2>1. ASSUME NEW k \in Careful
        PROVE  /\ k # key[w] => (MayPay(k)' => MayPay(k)) /\ paid'[k] = paid[k]
               /\ k = key[w] => MayPay(k) /\ ~MayPay(k)' /\ paid'[k] = paid[k] + 1
    BY <1>1, KeyAssumption DEF MayPay, Alone
  <2> QED
    BY <1>1, <2>1, KeyAssumption DEF MarksTaken
<1>4. Told'
  BY <1>1 DEF Told, AnswersArePaid
<1> QED
  BY <1>2, <1>3, <1>4

(* The answer replaces whatever Redis holds; its worker pays no more.        *)
LEMMA StoreStep ==
    ASSUME ShopInv, NEW w \in Workers, Store(w)
    PROVE  ShopInv'
<1> USE DEF ShopInv, ShopTyped
<1>1. /\ cache' = [cache EXCEPT ![key[w]] = COMPLETED]
      /\ key' = [key EXCEPT ![w] = NoKey] /\ stage' = [stage EXCEPT ![w] = "none"]
      /\ answered' = answered \cup {key[w]}
      /\ stage[w] = "store" /\ key[w] \in Keys
      /\ UNCHANGED <<expired, paid, attempts>>
  BY DEF Store, Leave
<1>2. ShopTyped' /\ Alone'
  BY <1>1, KeyAssumption DEF Alone
<1>3. MarksTaken'
  <2>1. ASSUME NEW k \in Careful
        PROVE  /\ k # key[w] => (MayPay(k)' => MayPay(k)) /\ cache'[k] = cache[k]
               /\ k = key[w] => cache'[k] = COMPLETED /\ ~MayPay(k)'
    BY <1>1, KeyAssumption DEF MayPay, Alone
  <2>2. \A k \in Careful : \A v \in Workers :
          key'[v] = k /\ stage'[v] = "set" => k # key[w] /\ key[v] = k /\ stage[v] = "set"
    BY <1>1, KeyAssumption DEF Alone
  <2> QED
    BY <1>1, <2>1, <2>2, Statuses, KeyAssumption DEF MarksTaken
<1>4. Told'
  BY <1>1 DEF Told, AnswersArePaid
<1> QED
  BY <1>2, <1>3, <1>4

(* A key that Redis drops is counted.                                        *)
LEMMA ExpireStep ==
    ASSUME ShopInv, NEW k \in Keys, Expire(k)
    PROVE  ShopInv'
<1> USE DEF ShopInv, ShopTyped
<1>1. /\ cache' = [cache EXCEPT ![k] = Absent]
      /\ expired' = [expired EXCEPT ![k] = @ + 1]
      /\ cache[k] # Absent
      /\ UNCHANGED <<key, stage, paid, attempts, answered>>
  BY DEF Expire, Absent, deskVars, toldVars
<1>2. ShopTyped' /\ Alone'
  BY <1>1 DEF Alone
<1>3. MarksTaken'
  <2>1. \A j \in Careful : MayPay(j)' = MayPay(j)
    BY <1>1 DEF MayPay
  <2> QED
    BY <1>1, <2>1, KeyAssumption DEF MarksTaken
<1>4. Told'
  BY <1>1, Statuses DEF Told, AnswersArePaid
<1> QED
  BY <1>2, <1>3, <1>4

(* Every step of Redis, interceptor and transfers keeps the invariant.       *)
LEMMA ShopStep == ShopInv /\ [ShopNext]_allVars => ShopInv'
<1> SUFFICES ASSUME ShopInv, [ShopNext]_allVars
             PROVE  ShopInv'
  OBVIOUS
<1>1. CASE UNCHANGED allVars
  BY <1>1 DEF allVars, shopVars, cacheVars, deskVars, toldVars, ShopInv, ShopTyped, Alone,
     MayPay, MarksTaken, Told, AnswersArePaid
<1>2. ASSUME NEW w \in Workers, Serve(w) \/ Throw(w) \/ Drop(w)
      PROVE  ShopInv'
  <2>1. CASE GetProcessing(w) \/ TurnAway(w) \/ Deny(w) \/ Throw(w) \/ Drop(w)
    BY <2>1, LeaveStep DEF GetProcessing, TurnAway, Deny, Throw, Drop, toldVars
  <2>2. CASE Replay(w)
    <3>1. stage[w] # "none" /\ key[w] \in Keys /\ paid[key[w]] >= 1
      BY <2>2, Statuses DEF Replay, Replayable, ShopInv, ShopTyped, Told, AnswersArePaid
    <3> QED
      BY <2>2, <3>1, LeaveStep DEF Replay
  <2>3. CASE GetNothing(w) \/ Handle(w) \/ Advance(w)
    BY <2>3, ReadStep DEF Handle, Advance
  <2> QED
    BY <1>2, <2>1, <2>2, <2>3, MarkStep, PayStep, StoreStep DEF Serve
<1> QED
  BY <1>1, <1>2, ArriveStep, ExpireStep DEF ShopNext

(* The interceptor's invariant, in every reachable state.                    *)
THEOREM ShopKept == ShopSpec => []ShopInv
BY ShopStart, ShopStep, PTL DEF ShopSpec

(* A client that waits for its answers pays once per mark Redis kept,        *)
(* whatever fails between the mark, the COMMIT and the stored answer.        *)
THEOREM WaitingClientsPayOnce == ShopSpec => []RetriesPayOnce
<1>1. ShopInv => RetriesPayOnce
  BY KeyAssumption DEF ShopInv, ShopTyped, MarksTaken, RetriesPayOnce
<1> QED
  BY <1>1, ShopKept, PTL

(* Neither an answer nor a replay ever reports a transfer that was not       *)
(* committed, for any client.                                                *)
THEOREM AnswersAreTrue == ShopSpec => []AnswersArePaid
<1>1. ShopInv => AnswersArePaid
  BY DEF ShopInv, Told
<1> QED
  BY <1>1, ShopKept, PTL

(* The interceptor leaves the transfers as they are: each of its steps is a  *)
(* step of the ledger or none.                                               *)
LEMMA ShopNextIsNext ==
    ASSUME ShopInv, ShopNext
    PROVE  [Next]_vars
<1>1. ASSUME NEW w \in Workers, Handle(w)
      PROVE  Next
  <2>1. Order[key[w]] \in [source : Accounts, target : Accounts, amount : Amounts]
    BY <1>1, OrderAssumption, KeyAssumption DEF Handle, ShopInv, ShopTyped
  <2> QED
    BY <1>1, <2>1 DEF Handle, Next
<1>2. ASSUME NEW w \in Workers, Advance(w) \/ Deny(w) \/ Pay(w) \/ Throw(w)
      PROVE  Next
  BY <1>2 DEF Advance, Deny, Pay, Throw, Next, Step
<1> QED
  BY <1>1, <1>2 DEF ShopNext, Arrive, Serve, GetNothing, GetProcessing, Replay, SetProcessing,
     TurnAway, Store, Drop, Expire

(* A transfer in service names two accounts.                                 *)
Named == \A w \in Workers : pc[w] # "idle" => source[w] \in Accounts /\ target[w] \in Accounts

(* A transfer keeps the types of the ledger.                                 *)
LEMMA LedgerTypes ==
    ASSUME AccountTypeOK, Named, [Next]_vars
    PROVE  AccountTypeOK' /\ Named'
<1> USE DEF AccountTypeOK, bookVars, jobVars
<1>1. CASE UNCHANGED vars
  BY <1>1 DEF vars, Named
<1>2. ASSUME NEW a \in Accounts, CreateAccount(a)
      PROVE  AccountTypeOK' /\ Named'
  BY <1>2 DEF CreateAccount, Named
<1>3. ASSUME NEW w \in Workers, NEW s \in Accounts, NEW t \in Accounts, NEW sum \in Amounts,
             Begin(w, s, t, sum)
      PROVE  AccountTypeOK' /\ Named'
  BY <1>3, AmountAssumption DEF Begin, Named
<1>4. ASSUME NEW w \in Workers, Refuse(w) \/ Fail(w)
      PROVE  AccountTypeOK' /\ Named'
  BY <1>4 DEF Refuse, Fail, End, Named
<1>5. ASSUME NEW w \in Workers, LockFirst(w) \/ LockSecond(w) \/ Check(w)
      PROVE  AccountTypeOK' /\ Named'
  BY <1>5 DEF LockFirst, LockSecond, Lock, Check, Named
<1>6. ASSUME NEW w \in Workers, Post(w)
      PROVE  AccountTypeOK' /\ Named'
  <2>1. /\ lock' \in [Accounts -> Workers \cup {NoWorker}] /\ opened' = opened
        /\ pc' \in [Workers -> {"idle", "lock", "lock2", "check", "post"}]
        /\ source' \in [Workers -> Accounts \cup {NoAccount}]
        /\ target' \in [Workers -> Accounts \cup {NoAccount}]
        /\ amount' \in [Workers -> Nat] /\ requests' = requests
    BY <1>6 DEF Post, End
  <2>2. balance' \in [Accounts -> Int] /\ entries' \in [Accounts -> Int]
    <3>1. PICK s \in Accounts, t \in Accounts, x \in Int :
            s = source[w] /\ t = target[w] /\ x = amount[w]
      BY <1>6 DEF Post, Named
    <3>2. /\ balance' = [balance EXCEPT ![s] = @ - x, ![t] = @ + x]
          /\ entries' = [entries EXCEPT ![s] = @ - x, ![t] = @ + x]
      BY <1>6, <3>1 DEF Post
    <3> QED
      BY <3>1, <3>2
  <2>3. Named'
    BY <1>6 DEF Post, End, Named
  <2> QED
    BY <2>1, <2>2, <2>3
<1> QED
  BY <1>1, <1>2, <1>3, <1>4, <1>5, <1>6 DEF Next, Step

(* Types of Redis, interceptor and transfers, in every reachable state.      *)
THEOREM ShopTypesKept == ShopSpec => []ShopTypeOK
<1>1. ShopInit => AccountTypeOK /\ Named
  BY FundingAssumption DEF ShopInit, Init, AccountTypeOK, Named
<1>2. AccountTypeOK /\ Named /\ ShopInv /\ [ShopNext]_allVars => AccountTypeOK' /\ Named'
  BY LedgerTypes, ShopNextIsNext DEF allVars
<1>3. ShopSpec => []AccountTypeOK
  BY <1>1, <1>2, ShopKept, PTL DEF ShopSpec
<1>4. ShopInv /\ AccountTypeOK => ShopTypeOK
  BY DEF ShopInv, ShopTypeOK
<1> QED
  BY <1>3, <1>4, ShopKept, PTL
==============================================================================
