---------------------------- MODULE AccountProofs ----------------------------
(****************************************************************************)
(* Theorems about AccountLedger and AccountChain, for any accounts,         *)
(* transfers and workers.                                                   *)
(****************************************************************************)
EXTENDS AccountChain, FiniteSetTheorems, TLAPS

(* A worker past its locks holds every existing account it names, so that a  *)
(* balance it has checked cannot be spent by another one.                    *)
LockInv ==
    \A w \in Workers : pc[w] # "idle" =>
        /\ source[w] \in opened
        /\ target[w] \in Accounts
        /\ source[w] # target[w]
        /\ amount[w] > 0
        /\ pc[w] = "lock2" => (First(w) \in opened => lock[First(w)] = w)
        /\ pc[w] \in {"check", "post"} =>
             /\ lock[source[w]] = w
             /\ target[w] \in opened => lock[target[w]] = w
        /\ pc[w] = "post" => Sound(w)

(* The inductive invariant.                                                  *)
AccountInv == AccountTypeOK /\ NeverOverdrawn /\ LockInv

(* A step makes one payment or none. *)
PayStep == Money!Next \/ UNCHANGED Money!bankVars

(* The funded accounts, with nobody in service, satisfy the invariant and open *)
(* the bank.                                                                 *)
LEMMA AccountInit == Init => AccountInv /\ Money!Init
BY FundingAssumption
   DEF Init, AccountInv, AccountTypeOK, NeverOverdrawn, LockInv, Money!Init

(* A worker that stops, with or without having paid, leaves the others what  *)
(* they hold.                                                                *)
LEMMA EndKeepsLocks ==
    ASSUME AccountTypeOK, LockInv, NEW w \in Workers, End(w), UNCHANGED opened,
           \A v \in Workers \ {w} : pc[v] = "post" => balance'[source[v]] = balance[source[v]]
    PROVE  LockInv'
<1>1. /\ pc'[w] = "idle"
      /\ \A v \in Workers \ {w} : /\ pc'[v] = pc[v]
                                  /\ source'[v] = source[v]
                                  /\ target'[v] = target[v]
                                  /\ amount'[v] = amount[v]
  BY DEF End, AccountTypeOK
<1>2. \A v \in Workers \ {w}, a \in Accounts : lock[a] = v => lock'[a] = v
  BY DEF End
<1>3. ASSUME NEW v \in Workers \ {w}, pc[v] # "idle"
      PROVE  First(v) \in Accounts /\ First(v)' = First(v)
  BY <1>1, <1>3 DEF First, LockInv, AccountTypeOK
<1>4. ASSUME NEW v \in Workers \ {w}, pc[v] = "post"
      PROVE  Sound(v)'
  BY <1>1, <1>4 DEF Sound, LockInv
<1> QED
  BY <1>1, <1>2, <1>3, <1>4 DEF LockInv, AccountTypeOK

(* The two UPDATEs and the COMMIT are one covered payment of the bank: the   *)
(* locks have kept the balance that Check saw.                               *)
LEMMA PostPays ==
    ASSUME AccountInv, NEW w \in Workers, Post(w)
    PROVE  AccountInv' /\ PayStep
<1> DEFINE s == source[w]
           t == target[w]
           x == amount[w]
<1>1. /\ s \in Accounts /\ t \in Accounts /\ s # t /\ x \in Nat /\ x > 0
      /\ balance[s] >= x /\ lock[s] = w /\ lock[t] = w
  BY DEF Post, AccountInv, AccountTypeOK, LockInv, Sound
<1>2. /\ balance \in [Accounts -> Int] /\ entries \in [Accounts -> Int]
      /\ balance' = [balance EXCEPT ![s] = @ - x, ![t] = @ + x]
      /\ entries' = [entries EXCEPT ![s] = @ - x, ![t] = @ + x]
  BY DEF Post, AccountInv, AccountTypeOK
<1> HIDE DEF s, t, x
<1>3. /\ balance' \in [Accounts -> Int] /\ entries' \in [Accounts -> Int]
      /\ balance'[s] = balance[s] - x
      /\ balance'[t] = balance[t] + x
      /\ \A a \in Accounts \ {s, t} : balance'[a] = balance[a]
  BY <1>1, <1>2
<1>4. NeverOverdrawn'
  BY <1>1, <1>2, <1>3 DEF AccountInv, NeverOverdrawn
<1>5. AccountTypeOK'
  BY <1>3 DEF Post, End, AccountInv, AccountTypeOK
<1>6. LockInv'
  <2>1. \A v \in Workers \ {w} : pc[v] = "post" => source[v] \in Accounts \ {s, t}
    BY <1>1 DEF AccountInv, LockInv, AccountTypeOK
  <2> QED
    BY <1>3, <2>1, EndKeepsLocks DEF Post, AccountInv
<1>7. PayStep
  <2>1. balance[s] - balance'[s] = x /\ x \in 1..balance[s]
    BY <1>1, <1>2, <1>3
  <2>2. Money!Pay(s, t)
    BY <1>1, <1>2, <2>1 DEF Money!Pay, Money!Shift
  <2> QED
    BY <1>1, <2>2 DEF PayStep, Money!Next
<1> QED
  BY <1>4, <1>5, <1>6, <1>7 DEF AccountInv

(* Refusals and failures pay nothing. *)
LEMMA EndPaysNothing ==
    ASSUME AccountInv, NEW w \in Workers, End(w), UNCHANGED bookVars
    PROVE  AccountInv' /\ PayStep
<1>1. AccountTypeOK'
  BY DEF AccountInv, AccountTypeOK, End, bookVars
<1>2. NeverOverdrawn' /\ PayStep
  BY DEF AccountInv, NeverOverdrawn, PayStep, Money!bankVars, bookVars
<1>3. LockInv'
  BY EndKeepsLocks DEF AccountInv, bookVars
<1> QED
  BY <1>1, <1>2, <1>3 DEF AccountInv

(* Each of the two SELECT ... FOR UPDATE adds a lock. *)
LEMMA LockStep ==
    ASSUME AccountInv, NEW w \in Workers, LockFirst(w) \/ LockSecond(w)
    PROVE  AccountInv' /\ PayStep
<1> USE DEF LockFirst, LockSecond, Lock
<1>1. UNCHANGED <<bookVars, jobVars>>
  OBVIOUS
<1>2. AccountTypeOK'
  BY DEF AccountInv, AccountTypeOK, bookVars, jobVars
<1>3. NeverOverdrawn' /\ PayStep
  BY DEF AccountInv, NeverOverdrawn, PayStep, Money!bankVars, bookVars
<1>4. \A v \in Workers, a \in Accounts : lock[a] = v => lock'[a] = v
  BY ActorAssumption DEF AccountInv, AccountTypeOK
<1>5. \A v \in Workers : /\ First(v)' = First(v)
                         /\ pc[v] # "idle" => First(v) \in Accounts
  BY <1>1 DEF First, jobVars, AccountInv, AccountTypeOK, LockInv
<1>6. \A v \in Workers : Sound(v)' = Sound(v)
  BY <1>1 DEF Sound, bookVars, jobVars
<1>7. ASSUME NEW v \in Workers \ {w}
      PROVE  pc'[v] = pc[v]
  BY DEF AccountInv, AccountTypeOK
<1>8. CASE LockFirst(w)
  <2>1. pc'[w] = "lock2" /\ pc[w] = "lock"
    BY <1>8 DEF AccountInv, AccountTypeOK
  <2>2. First(w) \in opened => lock'[First(w)] = w
    BY <1>5, <1>8, <2>1 DEF AccountInv, AccountTypeOK
  <2>3. LockInv'
    BY <1>1, <1>4, <1>5, <1>6, <1>7, <2>1, <2>2
       DEF AccountInv, AccountTypeOK, LockInv, bookVars, jobVars
  <2> QED
    BY <1>2, <1>3, <2>3 DEF AccountInv
<1>9. CASE LockSecond(w)
  <2>1. pc'[w] = "check" /\ pc[w] = "lock2"
    BY <1>9 DEF AccountInv, AccountTypeOK
  <2>2. {First(w), Second(w)} = {source[w], target[w]}
    BY DEF First, Second
  <2>3. Second(w) \in Accounts
    BY <2>1 DEF Second, AccountInv, AccountTypeOK, LockInv
  <2>4. First(w) \in opened => lock'[First(w)] = w
    BY <1>4, <1>5, <2>1 DEF AccountInv, LockInv
  <2>5. Second(w) \in opened => lock'[Second(w)] = w
    BY <1>9, <2>3 DEF AccountInv, AccountTypeOK
  <2>6. \A a \in {source[w], target[w]} : a \in opened => lock'[a] = w
    BY <2>2, <2>4, <2>5
  <2>7. LockInv'
    BY <1>1, <1>4, <1>5, <1>6, <1>7, <2>1, <2>6
       DEF AccountInv, AccountTypeOK, LockInv, bookVars, jobVars
  <2> QED
    BY <1>2, <1>3, <2>7 DEF AccountInv
<1> QED
  BY <1>8, <1>9

(* A worker that passes the check holds a sound payment from then on.        *)
LEMMA CheckStep ==
    ASSUME AccountInv, NEW w \in Workers, Check(w)
    PROVE  AccountInv' /\ PayStep
<1>1. UNCHANGED <<bookVars, lock, jobVars>> /\ pc' = [pc EXCEPT ![w] = "post"]
      /\ pc[w] = "check" /\ Sound(w)
  BY DEF Check
<1>2. AccountTypeOK' /\ NeverOverdrawn' /\ PayStep
  BY <1>1 DEF AccountInv, AccountTypeOK, NeverOverdrawn, PayStep, Money!bankVars,
     bookVars, jobVars
<1>3. LockInv'
  BY <1>1 DEF AccountInv, AccountTypeOK, LockInv, First, Sound, bookVars, jobVars
<1> QED
  BY <1>2, <1>3 DEF AccountInv

(* Neither a new transfer nor a new account disturbs the transfers in        *)
(* service.                                                                  *)
LEMMA ArrivalStep ==
    ASSUME AccountInv,
           \/ \E a \in Accounts : CreateAccount(a)
           \/ \E w \in Workers, s, t \in Accounts, sum \in Amounts : Begin(w, s, t, sum)
    PROVE  AccountInv' /\ PayStep
<1>1. ASSUME NEW a \in Accounts, CreateAccount(a)
      PROVE  AccountInv' /\ PayStep
  <2>1. /\ UNCHANGED <<balance, entries, lock, pc, jobVars>>
        /\ opened' = opened \cup {a}
        /\ \A v \in Workers : a # source[v] /\ a # target[v]
    BY <1>1 DEF CreateAccount
  <2>2. AccountTypeOK' /\ NeverOverdrawn' /\ PayStep
    BY <2>1 DEF AccountInv, AccountTypeOK, NeverOverdrawn, PayStep, Money!bankVars, jobVars
  <2>3. \A v \in Workers : First(v) \in {source[v], target[v]} /\ First(v)' = First(v)
    BY <2>1 DEF First, jobVars
  <2>4. LockInv'
    BY <2>1, <2>3 DEF AccountInv, LockInv, Sound, jobVars
  <2> QED
    BY <2>2, <2>4 DEF AccountInv
<1>2. ASSUME NEW w \in Workers, NEW s \in Accounts, NEW t \in Accounts, NEW sum \in Amounts,
             Begin(w, s, t, sum)
      PROVE  AccountInv' /\ PayStep
  <2>1. sum \in Nat /\ sum > 0
    BY AmountAssumption
  <2>2. AccountTypeOK' /\ NeverOverdrawn' /\ PayStep
    BY <1>2, <2>1 DEF Begin, AccountInv, AccountTypeOK, NeverOverdrawn, PayStep,
       Money!bankVars, bookVars
  <2>3. /\ \A v \in Workers \ {w} : /\ pc'[v] = pc[v]
                                    /\ source'[v] = source[v]
                                    /\ target'[v] = target[v]
                                    /\ amount'[v] = amount[v]
        /\ pc'[w] = "lock" /\ source'[w] = s /\ target'[w] = t /\ amount'[w] = sum
        /\ s \in opened /\ s # t
        /\ UNCHANGED <<bookVars, lock>>
    BY <1>2 DEF Begin, AccountInv, AccountTypeOK
  <2>4. \A v \in Workers \ {w} : First(v)' = First(v) /\ Sound(v)' = Sound(v)
    BY <2>3 DEF First, Sound, bookVars
  <2>5. LockInv'
    BY <2>1, <2>3, <2>4 DEF AccountInv, LockInv, bookVars
  <2> QED
    BY <2>2, <2>5 DEF AccountInv
<1> QED
  BY <1>1, <1>2

(* Every step keeps the invariant and makes one payment or none.             *)
LEMMA AccountNext ==
    ASSUME AccountInv, [Next]_vars
    PROVE  AccountInv' /\ PayStep
<1>1. CASE UNCHANGED vars
  BY <1>1 DEF vars, bookVars, jobVars, AccountInv, AccountTypeOK, NeverOverdrawn, LockInv,
     First, Sound, PayStep, Money!bankVars
<1>2. ASSUME NEW w \in Workers, Step(w) \/ Fail(w)
      PROVE  AccountInv' /\ PayStep
  BY <1>2, LockStep, CheckStep, EndPaysNothing, PostPays DEF Step, Refuse, Fail
<1> QED
  BY <1>1, <1>2, ArrivalStep DEF Next

(* Types, balances and locks of executeTransfer, in every reachable state.   *)
THEOREM AccountsTyped == Spec => []AccountInv
BY AccountInit, AccountNext, PTL DEF Spec

(* No interleaving of transfers takes an account below zero.                 *)
THEOREM AccountsNeverOverdrawn == Spec => []NeverOverdrawn
<1>1. AccountInv => NeverOverdrawn
  BY DEF AccountInv
<1> QED
  BY <1>1, AccountsTyped, PTL

(* Concurrent transfers implement the bank: each is one payment between two  *)
(* different accounts, covered by the payer, in balances and entries alike.  *)
THEOREM AccountsKeepBank == Spec => BankKept
<1>1. Init => Money!Init
  BY AccountInit
<1>2. AccountInv /\ [Next]_vars => [Money!Next]_(Money!bankVars)
  BY AccountNext DEF PayStep
<1> QED
  BY <1>1, <1>2, AccountsTyped, PTL DEF Spec, BankKept, Money!Spec

------------------------------------------------------------------------------
(* Waiting for locks. *)

(* A worker holds nothing before it has its first lock, and only its first   *)
(* account before it has its second.                                         *)
HoldInv ==
    \A w \in Workers, a \in Accounts : lock[a] = w =>
        /\ pc[w] \in {"lock2", "check", "post"}
        /\ pc[w] = "lock2" => a = First(w)

(* Nobody holds anything at the start.                                       *)
LEMMA HoldInit == Init => HoldInv
BY ActorAssumption DEF Init, HoldInv

(* Locks are taken one at a time and given back together.                    *)
LEMMA HoldNext ==
    ASSUME AccountInv, HoldInv, [Next]_vars
    PROVE  HoldInv'
<1>1. AccountTypeOK
  BY DEF AccountInv
<1>2. CASE UNCHANGED vars \/ \E a \in Accounts : CreateAccount(a)
  <2>1. UNCHANGED <<lock, pc, source, target>>
    BY <1>2 DEF vars, jobVars, CreateAccount
  <2> QED
    BY <2>1 DEF HoldInv, First
<1>3. ASSUME NEW w \in Workers, NEW s \in Accounts, NEW t \in Accounts, NEW sum \in Amounts,
             Begin(w, s, t, sum)
      PROVE  HoldInv'
  <2>1. \A a \in Accounts : lock[a] # w
    BY <1>3 DEF Begin, HoldInv
  <2>2. /\ lock' = lock
        /\ \A v \in Workers \ {w} : /\ pc'[v] = pc[v] /\ source'[v] = source[v]
                                    /\ target'[v] = target[v]
    BY <1>1, <1>3 DEF Begin, AccountTypeOK
  <2> QED
    BY <2>1, <2>2 DEF HoldInv, First
<1>4. ASSUME NEW w \in Workers, LockFirst(w)
      PROVE  HoldInv'
  <2>1. \A a \in Accounts : lock[a] # w
    BY <1>4 DEF LockFirst, Lock, HoldInv
  <2>2. /\ \A a \in Accounts : lock'[a] # lock[a] => a = First(w) /\ lock'[a] = w
        /\ pc' = [pc EXCEPT ![w] = "lock2"] /\ UNCHANGED <<source, target>>
    BY <1>1, <1>4 DEF LockFirst, Lock, jobVars, AccountTypeOK
  <2> QED
    BY <1>1, <2>1, <2>2 DEF HoldInv, First, AccountTypeOK
<1>5. ASSUME NEW w \in Workers, LockSecond(w) \/ Check(w)
      PROVE  HoldInv'
  <2>1. /\ \A a \in Accounts : lock'[a] # lock[a] => lock'[a] = w
        /\ \E l \in {"check", "post"} : pc' = [pc EXCEPT ![w] = l]
        /\ UNCHANGED <<source, target>>
    BY <1>1, <1>5 DEF LockSecond, Lock, Check, jobVars, AccountTypeOK
  <2> QED
    BY <1>1, <2>1 DEF HoldInv, First, AccountTypeOK
<1>6. ASSUME NEW w \in Workers, End(w)
      PROVE  HoldInv'
  <2>1. /\ \A a \in Accounts : lock'[a] = IF lock[a] = w THEN NoWorker ELSE lock[a]
        /\ \A v \in Workers \ {w} : /\ pc'[v] = pc[v] /\ source'[v] = source[v]
                                    /\ target'[v] = target[v]
    BY <1>1, <1>6 DEF End, AccountTypeOK
  <2> QED
    BY <2>1, ActorAssumption DEF HoldInv, First
<1> QED
  BY <1>2, <1>3, <1>4, <1>5, <1>6 DEF Next, Step, Refuse, Post, Fail

(* The worker that holds the account w asks for, if w asks for one.          *)
Blocker(w) ==
    CASE pc[w] = "lock" -> lock[First(w)]
      [] pc[w] = "lock2" -> lock[Second(w)]
      [] OTHER -> NoWorker

(* No workers wait for one another in a circle, since `lockOrderIds` is      *)
(* sorted: among finitely many there is always one that waits for none of    *)
(* them.                                                                     *)
NoCircleOfWaits ==
    \A C \in SUBSET Workers : IsFiniteSet(C) /\ C # {} => \E w \in C : Blocker(w) \notin C

(* The rank of the account a worker asks for.                                *)
Height(w) == IF pc[w] = "lock" THEN Rank[First(w)] ELSE Rank[Second(w)]

(* A worker that waits for a waiting one asks for a lower account.           *)
LEMMA WaitsUpwards ==
    ASSUME AccountInv, HoldInv, NEW w \in Workers, NEW v \in Workers,
           Blocker(w) = v, pc[v] \in {"lock", "lock2"}
    PROVE  Height(w) < Height(v)
<1>1. pc[w] \in {"lock", "lock2"}
  BY ActorAssumption DEF Blocker
<1>2. \A u \in {w, v} :
        /\ source[u] \in Accounts /\ target[u] \in Accounts
        /\ First(u) \in Accounts /\ Second(u) \in Accounts /\ Rank[First(u)] < Rank[Second(u)]
  <2>1. \A u \in {w, v} :
          source[u] \in Accounts /\ target[u] \in Accounts /\ source[u] # target[u]
    BY <1>1 DEF AccountInv, AccountTypeOK, LockInv
  <2> QED
    BY <2>1, RankAssumption DEF First, Second
<1>3. PICK a \in Accounts : lock[a] = v /\ Height(w) = Rank[a]
  BY <1>1, <1>2 DEF Blocker, Height
<1>4. pc[v] = "lock2" /\ a = First(v)
  BY <1>3 DEF HoldInv
<1> QED
  BY <1>2, <1>3, <1>4 DEF Height

(* Finitely many workers have one that asks for the highest account.         *)
LEMMA HighestWorker ==
    ASSUME NEW C, IsFiniteSet(C), C # {}, \A w \in C : Height(w) \in Int
    PROVE  \E w \in C : \A v \in C : Height(v) <= Height(w)
<1> DEFINE Top(s, w) == \A v \in s : Height(v) <= Height(w)
           Bad == {s \in SUBSET C : s # {} /\ \A w \in s : ~Top(s, w)}
<1>1. SUFFICES ASSUME Bad # {} PROVE FALSE
  OBVIOUS
<1>2. PICK s \in Bad : \A u \in Bad : <<u, s>> \notin StrictSubsetOrdering(C)
  <2>1. Bad \subseteq FiniteSubsetsOf(C)
    BY FS_Subset DEF FiniteSubsetsOf
  <2> HIDE DEF Bad, FiniteSubsetsOf, StrictSubsetOrdering
  <2> QED
    BY <1>1, <2>1, FS_StrictSubsetOrderingWellFounded, WFMin
<1>3. PICK x \in s : TRUE
  BY <1>2
<1>4. s \ {x} \notin Bad
  BY <1>2, <1>3 DEF StrictSubsetOrdering
<1>5. CASE s \ {x} = {}
  <2>1. Top(s, x)
    BY <1>2, <1>3, <1>5
  <2> QED
    BY <1>2, <1>3, <2>1
<1>6. CASE s \ {x} # {}
  <2>1. PICK y \in s \ {x} : Top(s \ {x}, y)
    BY <1>2, <1>4, <1>6
  <2>2. Height(x) \in Int /\ \A v \in s : Height(v) \in Int
    BY <1>2, <1>3
  <2>3. Top(s, x) \/ Top(s, y)
    BY <2>1, <2>2
  <2> QED
    BY <1>2, <1>3, <2>1, <2>3
<1> QED
  BY <1>5, <1>6

(* So there is no circle.                                                    *)
LEMMA LocksAreOrdered == AccountInv /\ HoldInv => NoCircleOfWaits
<1> SUFFICES ASSUME AccountInv, HoldInv, NEW C \in SUBSET Workers, IsFiniteSet(C), C # {},
                    \A w \in C : Blocker(w) \in C
             PROVE  FALSE
  BY DEF NoCircleOfWaits
<1>1. \A w \in C : pc[w] \in {"lock", "lock2"}
  BY ActorAssumption DEF Blocker
<1>2. \A w \in C : Height(w) \in Int
  <2>1. \A w \in C : source[w] \in Accounts /\ target[w] \in Accounts
    BY <1>1 DEF AccountInv, AccountTypeOK, LockInv
  <2> QED
    BY <2>1, RankAssumption DEF Height, First, Second
<1>3. PICK w \in C : \A v \in C : Height(v) <= Height(w)
  BY <1>2, HighestWorker
<1>4. Height(w) < Height(Blocker(w))
  BY <1>1, <1>3, WaitsUpwards
<1> QED
  BY <1>2, <1>3, <1>4

(* Transfers never wait for one another in a circle, which is why the        *)
(* ledger needs no deadlock detector, for any accounts and workers.          *)
THEOREM TransfersNeverDeadlock == Spec => []NoCircleOfWaits
<1>1. AccountInv /\ HoldInv /\ [Next]_vars => HoldInv'
  BY HoldNext
<1> QED
  BY <1>1, HoldInit, LocksAreOrdered, AccountsTyped, PTL DEF Spec

------------------------------------------------------------------------------
(* The hash chain. *)

(* h is what the last one of the first n entries of an account says.         *)
Follows(a, h, n) ==
    /\ n = 0 => h = Genesis
    /\ n > 0 => /\ \E k \in 1..n : chain[a][k].tx = h
                /\ \A k \in 1..n : chain[a][k].tx <= h

(* No transaction has two entries in an account, and one in service none.    *)
TxInv ==
    /\ \A a \in Accounts : \A i, j \in DOMAIN chain[a] :
         chain[a][i].tx = chain[a][j].tx => i = j
    /\ \A a \in Accounts : \A i \in DOMAIN chain[a] : chain[a][i].tx <= requests
    /\ \A v, w \in Workers : tx[v] = tx[w] /\ pc[v] # "idle" => v = w
    /\ \A a \in Accounts, w \in Workers : \A i \in DOMAIN chain[a] :
         chain[a][i].tx # tx[w]

(* Every account with entries has a newest one.                              *)
NewestInv ==
    \A a \in Accounts : chain[a] # <<>> => \E i \in DOMAIN chain[a] : Newest(a, i)

(* Each entry follows the newest of those committed before it.               *)
HashInv == \A a \in Accounts : \A i \in DOMAIN chain[a] : Follows(a, chain[a][i].prev, i - 1)

(* The hashes a worker has read are still those of the newest entries: it    *)
(* holds the locks of both accounts.                                         *)
ReadInv ==
    \A w \in Workers :
        /\ Len(prev[w]) >= 1 => Follows(source[w], prev[w][1], Len(chain[source[w]]))
        /\ Len(prev[w]) = 2 => Follows(target[w], prev[w][2], Len(chain[target[w]]))

ChainInv == AccountInv /\ ChainTypeOK /\ TxInv /\ NewestInv /\ HashInv /\ ReadInv

(* The empty chains, with nobody in service, satisfy it.                     *)
LEMMA ChainStart == ChainInit => ChainInv
<1> SUFFICES ASSUME ChainInit
             PROVE  ChainInv
  OBVIOUS
<1>1. AccountInv
  BY AccountInit DEF ChainInit
<1>2. ChainTypeOK
  <2>1. /\ chain \in [Accounts -> Seq(Entry)] /\ prev \in [Workers -> Seq(Nat)]
        /\ \A w \in Workers : Len(prev[w]) = 0
    BY DEF ChainInit
  <2> QED
    BY <1>1, <2>1, GenesisAssumption DEF ChainInit, Init, ChainTypeOK, AccountInv
<1>3. TxInv /\ NewestInv /\ HashInv /\ ReadInv
  BY DEF ChainInit, Init, TxInv, NewestInv, HashInv, ReadInv
<1> QED
  BY <1>1, <1>2, <1>3 DEF ChainInv

(* Each step of the chain is a step of the ledger, or stutters in it.        *)
LEMMA ChainNextIsNext == ChainNext => [Next]_vars
BY DEF ChainNext, OpenAccount, BeginTransfer, Advance, ReadHash, Insert, RollBack, Next, Step

(* A worker that read its hashes holds both accounts, and they exist.        *)
LEMMA PostHolds ==
    ASSUME AccountInv, NEW w \in Workers, pc[w] = "post"
    PROVE  /\ source[w] \in Accounts /\ target[w] \in Accounts /\ source[w] # target[w]
           /\ lock[source[w]] = w /\ lock[target[w]] = w
BY DEF AccountInv, AccountTypeOK, LockInv, Sound

(* getLastEntryHash returns the transaction of the newest entry.             *)
LEMMA LastFollows ==
    ASSUME ChainInv, NEW a \in Accounts
    PROVE  LastEntryHash(a) \in Nat /\ Follows(a, LastEntryHash(a), Len(chain[a]))
<1>1. chain[a] \in Seq(Entry) /\ DOMAIN chain[a] = 1..Len(chain[a]) /\ Len(chain[a]) \in Nat
  BY DEF ChainInv, ChainTypeOK
<1>2. CASE chain[a] = <<>>
  BY <1>2, GenesisAssumption DEF LastEntryHash, Follows
<1>3. CASE chain[a] # <<>>
  <2>1. PICK i \in DOMAIN chain[a] :
          Newest(a, i) /\ LastEntryHash(a) = chain[a][i].tx
    BY <1>3 DEF LastEntryHash, ChainInv, NewestInv
  <2>2. chain[a][i] \in Entry
    BY <1>1, <2>1
  <2> QED
    BY <1>1, <2>1, <2>2 DEF Follows, Newest, Entry
<1> QED
  BY <1>2, <1>3

(* Nothing of the chain or of the workers that read it changes.              *)
LEMMA QuietStep ==
    ASSUME ChainInv, AccountInv', ChainTypeOK', UNCHANGED chain, requests' \in Nat,
           requests <= requests',
           \A w \in Workers : /\ Len(prev'[w]) > 0 =>
                                   /\ prev'[w] = prev[w]
                                   /\ source'[w] = source[w]
                                   /\ target'[w] = target[w]
                              /\ \/ tx'[w] = tx[w] /\ (pc'[w] # "idle" => pc[w] # "idle")
                                 \/ tx'[w] = Genesis
                                 \/ /\ tx'[w] = requests + 1
                                    /\ requests < requests'
                                    /\ \A v \in Workers \ {w} : tx'[v] = tx[v] /\ pc'[v] = pc[v]
    PROVE  ChainInv'
<1>1. NewestInv' /\ HashInv'
  BY DEF ChainInv, NewestInv, Newest, HashInv, Follows
<1>2. ReadInv'
  <2>1. \A w \in Workers : Len(prev'[w]) \in Nat /\ Len(prev[w]) \in Nat
    BY DEF ChainInv, ChainTypeOK
  <2>2. \A w \in Workers : Len(prev'[w]) >= 1 =>
          prev'[w] = prev[w] /\ source'[w] = source[w] /\ target'[w] = target[w]
    BY <2>1
  <2>3. ASSUME NEW w \in Workers, Len(prev'[w]) >= 1
        PROVE  /\ Follows(source[w], prev[w][1], Len(chain[source[w]]))'
               /\ Len(prev'[w]) = 2 => Follows(target[w], prev[w][2], Len(chain[target[w]]))'
    <3>1. prev'[w] = prev[w] /\ source'[w] = source[w] /\ target'[w] = target[w]
      BY <2>2, <2>3
    <3>2. /\ Follows(source[w], prev[w][1], Len(chain[source[w]]))
          /\ Len(prev[w]) = 2 => Follows(target[w], prev[w][2], Len(chain[target[w]]))
      BY <2>3, <3>1 DEF ChainInv, ReadInv
    <3> QED
      BY <3>1, <3>2 DEF Follows
  <2> QED
    BY <2>1, <2>3 DEF ReadInv
<1>3. TxInv'
  <2> USE DEF ChainInv, ChainTypeOK, AccountInv, AccountTypeOK
  <2>1. \A a \in Accounts : \A i \in DOMAIN chain[a] :
          /\ chain[a][i].tx \in Nat \ {Genesis} /\ chain[a][i].tx <= requests
    <3>1. \A a \in Accounts : \A i \in DOMAIN chain[a] : chain[a][i] \in Entry
      OBVIOUS
    <3> QED
      BY <3>1 DEF TxInv, Entry
  <2>2. \A w \in Workers : tx[w] \in 0..requests /\ tx'[w] \in 0..requests'
    OBVIOUS
  <2>3. \A w \in Workers : pc'[w] # "idle" => tx'[w] # Genesis
    OBVIOUS
  <2>4. \A w \in Workers : pc[w] # "idle" => tx[w] # Genesis
    OBVIOUS
  <2>5. \A v, w \in Workers : tx'[v] = tx'[w] /\ pc'[v] # "idle" => v = w
    BY <2>2, <2>3, <2>4, GenesisAssumption DEF TxInv
  <2>6. \A a \in Accounts, w \in Workers : \A i \in DOMAIN chain[a] : chain[a][i].tx # tx'[w]
    BY <2>1, <2>2 DEF TxInv
  <2> QED
    BY <2>1, <2>2, <2>5, <2>6 DEF TxInv
<1> QED
  BY <1>1, <1>2, <1>3 DEF ChainInv

(* What the steps without the chain do to types and transactions.            *)
LEMMA ForgetStep ==
    ASSUME ChainInv, NEW w \in Workers, Forget(w), End(w), AccountInv'
    PROVE  /\ tx' \in [Workers -> 0..requests'] /\ prev' \in [Workers -> Seq(Nat)]
           /\ tx'[w] = Genesis /\ prev'[w] = <<>> /\ pc'[w] = "idle"
           /\ \A v \in Workers \ {w} : /\ tx'[v] = tx[v] /\ prev'[v] = prev[v]
                                       /\ pc'[v] = pc[v]
                                       /\ source'[v] = source[v] /\ target'[v] = target[v]
           /\ requests' = requests /\ requests' \in Nat
<1> USE DEF ChainInv, ChainTypeOK, AccountInv, AccountTypeOK
<1>1. requests' = requests /\ requests \in Nat
  BY DEF End
<1>2. tx' \in [Workers -> 0..requests'] /\ prev' \in [Workers -> Seq(Nat)]
  BY <1>1, GenesisAssumption DEF Forget
<1> QED
  BY <1>1, <1>2 DEF Forget, End

(* A transaction that is rolled back takes what it has read with it.         *)
LEMMA RollBackStep ==
    ASSUME ChainInv, NEW w \in Workers, RollBack(w), AccountInv'
    PROVE  ChainInv'
<1>1. Forget(w) /\ End(w) /\ UNCHANGED chain
  BY DEF RollBack, Refuse, Fail
<1>2. /\ tx' \in [Workers -> 0..requests'] /\ prev' \in [Workers -> Seq(Nat)]
      /\ tx'[w] = Genesis /\ prev'[w] = <<>> /\ pc'[w] = "idle"
      /\ \A v \in Workers \ {w} : /\ tx'[v] = tx[v] /\ prev'[v] = prev[v]
                                  /\ pc'[v] = pc[v]
                                  /\ source'[v] = source[v] /\ target'[v] = target[v]
      /\ requests' = requests /\ requests' \in Nat
  BY <1>1, ForgetStep
<1>3. Len(prev'[w]) = 0
  BY <1>2
<1>4. ChainTypeOK'
  <2>1. \A v \in Workers : /\ Len(prev'[v]) <= 2
                           /\ pc'[v] # "post" => prev'[v] = <<>>
                           /\ (tx'[v] = Genesis) <=> (pc'[v] = "idle")
    <3>1. ASSUME NEW v \in Workers, v # w
          PROVE  /\ Len(prev'[v]) <= 2
                 /\ pc'[v] # "post" => prev'[v] = <<>>
                 /\ (tx'[v] = Genesis) <=> (pc'[v] = "idle")
      <4>1. tx'[v] = tx[v] /\ prev'[v] = prev[v] /\ pc'[v] = pc[v]
        BY <1>2, <3>1
      <4>2. (tx[v] = Genesis) <=> (pc[v] = "idle")
        BY DEF ChainInv, ChainTypeOK
      <4> QED
        BY <4>1, <4>2 DEF ChainInv, ChainTypeOK
    <3> QED
      BY <1>2, <1>3, <3>1
  <2>2. AccountTypeOK' /\ chain' \in [Accounts -> Seq(Entry)]
    BY <1>1 DEF ChainInv, ChainTypeOK, AccountInv
  <2> QED
    BY <1>2, <2>1, <2>2 DEF ChainTypeOK
<1>5. requests <= requests'
  BY <1>2
<1> QED
  BY <1>1, <1>2, <1>3, <1>4, <1>5, QuietStep

(* So do a new account, a new transfer and the statements between its reads. *)
LEMMA OtherStep ==
    ASSUME ChainInv, AccountInv',
           \/ UNCHANGED allVars
           \/ \E a \in Accounts : OpenAccount(a)
           \/ \E w \in Workers : Advance(w)
           \/ \E w \in Workers, s, t \in Accounts, sum \in Amounts : BeginTransfer(w, s, t, sum)
    PROVE  ChainInv'
<1> USE DEF ChainInv, ChainTypeOK, AccountInv, AccountTypeOK
<1>1. CASE UNCHANGED allVars \/ \E a \in Accounts : OpenAccount(a)
  <2>1. UNCHANGED <<pc, source, target, requests, chain, tx, prev>>
    BY <1>1 DEF allVars, vars, chainVars, bookVars, jobVars, OpenAccount, CreateAccount
  <2>2. ChainTypeOK'
    BY <2>1
  <2>3. requests' \in Nat /\ requests <= requests'
    BY <2>1
  <2> QED
    BY <2>1, <2>2, <2>3, QuietStep
<1>2. ASSUME NEW w \in Workers, Advance(w)
      PROVE  ChainInv'
  <2>1. /\ UNCHANGED <<source, target, requests, chain, tx, prev>>
        /\ pc[w] \in {"lock", "lock2", "check"} /\ pc'[w] # "idle"
        /\ \A v \in Workers \ {w} : pc'[v] = pc[v]
    BY <1>2 DEF Advance, LockFirst, LockSecond, Lock, Check, jobVars, chainVars
  <2>2. ChainTypeOK'
    BY <2>1
  <2>3. requests' \in Nat /\ requests <= requests'
    BY <2>1
  <2>4. \A v \in Workers : pc'[v] # "idle" => pc[v] # "idle"
    BY <2>1
  <2> QED
    BY <2>1, <2>2, <2>3, <2>4, QuietStep
<1>3. ASSUME NEW w \in Workers, NEW s \in Accounts, NEW t \in Accounts, NEW sum \in Amounts,
             BeginTransfer(w, s, t, sum)
      PROVE  ChainInv'
  <2>1. /\ requests' = requests + 1 /\ UNCHANGED <<chain, prev>>
        /\ tx' = [tx EXCEPT ![w] = requests + 1]
        /\ pc[w] = "idle" /\ pc'[w] = "lock"
        /\ \A v \in Workers \ {w} : /\ pc'[v] = pc[v]
                                    /\ source'[v] = source[v] /\ target'[v] = target[v]
    BY <1>3 DEF BeginTransfer, Begin
  <2>2. tx' \in [Workers -> 0..requests'] /\ tx'[w] = requests + 1
        /\ \A v \in Workers \ {w} : tx'[v] = tx[v]
    BY <2>1
  <2>3. ChainTypeOK'
    <3>1. \A v \in Workers : /\ Len(prev'[v]) <= 2
                             /\ pc'[v] # "post" => prev'[v] = <<>>
      BY <2>1
    <3>2. ASSUME NEW v \in Workers
          PROVE  (tx'[v] = Genesis) <=> (pc'[v] = "idle")
      <4>1. CASE v = w
        BY <2>1, <2>2, <4>1, GenesisAssumption
      <4>2. CASE v # w
        <5>1. tx'[v] = tx[v] /\ pc'[v] = pc[v]
          BY <2>1, <2>2, <4>2
        <5> QED
          BY <5>1
      <4> QED
        BY <4>1, <4>2
    <3> QED
      BY <2>1, <2>2, <3>1, <3>2
  <2>4. Len(prev'[w]) = 0 /\ requests' \in Nat /\ requests < requests' /\ requests <= requests'
    BY <2>1
  <2>5. /\ tx'[w] = requests + 1 /\ requests < requests'
        /\ \A v \in Workers \ {w} : tx'[v] = tx[v] /\ pc'[v] = pc[v]
    BY <2>1, <2>2, <2>4
  <2>6. ASSUME NEW v \in Workers
        PROVE  /\ Len(prev'[v]) > 0 => /\ prev'[v] = prev[v]
                                       /\ source'[v] = source[v]
                                       /\ target'[v] = target[v]
               /\ \/ tx'[v] = tx[v] /\ (pc'[v] # "idle" => pc[v] # "idle")
                  \/ tx'[v] = Genesis
                  \/ /\ tx'[v] = requests + 1
                     /\ requests < requests'
                     /\ \A u \in Workers \ {v} : tx'[u] = tx[u] /\ pc'[u] = pc[u]
    <3>1. CASE v = w
      BY ONLY <2>4, <2>5, <3>1
    <3>2. CASE v # w
      <4>1. v \in Workers \ {w}
        BY ONLY <2>6, <3>2
      <4> QED
        BY ONLY <2>1, <2>2, <4>1
    <3> QED
      BY ONLY <3>1, <3>2
  <2>7. UNCHANGED chain
    BY <2>1
  <2> QED
    BY <2>3, <2>4, <2>6, <2>7, QuietStep
<1> QED
  BY <1>1, <1>2, <1>3

(* A hash is read under the lock of its account.                             *)
LEMMA ReadHashStep ==
    ASSUME ChainInv, NEW w \in Workers, ReadHash(w)
    PROVE  ChainInv'
<1> USE DEF ChainInv
<1> DEFINE b == IF prev[w] = <<>> THEN source[w] ELSE target[w]
<1>1. PICK h : h = LastEntryHash(b)
  OBVIOUS
<1>2. /\ prev' = [prev EXCEPT ![w] = Append(@, h)]
      /\ pc[w] = "post" /\ Len(prev[w]) < 2
      /\ UNCHANGED <<opened, balance, entries, lock, pc, source, target, amount, requests,
                     chain, tx>>
  BY <1>1 DEF ReadHash, vars, bookVars, jobVars
<1>3. b \in Accounts
  BY <1>2, PostHolds
<1>4. h \in Nat /\ Follows(b, h, Len(chain[b]))
  BY <1>1, <1>3, LastFollows
<1>5. prev[w] \in Seq(Nat) /\ prev' \in [Workers -> Seq(Nat)]
  BY <1>2, <1>4 DEF ChainTypeOK
<1>6. /\ Len(prev'[w]) = Len(prev[w]) + 1 /\ prev'[w][Len(prev[w]) + 1] = h
      /\ Len(prev[w]) = 1 => prev'[w][1] = prev[w][1]
      /\ \A v \in Workers \ {w} : prev'[v] = prev[v]
  BY <1>2, <1>4, <1>5 DEF ChainTypeOK
<1>7. AccountInv'
  BY <1>2 DEF AccountInv, AccountTypeOK, NeverOverdrawn, LockInv, First, Sound
<1>8. ChainTypeOK'
  BY <1>2, <1>5, <1>6, <1>7 DEF ChainTypeOK, AccountInv
<1>9. TxInv' /\ NewestInv' /\ HashInv'
  BY <1>2 DEF TxInv, NewestInv, Newest, HashInv, Follows
<1>10. ReadInv'
  <2>1. ASSUME NEW v \in Workers \ {w}
        PROVE  /\ Len(prev[v]) >= 1 => Follows(source[v], prev[v][1], Len(chain[source[v]]))
               /\ Len(prev[v]) = 2 => Follows(target[v], prev[v][2], Len(chain[target[v]]))
    BY DEF ReadInv
  <2>2. CASE Len(prev[w]) = 0
    <3>1. prev[w] = <<>> /\ Len(prev'[w]) = 1 /\ prev'[w][1] = h
      BY <1>5, <1>6, <2>2
    <3>2. Follows(source[w], h, Len(chain[source[w]]))
      BY <1>4, <3>1
    <3> QED
      BY <1>2, <1>6, <2>1, <3>1, <3>2 DEF ReadInv, Follows
  <2>3. CASE Len(prev[w]) = 1
    <3>1. /\ prev[w] # <<>> /\ Len(prev'[w]) = 2 /\ prev'[w][2] = h
          /\ prev'[w][1] = prev[w][1]
      BY <1>5, <1>6, <2>3
    <3>3. Follows(target[w], h, Len(chain[target[w]]))
      BY <1>4, <3>1
    <3>2. Follows(source[w], prev[w][1], Len(chain[source[w]]))
      BY <2>3 DEF ReadInv
    <3> QED
      BY <1>2, <1>6, <2>1, <3>1, <3>2, <3>3 DEF ReadInv, Follows
  <2>4. Len(prev[w]) = 0 \/ Len(prev[w]) = 1
    <3>1. Len(prev[w]) \in Nat
      BY <1>5
    <3>2. Len(prev[w]) < 2
      BY <1>2
    <3>3. \A n \in Nat : n < 2 => n = 0 \/ n = 1
      OBVIOUS
    <3> QED
      BY ONLY <3>1, <3>2, <3>3, Zenon
  <2> QED
    BY <2>2, <2>3, <2>4
<1> QED
  BY <1>7, <1>8, <1>9, <1>10
(* The COMMIT adds at most one entry to an account, one that follows the     *)
(* newest of the others.                                                     *)
LEMMA InsertExtends ==
    ASSUME ChainInv, NEW w \in Workers, Insert(w), NEW a \in Accounts
    PROVE  /\ Len(chain[a]) \in Nat /\ DOMAIN chain[a] = 1..Len(chain[a])
           /\ chain'[a] \in Seq(Entry) /\ DOMAIN chain'[a] = 1..Len(chain'[a])
           /\ \A i \in 1..Len(chain[a]) : chain'[a][i] = chain[a][i]
           /\ \/ chain'[a] = chain[a]
              \/ /\ a \in {source[w], target[w]}
                 /\ Len(chain'[a]) = Len(chain[a]) + 1
                 /\ chain'[a][Len(chain[a]) + 1].tx = tx[w]
                 /\ Follows(a, chain'[a][Len(chain[a]) + 1].prev, Len(chain[a]))
<1>1. PICK p, q : p = prev[w][1] /\ q = prev[w][2]
  OBVIOUS
<1>2. /\ Len(prev[w]) = 2 /\ pc[w] = "post"
      /\ chain' = [chain EXCEPT ![source[w]] = Append(@, [tx |-> tx[w], prev |-> p]),
                                ![target[w]] = Append(@, [tx |-> tx[w], prev |-> q])]
  BY <1>1 DEF Insert, Post
<1>3. source[w] \in Accounts /\ target[w] \in Accounts /\ source[w] # target[w]
  BY <1>2, PostHolds DEF ChainInv
<1>4. /\ Follows(source[w], p, Len(chain[source[w]]))
      /\ Follows(target[w], q, Len(chain[target[w]]))
  BY <1>1, <1>2 DEF ChainInv, ReadInv
<1>5. p \in Nat /\ q \in Nat /\ tx[w] \in Nat \ {Genesis}
  <2>1. prev[w] \in Seq(Nat) /\ tx[w] \in 0..requests /\ requests \in Nat
    BY DEF ChainInv, ChainTypeOK, AccountInv, AccountTypeOK
  <2>2. tx[w] # Genesis
    BY <1>2 DEF ChainInv, ChainTypeOK
  <2> QED
    BY <1>1, <1>2, <2>1, <2>2
<1>6. chain \in [Accounts -> Seq(Entry)]
  BY DEF ChainInv, ChainTypeOK
<1>7. /\ chain[a] \in Seq(Entry) /\ Len(chain[a]) \in Nat
      /\ DOMAIN chain[a] = 1..Len(chain[a])
  BY <1>6
<1>8. CASE a \notin {source[w], target[w]}
  <2>1. chain'[a] = chain[a]
    BY <1>2, <1>6, <1>8
  <2> QED
    BY <1>7, <2>1
<1>9. CASE a \in {source[w], target[w]}
  <2>1. PICK e \in Entry : /\ chain'[a] = Append(chain[a], e)
                           /\ e.tx = tx[w]
                           /\ Follows(a, e.prev, Len(chain[a]))
    <3>1. CASE a = source[w]
      <4>1. PICK e : e = [tx |-> tx[w], prev |-> p]
        OBVIOUS
      <4>2. e \in Entry /\ e.tx = tx[w] /\ e.prev = p
        BY <1>5, <4>1 DEF Entry
      <4>3. chain'[a] = Append(chain[a], e)
        BY <1>2, <1>3, <1>6, <3>1, <4>1
      <4> QED
        BY <1>4, <3>1, <4>2, <4>3
    <3>2. CASE a = target[w]
      <4>1. PICK e : e = [tx |-> tx[w], prev |-> q]
        OBVIOUS
      <4>2. e \in Entry /\ e.tx = tx[w] /\ e.prev = q
        BY <1>5, <4>1 DEF Entry
      <4>3. chain'[a] = Append(chain[a], e)
        BY <1>2, <1>3, <1>6, <3>2, <4>1
      <4> QED
        BY <1>4, <3>2, <4>2, <4>3
    <3> QED
      BY <1>9, <3>1, <3>2
  <2>2. /\ Append(chain[a], e) \in Seq(Entry)
        /\ Len(Append(chain[a], e)) = Len(chain[a]) + 1
        /\ \A i \in 1..Len(chain[a]) : Append(chain[a], e)[i] = chain[a][i]
        /\ Append(chain[a], e)[Len(chain[a]) + 1] = e
    BY <1>7
  <2>3. /\ chain'[a] \in Seq(Entry) /\ DOMAIN chain'[a] = 1..Len(chain'[a])
        /\ Len(chain'[a]) = Len(chain[a]) + 1
        /\ \A i \in 1..Len(chain[a]) : chain'[a][i] = chain[a][i]
        /\ chain'[a][Len(chain[a]) + 1] = e
    BY <2>1, <2>2
  <2> QED
    BY <1>7, <1>9, <2>1, <2>3
<1> QED
  BY <1>8, <1>9

(* The COMMIT of a transfer keeps the chains of both accounts.               *)
LEMMA InsertStep ==
    ASSUME ChainInv, NEW w \in Workers, Insert(w), AccountInv'
    PROVE  ChainInv'
<1>1. Forget(w) /\ End(w) /\ pc[w] = "post"
  BY DEF Insert, Post
<1>2. /\ tx' \in [Workers -> 0..requests'] /\ prev' \in [Workers -> Seq(Nat)]
      /\ tx'[w] = Genesis /\ prev'[w] = <<>> /\ pc'[w] = "idle"
      /\ \A v \in Workers \ {w} : /\ tx'[v] = tx[v] /\ prev'[v] = prev[v]
                                  /\ pc'[v] = pc[v]
                                  /\ source'[v] = source[v] /\ target'[v] = target[v]
      /\ requests' = requests /\ requests' \in Nat
  BY <1>1, ForgetStep
<1>3. ChainTypeOK'
  <2>1. chain' \in [Accounts -> Seq(Entry)]
    <3>1. chain' = [a \in Accounts |-> chain'[a]]
      BY DEF Insert, ChainInv, ChainTypeOK
    <3> QED
      BY <3>1, InsertExtends
  <2>2. ASSUME NEW v \in Workers
        PROVE  /\ Len(prev'[v]) <= 2
               /\ pc'[v] # "post" => prev'[v] = <<>>
               /\ (tx'[v] = Genesis) <=> (pc'[v] = "idle")
    <3>1. CASE v = w
      BY <1>2, <3>1
    <3>2. CASE v # w
      <4>1. tx'[v] = tx[v] /\ prev'[v] = prev[v] /\ pc'[v] = pc[v]
        BY <1>2, <3>2
      <4>2. (tx[v] = Genesis) <=> (pc[v] = "idle")
        BY DEF ChainInv, ChainTypeOK
      <4> QED
        BY <4>1, <4>2 DEF ChainInv, ChainTypeOK
    <3> QED
      BY <3>1, <3>2
  <2> QED
    BY <1>2, <2>1, <2>2 DEF ChainTypeOK, AccountInv
<1>4. HashInv'
  <2>1. ASSUME NEW a \in Accounts, NEW i \in DOMAIN chain'[a]
        PROVE  Follows(a, chain[a][i].prev, i - 1)'
    <3>1. PICK n : n = Len(chain[a])
      OBVIOUS
    <3>2. /\ n \in Nat /\ DOMAIN chain[a] = 1..n
          /\ DOMAIN chain'[a] = 1..Len(chain'[a])
          /\ \A k \in 1..n : chain'[a][k] = chain[a][k]
          /\ \/ chain'[a] = chain[a]
             \/ /\ Len(chain'[a]) = n + 1
                /\ Follows(a, chain'[a][n + 1].prev, n)
      BY <3>1, InsertExtends
    <3>3. CASE i \in 1..n
      <4>1. Follows(a, chain[a][i].prev, i - 1) /\ chain'[a][i] = chain[a][i]
        BY <3>2, <3>3 DEF ChainInv, HashInv
      <4>2. \A k \in 1..(i - 1) : k \in 1..n
        BY <3>2, <3>3
      <4> QED
        BY <3>2, <4>1, <4>2 DEF Follows
    <3>4. CASE i \notin 1..n
      <4>1. i = n + 1 /\ Follows(a, chain'[a][i].prev, n)
        BY <3>1, <3>2, <3>4, <2>1
      <4>2. i - 1 = n
        BY <3>2, <4>1
      <4> QED
        BY <3>2, <4>1, <4>2 DEF Follows
    <3> QED
      BY <3>3, <3>4
  <2> QED
    BY <2>1 DEF HashInv
<1>5. ASSUME NEW a \in Accounts
      PROVE  /\ DOMAIN chain[a] \subseteq DOMAIN chain'[a]
             /\ \A i \in DOMAIN chain[a] :
                  /\ chain'[a][i].tx = chain[a][i].tx
                  /\ chain[a][i].tx \in Nat \ {Genesis}
             /\ \/ DOMAIN chain'[a] = DOMAIN chain[a]
                \/ \E m \in Nat : /\ m \notin DOMAIN chain[a]
                                  /\ DOMAIN chain'[a] = DOMAIN chain[a] \cup {m}
                                  /\ chain'[a][m].tx = tx[w]
  <2>1. PICK n : n = Len(chain[a])
    OBVIOUS
  <2>2. /\ n \in Nat /\ DOMAIN chain[a] = 1..n
        /\ DOMAIN chain'[a] = 1..Len(chain'[a])
        /\ \A k \in 1..n : chain'[a][k] = chain[a][k]
        /\ \/ chain'[a] = chain[a]
           \/ Len(chain'[a]) = n + 1 /\ chain'[a][n + 1].tx = tx[w]
    BY <2>1, InsertExtends
  <2>3. \A i \in DOMAIN chain[a] : chain[a][i] \in Entry
    BY DEF ChainInv, ChainTypeOK
  <2>4. \A i \in DOMAIN chain[a] : /\ chain'[a][i].tx = chain[a][i].tx
                                   /\ chain[a][i].tx \in Nat \ {Genesis}
    BY <2>2, <2>3 DEF Entry
  <2>5. CASE Len(chain'[a]) = n + 1 /\ chain'[a][n + 1].tx = tx[w]
    <3>1. n + 1 \in Nat /\ n + 1 \notin 1..n /\ 1..(n + 1) = 1..n \cup {n + 1}
      BY <2>2
    <3> QED
      BY <2>2, <2>4, <2>5, <3>1
  <2> QED
    BY <2>2, <2>4, <2>5
<1>6. /\ tx[w] \in Nat \ {Genesis} /\ tx[w] <= requests /\ requests \in Nat
      /\ \A a \in Accounts : \A i \in DOMAIN chain[a] : chain[a][i].tx # tx[w]
      /\ \A v \in Workers \ {w} : tx[v] # tx[w]
  BY <1>1 DEF ChainInv, ChainTypeOK, AccountInv, AccountTypeOK, TxInv
<1>7. NewestInv'
  <2>1. ASSUME NEW a \in Accounts, chain'[a] # <<>>
        PROVE  \E i \in DOMAIN chain'[a] : \A j \in DOMAIN chain'[a] : chain'[a][j].tx <= chain'[a][i].tx
    <3>1. CASE DOMAIN chain'[a] = DOMAIN chain[a]
      <4>1. chain[a] # <<>>
        BY <2>1, <3>1, InsertExtends DEF ChainInv, ChainTypeOK
      <4>2. PICK i \in DOMAIN chain[a] : Newest(a, i)
        BY <4>1 DEF ChainInv, NewestInv
      <4> QED
        BY <1>5, <3>1, <4>2 DEF Newest
    <3>2. ASSUME NEW m \in Nat, m \notin DOMAIN chain[a], chain'[a][m].tx = tx[w],
                 DOMAIN chain'[a] = DOMAIN chain[a] \cup {m}
          PROVE  \E i \in DOMAIN chain'[a] : \A j \in DOMAIN chain'[a] : chain'[a][j].tx <= chain'[a][i].tx
      <4>1. CASE chain[a] = <<>>
        BY <1>6, <3>2, <4>1
      <4>2. CASE chain[a] # <<>>
        <5>1. PICK i \in DOMAIN chain[a] : Newest(a, i)
          BY <4>2 DEF ChainInv, NewestInv
        <5>2. CASE tx[w] <= chain[a][i].tx
          <6>1. \A j \in DOMAIN chain'[a] : chain'[a][j].tx <= chain'[a][i].tx
            BY <1>5, <3>2, <5>1, <5>2 DEF Newest
          <6> QED
            BY <3>2, <6>1
        <5>3. CASE ~(tx[w] <= chain[a][i].tx)
          <6>1. \A j \in DOMAIN chain'[a] : chain'[a][j].tx <= chain'[a][m].tx
            BY <1>5, <1>6, <3>2, <5>1, <5>3 DEF Newest
          <6> QED
            BY <3>2, <6>1
        <5> QED
          BY <5>2, <5>3
      <4> QED
        BY <4>1, <4>2
    <3> QED
      BY <1>5, <3>1, <3>2
  <2> QED
    BY <2>1 DEF NewestInv, Newest
<1>8. TxInv'
  <2>1. ASSUME NEW a \in Accounts, NEW i \in DOMAIN chain'[a], NEW j \in DOMAIN chain'[a],
               chain'[a][i].tx = chain'[a][j].tx
        PROVE  i = j
    BY <1>5, <1>6, <2>1 DEF ChainInv, TxInv
  <2>2. ASSUME NEW a \in Accounts, NEW i \in DOMAIN chain'[a]
        PROVE  chain'[a][i].tx <= requests'
    <3>1. CASE i \in DOMAIN chain[a]
      <4>1. chain[a][i].tx <= requests
        BY <3>1 DEF ChainInv, TxInv
      <4>2. chain'[a][i].tx = chain[a][i].tx /\ requests' = requests
        BY <1>2, <1>5, <3>1
      <4> QED
        BY ONLY <4>1, <4>2
    <3>2. CASE i \notin DOMAIN chain[a]
      <4>1. chain'[a][i].tx = tx[w]
        <5>1. PICK m \in Nat : /\ DOMAIN chain'[a] = DOMAIN chain[a] \cup {m}
                               /\ chain'[a][m].tx = tx[w]
          BY <1>5, <3>2
        <5>2. i = m
          BY <3>2, <5>1
        <5> QED
          BY <5>1, <5>2
      <4>2. requests' = requests
        BY <1>2
      <4> QED
        BY <1>6, <4>1, <4>2
    <3> QED
      BY <3>1, <3>2
  <2>3. ASSUME NEW u \in Workers, NEW v \in Workers, tx'[u] = tx'[v], pc'[u] # "idle"
        PROVE  u = v
    <3>1. u # w /\ tx'[u] = tx[u] /\ pc'[u] = pc[u]
      BY <1>2, <2>3
    <3>2. tx[u] # Genesis
      BY <2>3, <3>1 DEF ChainInv, ChainTypeOK
    <3>3. v # w /\ tx'[v] = tx[v]
      BY <1>2, <2>3, <3>1, <3>2
    <3> QED
      BY <2>3, <3>1, <3>3 DEF ChainInv, TxInv
  <2>4. ASSUME NEW a \in Accounts, NEW u \in Workers, NEW i \in DOMAIN chain'[a]
        PROVE  chain'[a][i].tx # tx'[u]
    <3>1. chain'[a][i].tx # Genesis
      BY <1>5, <1>6
    <3>2. CASE u = w
      BY <1>2, <3>1, <3>2
    <3>3. CASE u # w
      <4>1. tx'[u] = tx[u] /\ tx[u] # tx[w]
        BY <1>2, <1>6, <3>3
      <4> QED
        BY <1>5, <4>1 DEF ChainInv, TxInv
    <3> QED
      BY <3>2, <3>3
  <2> QED
    BY <2>1, <2>2, <2>3, <2>4 DEF TxInv
<1>9. ReadInv'
  <2>1. ASSUME NEW v \in Workers
        PROVE  /\ Len(prev'[v]) >= 1 => Follows(source[v], prev[v][1], Len(chain[source[v]]))'
               /\ Len(prev'[v]) = 2 => Follows(target[v], prev[v][2], Len(chain[target[v]]))'
    <3>1. CASE v = w
      BY <1>2, <3>1
    <3>2. CASE v # w /\ pc[v] = "post"
      <4>1. /\ prev'[v] = prev[v] /\ source'[v] = source[v] /\ target'[v] = target[v]
        BY <1>2, <3>2
      <4>2. /\ source[v] \in Accounts /\ target[v] \in Accounts
            /\ lock[source[v]] = v /\ lock[target[v]] = v
        BY <3>2, PostHolds DEF ChainInv
      <4>3. lock[source[w]] = w /\ lock[target[w]] = w
        BY <1>1, PostHolds DEF ChainInv
      <4>4. /\ source[v] \notin {source[w], target[w]}
            /\ target[v] \notin {source[w], target[w]}
        BY <3>2, <4>2, <4>3
      <4>5. chain'[source[v]] = chain[source[v]] /\ chain'[target[v]] = chain[target[v]]
        BY <4>2, <4>4, InsertExtends
      <4> QED
        BY <4>1, <4>5 DEF ChainInv, ReadInv, Follows
    <3>3. CASE v # w /\ pc[v] # "post"
      <4>1. prev'[v] = <<>>
        BY <1>2, <3>3 DEF ChainInv, ChainTypeOK
      <4> QED
        BY <4>1
    <3> QED
      BY <3>1, <3>2, <3>3
  <2> QED
    BY <2>1 DEF ReadInv
<1> QED
  BY <1>3, <1>4, <1>7, <1>8, <1>9 DEF ChainInv

(* Every step of ledger and chain keeps the invariant.                       *)
LEMMA ChainStep ==
    ASSUME ChainInv, [ChainNext]_allVars
    PROVE  ChainInv'
<1>1. [Next]_vars
  BY ChainNextIsNext DEF allVars
<1>2. AccountInv'
  BY <1>1, AccountNext DEF ChainInv
<1> QED
  BY <1>2, OtherStep, ReadHashStep, InsertStep, RollBackStep DEF ChainNext

(* The ledger with its chains keeps types, locks and hashes.                 *)
THEOREM ChainKept == ChainSpec => []ChainInv
BY ChainStart, ChainStep, PTL DEF ChainSpec

(* Types of ledger and chain, in every reachable state.                      *)
THEOREM ChainTyped == ChainSpec => []ChainTypeOK
<1>1. ChainInv => ChainTypeOK
  BY DEF ChainInv
<1> QED
  BY <1>1, ChainKept, PTL

(* The chained ledger is the ledger: no account is overdrawn in it either.   *)
THEOREM ChainNeverOverdrawn == ChainSpec => []NeverOverdrawn
<1>1. ChainInv => NeverOverdrawn
  BY DEF ChainInv, AccountInv
<1> QED
  BY <1>1, ChainKept, PTL

(* Nor do transfers that write the chain wait in a circle: its reads take no *)
(* locks.                                                                    *)
THEOREM ChainNeverDeadlocks == ChainSpec => []NoCircleOfWaits
<1>1. ChainInit => HoldInv
  BY HoldInit DEF ChainInit
<1>2. ChainInv /\ HoldInv /\ [ChainNext]_allVars => HoldInv'
  <2>1. [ChainNext]_allVars => [Next]_vars
    BY ChainNextIsNext DEF allVars
  <2> QED
    BY <2>1, HoldNext DEF ChainInv
<1>3. ChainInv /\ HoldInv => NoCircleOfWaits
  BY LocksAreOrdered DEF ChainInv
<1> QED
  BY <1>1, <1>2, <1>3, ChainKept, PTL DEF ChainSpec

(* It keeps the bank as well: what the chain records are covered payments.   *)
THEOREM ChainKeepsBank == ChainSpec => BankKept
<1>1. ChainInit => Money!Init
  BY AccountInit DEF ChainInit
<1>2. ChainInv /\ [ChainNext]_allVars => [Money!Next]_(Money!bankVars)
  BY ChainNextIsNext, AccountNext DEF ChainInv, PayStep, allVars
<1> QED
  BY <1>1, <1>2, ChainKept, PTL DEF ChainSpec, BankKept, Money!Spec

(* However transfers overlap, an account has one root, and no entry follows  *)
(* one that was rolled back.                                                 *)
THEOREM ChainsAreRooted == ChainSpec => []ChainIsRooted
<1>1. ASSUME ChainInv
      PROVE  ChainIsRooted
  <2>1. ASSUME NEW a \in Accounts, NEW i \in DOMAIN chain[a]
        PROVE  IF i = 1 THEN chain[a][i].prev = Genesis
               ELSE \E j \in 1..(i - 1) : chain[a][j].tx = chain[a][i].prev
    <3>1. Follows(a, chain[a][i].prev, i - 1)
      BY <1>1 DEF ChainInv, HashInv
    <3>2. i \in Nat /\ i > 0
      BY <1>1 DEF ChainInv, ChainTypeOK
    <3>3. i = 1 => i - 1 = 0
      OBVIOUS
    <3>4. i # 1 => i - 1 > 0
      BY <3>2
    <3> QED
      BY <3>1, <3>3, <3>4 DEF Follows
  <2> QED
    BY <2>1 DEF ChainIsRooted
<1> QED
  BY <1>1, ChainKept, PTL

(* Two entries follow the same predecessor only when the first of them began *)
(* before that predecessor: the transfers overlapped.                        *)
THEOREM ForksNeedOverlap == ChainSpec => []ForksComeFromOverlap
<1>1. ASSUME ChainInv
      PROVE  ForksComeFromOverlap
  <2>1. ASSUME NEW a \in Accounts, NEW i \in DOMAIN chain[a], NEW j \in DOMAIN chain[a],
               i < j, chain[a][i].prev = chain[a][j].prev
        PROVE  chain[a][i].tx < chain[a][i].prev
    <3>1. /\ i \in Nat /\ j \in Nat /\ i > 0 /\ i \in 1..(j - 1) /\ j - 1 > 0
          /\ DOMAIN chain[a] = 1..Len(chain[a]) /\ Len(chain[a]) \in Nat
      BY <1>1, <2>1 DEF ChainInv, ChainTypeOK
    <3>2. chain[a][i] \in Entry /\ chain[a][j] \in Entry
      BY <1>1 DEF ChainInv, ChainTypeOK
    <3>3. PICK p : p = chain[a][i].prev
      OBVIOUS
    <3>4. Follows(a, p, i - 1) /\ Follows(a, p, j - 1) /\ p \in Nat
      BY <1>1, <2>1, <3>2, <3>3 DEF ChainInv, HashInv, Entry
    <3>5. chain[a][i].tx <= p /\ chain[a][i].tx \in Nat \ {Genesis}
      BY <3>1, <3>2, <3>4 DEF Follows, Entry
    <3>6. chain[a][i].tx # p
      <4>1. CASE i - 1 = 0
        BY <3>4, <3>5, <4>1 DEF Follows
      <4>2. CASE i - 1 > 0
        <5>1. PICK k \in 1..(i - 1) : chain[a][k].tx = p
          BY <3>4, <4>2 DEF Follows
        <5>2. k \in DOMAIN chain[a] /\ k # i
          BY <2>1, <3>1, <5>1
        <5> QED
          BY <1>1, <5>1, <5>2 DEF ChainInv, TxInv
      <4> QED
        BY <3>1, <4>1, <4>2
    <3> QED
      BY <3>3, <3>4, <3>5, <3>6
  <2> QED
    BY <2>1 DEF ForksComeFromOverlap
<1> QED
  BY <1>1, ChainKept, PTL
==============================================================================
