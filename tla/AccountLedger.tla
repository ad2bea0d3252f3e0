---------------------------- MODULE AccountLedger ----------------------------
(****************************************************************************)
(* Transfers of money between accounts (LedgerService.executeTransfer) on   *)
(* the node-postgres pool, at READ COMMITTED.                               *)
(*                                                                          *)
(* A worker takes both accounts FOR UPDATE in the order of their ids, then  *)
(* reads the source again, and keeps the locks to the COMMIT.  From there   *)
(* on it works on rows nobody else can write: the two UPDATEs, the two      *)
(* entries and the COMMIT are one action.                                   *)
(****************************************************************************)
EXTENDS Integers

CONSTANTS
    Workers,     \* transfers that can be in service at the same time
    NoWorker,    \* the holder of a free account
    Accounts,    \* account ids clients may name
    NoAccount,   \* the account of a worker that serves no transfer
    Rank,        \* the order `sort` puts the ids in
    Opened,      \* the accounts that exist at the start
    Funding,     \* and their balances
    Amounts,     \* the amounts clients ask for (DTO: at least 1)
    MaxRequests  \* bound: how many transfers clients ask for in a behaviour

ASSUME ActorAssumption == NoWorker \notin Workers /\ NoAccount \notin Accounts
ASSUME RankAssumption ==
    /\ Rank \in [Accounts -> Int]
    /\ \A a, b \in Accounts : Rank[a] = Rank[b] => a = b
ASSUME FundingAssumption ==
    /\ Opened \subseteq Accounts
    /\ Funding \in [Accounts -> Nat]
    /\ \A a \in Accounts \ Opened : Funding[a] = 0
ASSUME AmountAssumption == Amounts \subseteq Nat \ {0} /\ MaxRequests \in Nat

VARIABLES
    opened,    \* accounts with a row in account_snapshots
    balance,   \* account_snapshots.balance
    entries,   \* SUM(amount) of the ledger_entries of an account
    lock,      \* the worker that holds the account FOR UPDATE
    pc,        \* the statement a worker runs next
    source,    \* the transfer it serves
    target,
    amount,
    requests   \* transfers begun so far

bookVars == <<opened, balance, entries>>
jobVars == <<source, target, amount, requests>>
vars == <<bookVars, lock, pc, jobVars>>

Init ==
    /\ opened = Opened
    /\ balance = Funding
    /\ entries = [a \in Accounts |-> 0]
    /\ lock = [a \in Accounts |-> NoWorker]
    /\ pc = [w \in Workers |-> "idle"]
    /\ source = [w \in Workers |-> NoAccount]
    /\ target = [w \in Workers |-> NoAccount]
    /\ amount = [w \in Workers |-> 0]
    /\ requests = 0

(* POST /ledger/accounts: a new account, balance 0.  Its id is generated, so *)
(* no transfer in service names it.                                          *)
CreateAccount(a) ==
    /\ a \notin opened
    /\ \A w \in Workers : a \notin {source[w], target[w]}
    /\ opened' = opened \cup {a}
    /\ UNCHANGED <<balance, entries, lock, pc, jobVars>>

(* BEGIN and the SELECT of the source.  A source that is not the sender's    *)
(* (404) and a transfer to itself (400) end here and change nothing.         *)
Begin(w, s, t, sum) ==
    /\ pc[w] = "idle"
    /\ requests < MaxRequests
    /\ s \in opened
    /\ s # t
    /\ pc' = [pc EXCEPT ![w] = "lock"]
    /\ source' = [source EXCEPT ![w] = s]
    /\ target' = [target EXCEPT ![w] = t]
    /\ amount' = [amount EXCEPT ![w] = sum]
    /\ requests' = requests + 1
    /\ UNCHANGED <<bookVars, lock>>

(* Mutant: the accounts are locked in the order payer, payee.                *)
First_Unsorted(w) == source[w]

(* [sourceAccountId, targetAccountId].sort() *)
First(w) == IF Rank[source[w]] < Rank[target[w]] THEN source[w] ELSE target[w]
Second(w) == IF First(w) = source[w] THEN target[w] ELSE source[w]

(* Mutant: FOR UPDATE is missing.                                            *)
Lock_Nothing(w, a, from, to) ==
    /\ pc[w] = from
    /\ pc' = [pc EXCEPT ![w] = to]
    /\ UNCHANGED <<bookVars, lock, jobVars>>

(* SELECT ... FOR UPDATE waits for the holder; a missing row locks nothing.  *)
Lock(w, a, from, to) ==
    /\ pc[w] = from
    /\ lock[a] = NoWorker
    /\ lock' = IF a \in opened THEN [lock EXCEPT ![a] = w] ELSE lock
    /\ pc' = [pc EXCEPT ![w] = to]
    /\ UNCHANGED <<bookVars, jobVars>>

LockFirst(w) == Lock(w, First(w), "lock", "lock2")

LockSecond(w) == Lock(w, Second(w), "lock2", "check")

(* COMMIT or ROLLBACK, and client.release(). *)
End(w) ==
    /\ lock' = [a \in Accounts |-> IF lock[a] = w THEN NoWorker ELSE lock[a]]
    /\ pc' = [pc EXCEPT ![w] = "idle"]
    /\ source' = [source EXCEPT ![w] = NoAccount]
    /\ target' = [target EXCEPT ![w] = NoAccount]
    /\ amount' = [amount EXCEPT ![w] = 0]
    /\ UNCHANGED requests

Sound(w) == balance[source[w]] >= amount[w] /\ target[w] \in opened

(* The fresh balance and the target's row decide. *)
Check(w) ==
    /\ pc[w] = "check"
    /\ Sound(w)
    /\ pc' = [pc EXCEPT ![w] = "post"]
    /\ UNCHANGED <<bookVars, lock, jobVars>>

(* Insufficient funds (400) or no target account (404): the exception rolls  *)
(* back.                                                                     *)
Refuse(w) ==
    /\ pc[w] = "check"
    /\ ~Sound(w)
    /\ End(w)
    /\ UNCHANGED bookVars

(* Mutant: the credit is booked with the id of the payer.                    *)
Post_OneAccount(w) ==
    /\ pc[w] = "post"
    /\ balance' = [balance EXCEPT ![source[w]] = @ - amount[w],
                                  ![target[w]] = @ + amount[w]]
    /\ End(w)
    /\ UNCHANGED <<opened, entries>>

(* `balance - $1`, `balance + $1` and an entry for each account. *)
Post(w) ==
    /\ pc[w] = "post"
    /\ balance' = [balance EXCEPT ![source[w]] = @ - amount[w],
                                  ![target[w]] = @ + amount[w]]
    /\ entries' = [entries EXCEPT ![source[w]] = @ - amount[w],
                                  ![target[w]] = @ + amount[w]]
    /\ End(w)
    /\ UNCHANGED opened

(* A statement fails or the connection is lost before the COMMIT. *)
Fail(w) ==
    /\ pc[w] # "idle"
    /\ End(w)
    /\ UNCHANGED bookVars

Step(w) == LockFirst(w) \/ LockSecond(w) \/ Check(w) \/ Refuse(w) \/ Post(w)

Next ==
    \/ \E a \in Accounts : CreateAccount(a)
    \/ \E w \in Workers :
         \/ \E s, t \in Accounts, sum \in Amounts : Begin(w, s, t, sum)
         \/ Step(w)
         \/ Fail(w)

(* A transfer in service runs on; only a row lock holds it up, and nothing   *)
(* here breaks a circle of waits.                                            *)
Fairness == \A w \in Workers : WF_vars(Step(w))

Spec == Init /\ [][Next]_vars /\ Fairness

------------------------------------------------------------------------------
(* Properties *)

AccountTypeOK ==
    /\ opened \in SUBSET Accounts
    /\ balance \in [Accounts -> Int]
    /\ entries \in [Accounts -> Int]
    /\ lock \in [Accounts -> Workers \cup {NoWorker}]
    /\ pc \in [Workers -> {"idle", "lock", "lock2", "check", "post"}]
    /\ source \in [Workers -> Accounts \cup {NoAccount}]
    /\ target \in [Workers -> Accounts \cup {NoAccount}]
    /\ amount \in [Workers -> Nat]
    /\ requests \in Nat

(* However many transfers leave an account at the same time, the balance it  *)
(* was checked for is still there when it is taken (ledger.concurrency.spec: *)
(* five of ten transfers of a fifth of the balance succeed).                 *)
NeverOverdrawn == \A a \in Accounts : balance[a] >= 0

(* Every transfer in service is answered without a deadlock detector: both   *)
(* locks are taken in the order of the ids.                                  *)
EveryTransferAnswered == \A w \in Workers : pc[w] # "idle" ~> pc[w] = "idle"

(* Concurrent transfers look as if each were made in one step (Bank).        *)
Money == INSTANCE Bank WITH held <- balance, booked <- entries
BankKept == Money!Spec
==============================================================================
