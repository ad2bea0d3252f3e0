----------------------------- MODULE AccountChain -----------------------------
(****************************************************************************)
(* The hash chain of ledger_entries.  Each entry carries the hash of "the   *)
(* last" entry of its account, where last is the one with the latest        *)
(* created_at, and created_at defaults to NOW(), the time of the BEGIN.     *)
(* Transfers commit in another order than they begin.                       *)
(*                                                                          *)
(* A hash is as good as the transaction it was made in: an account has one  *)
(* entry per transaction.  Transactions are named by the order of their     *)
(* BEGINs, so that the name is also the time stamp.                         *)
(****************************************************************************)
EXTENDS AccountLedger, Sequences

CONSTANT
    Genesis      \* GENESIS_HASH

ASSUME GenesisAssumption == Genesis = 0

VARIABLES
    chain,     \* the committed entries of an account, in the order of the COMMITs
    tx,        \* the transaction of a worker: its transaction_id and its NOW()
    prev       \* the hashes a worker has read: the payer's, then the payee's

chainVars == <<chain, tx, prev>>
allVars == <<vars, chainVars>>

ChainInit ==
    /\ Init
    /\ chain = [a \in Accounts |-> <<>>]
    /\ tx = [w \in Workers |-> Genesis]
    /\ prev = [w \in Workers |-> <<>>]

OpenAccount(a) == CreateAccount(a) /\ UNCHANGED chainVars

BeginTransfer(w, s, t, sum) ==
    /\ Begin(w, s, t, sum)
    /\ tx' = [tx EXCEPT ![w] = requests + 1]
    /\ UNCHANGED <<chain, prev>>

Advance(w) ==
    /\ LockFirst(w) \/ LockSecond(w) \/ Check(w)
    /\ UNCHANGED chainVars

(* Mutant: ORDER BY created_at, without DESC.                                *)
Newest_Oldest(a, i) == \A j \in DOMAIN chain[a] : chain[a][i].tx <= chain[a][j].tx

(* ORDER BY created_at DESC LIMIT 1 *)
Newest(a, i) == \A j \in DOMAIN chain[a] : chain[a][j].tx <= chain[a][i].tx

LastEntryHash(a) ==
    IF chain[a] = <<>> THEN Genesis
    ELSE chain[a][CHOOSE i \in DOMAIN chain[a] : Newest(a, i)].tx

(* Both UPDATEs are done; getLastEntryHash for one account after the other.  *)
(* What the worker itself inserted is an entry of the other account.         *)
ReadHash(w) ==
    /\ pc[w] = "post"
    /\ Len(prev[w]) < 2
    /\ prev' = [prev EXCEPT ![w] =
           Append(@, LastEntryHash(IF @ = <<>> THEN source[w] ELSE target[w]))]
    /\ UNCHANGED <<vars, chain, tx>>

(* Mutant: the hashes of one request are still there in the next.            *)
Forget_KeepsHashes(w) ==
    /\ tx' = [tx EXCEPT ![w] = Genesis]
    /\ UNCHANGED prev

(* The worker's transaction is over. *)
Forget(w) ==
    /\ tx' = [tx EXCEPT ![w] = Genesis]
    /\ prev' = [prev EXCEPT ![w] = <<>>]

(* Both entries become visible with the COMMIT. *)
Insert(w) ==
    /\ Len(prev[w]) = 2
    /\ Post(w)
    /\ chain' = [chain EXCEPT
           ![source[w]] = Append(@, [tx |-> tx[w], prev |-> prev[w][1]]),
           ![target[w]] = Append(@, [tx |-> tx[w], prev |-> prev[w][2]])]
    /\ Forget(w)

(* A refusal or a failure: nothing the transaction inserted remains. *)
RollBack(w) ==
    /\ Refuse(w) \/ Fail(w)
    /\ Forget(w)
    /\ UNCHANGED chain

ChainNext ==
    \/ \E a \in Accounts : OpenAccount(a)
    \/ \E w \in Workers :
         \/ \E s, t \in Accounts, sum \in Amounts : BeginTransfer(w, s, t, sum)
         \/ Advance(w)
         \/ ReadHash(w)
         \/ Insert(w)
         \/ RollBack(w)

(* A transfer in service runs on to its answer. *)
ChainFairness == \A w \in Workers :
    WF_allVars(Advance(w) \/ ReadHash(w) \/ Insert(w) \/ (Refuse(w) /\ RollBack(w)))

ChainSpec == ChainInit /\ [][ChainNext]_allVars /\ ChainFairness

------------------------------------------------------------------------------
(* Properties *)

Entry == [tx : Nat \ {Genesis}, prev : Nat]

ChainTypeOK ==
    /\ AccountTypeOK
    /\ chain \in [Accounts -> Seq(Entry)]
    /\ tx \in [Workers -> 0..requests]
    /\ prev \in [Workers -> Seq(Nat)]
    /\ \A w \in Workers :
         /\ Len(prev[w]) <= 2
         /\ pc[w] # "post" => prev[w] = <<>>
         /\ (tx[w] = Genesis) <=> (pc[w] = "idle")

(* Every account has one root: its first entry, and only that one, follows   *)
(* GENESIS_HASH, and every other entry follows one that was committed before *)
(* it, never one that was rolled back (getLastEntryHash under the row locks).*)
ChainIsRooted ==
    \A a \in Accounts : \A i \in DOMAIN chain[a] :
        IF i = 1 THEN chain[a][i].prev = Genesis
        ELSE \E j \in 1..(i - 1) : chain[a][j].tx = chain[a][i].prev

(* An entry that a later one passes over, following the same predecessor,    *)
(* began before that predecessor did and was committed after it: created_at  *)
(* is the time of the BEGIN.  Transfers that do not overlap make a line.     *)
ForksComeFromOverlap ==
    \A a \in Accounts : \A i, j \in DOMAIN chain[a] :
        (i < j /\ chain[a][i].prev = chain[a][j].prev)
            => chain[a][i].tx < chain[a][i].prev
==============================================================================
