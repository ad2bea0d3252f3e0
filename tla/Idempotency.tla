----------------------------- MODULE Idempotency -----------------------------
(****************************************************************************)
(* POST /ledger: the idempotency interceptor in front of executeTransfer,   *)
(* with clients that retry.  GET and SET are two commands of Redis, the     *)
(* handler runs between them and the SET of the answer, and nothing takes   *)
(* the PROCESSING mark back when the handler fails.                         *)
(*                                                                          *)
(* A key stands for idempotency:<user>:<header>; a client sends the same    *)
(* body with every attempt.  Requests without a key or a user go straight   *)
(* to the handler: they are the workers of AccountLedger.                   *)
(****************************************************************************)
EXTENDS AccountLedger

CONSTANTS
    Keys,       \* idempotency keys
    NoKey,      \* the key of a worker that serves no attempt
    Order,      \* the transfer a client asks for under a key
    Careful,    \* keys whose client waits for an answer before it tries again
    MaxAttempts \* bound: how many attempts clients make in a behaviour

ASSUME KeyAssumption == NoKey \notin Keys /\ Careful \subseteq Keys
ASSUME OrderAssumption ==
    /\ Order \in [Keys -> [source : Accounts, target : Accounts, amount : Amounts]]
    /\ MaxAttempts \in Nat /\ MaxAttempts <= MaxRequests

VARIABLES
    cache,      \* what Redis holds under a key
    stage,      \* how far the interceptor is with the attempt of a worker
    key,        \* the key of that attempt
    attempts,   \* attempts made so far
    paid,       \* transfers committed under a key
    expired,    \* how often Redis has dropped a key
    answered    \* keys for which a client has got the answer of a transfer

cacheVars == <<cache, expired>>
deskVars == <<stage, key, attempts>>
toldVars == <<paid, answered>>
shopVars == <<cacheVars, deskVars, toldVars>>
allVars == <<vars, shopVars>>

Absent == [status |-> "ABSENT", EX |-> 0]
PROCESSING == [status |-> "PROCESSING", EX |-> 120]
COMPLETED == [status |-> "COMPLETED", EX |-> 86400]

ShopInit ==
    /\ Init
    /\ cache = [k \in Keys |-> Absent]
    /\ stage = [w \in Workers |-> "none"]
    /\ key = [w \in Workers |-> NoKey]
    /\ attempts = 0
    /\ paid = [k \in Keys |-> 0]
    /\ expired = [k \in Keys |-> 0]
    /\ answered = {}

Leave(w) ==
    /\ stage' = [stage EXCEPT ![w] = "none"]
    /\ key' = [key EXCEPT ![w] = NoKey]
    /\ UNCHANGED attempts

Goto(w, there) ==
    /\ stage' = [stage EXCEPT ![w] = there]
    /\ UNCHANGED <<key, attempts>>

(* An attempt reaches a free worker, the first one or a retry.               *)
Arrive(w, k) ==
    /\ stage[w] = "none"
    /\ attempts < MaxAttempts
    /\ k \in Careful => \A v \in Workers : key[v] # k
    /\ stage' = [stage EXCEPT ![w] = "get"]
    /\ key' = [key EXCEPT ![w] = k]
    /\ attempts' = attempts + 1
    /\ UNCHANGED <<vars, cacheVars, toldVars>>

(* Mutant: a PROCESSING mark does not turn a request away.                   *)
Unclaimed_Processing(k) == cache[k] \in {Absent, PROCESSING}

Unclaimed(k) == cache[k] = Absent

(* Mutant: anything cached is replayed.                                      *)
Replayable_Any(k) == cache[k] # Absent

Replayable(k) == cache[k].status = "COMPLETED"

GetNothing(w) ==
    /\ stage[w] = "get"
    /\ Unclaimed(key[w])
    /\ Goto(w, "set")
    /\ UNCHANGED <<vars, cacheVars, toldVars>>

(* "A matching concurrent transaction is actively processing": 400.          *)
GetProcessing(w) ==
    /\ stage[w] = "get"
    /\ ~Unclaimed(key[w]) /\ ~Replayable(key[w])
    /\ Leave(w)
    /\ UNCHANGED <<vars, cacheVars, toldVars>>

Replay(w) ==
    /\ stage[w] = "get"
    /\ Replayable(key[w])
    /\ answered' = answered \cup {key[w]}
    /\ Leave(w)
    /\ UNCHANGED <<vars, cacheVars, paid>>

(* Mutant: no EX.                                                            *)
SetProcessing_Forever(w) ==
    /\ stage[w] = "set"
    /\ cache' = [cache EXCEPT ![key[w]] = [status |-> "PROCESSING", EX |-> 0]]
    /\ Goto(w, "handle")
    /\ UNCHANGED <<vars, expired, toldVars>>

(* SET without NX: it takes the key whatever is there by now. *)
SetProcessing(w) ==
    /\ stage[w] = "set"
    /\ cache' = [cache EXCEPT ![key[w]] = PROCESSING]
    /\ Goto(w, "handle")
    /\ UNCHANGED <<vars, expired, toldVars>>

(* The handler begins its transaction with the body of the request. *)
Handle(w) ==
    /\ stage[w] = "handle"
    /\ LET order == Order[key[w]]
       IN  Begin(w, order.source, order.target, order.amount)
    /\ UNCHANGED shopVars

(* No account of the sender (404), or a transfer to itself (400): the        *)
(* exception passes the interceptor, and the mark stays.                     *)
TurnAway(w) ==
    /\ stage[w] = "handle"
    /\ pc[w] = "idle"
    /\ Order[key[w]].source \notin opened \/ Order[key[w]].source = Order[key[w]].target
    /\ Leave(w)
    /\ UNCHANGED <<vars, cacheVars, toldVars>>

Advance(w) ==
    /\ stage[w] = "handle"
    /\ LockFirst(w) \/ LockSecond(w) \/ Check(w)
    /\ UNCHANGED shopVars

(* The transfer is committed; its answer is not cached yet. *)
Pay(w) ==
    /\ stage[w] = "handle"
    /\ Post(w)
    /\ paid' = [paid EXCEPT ![key[w]] = @ + 1]
    /\ Goto(w, "store")
    /\ UNCHANGED <<cacheVars, answered>>

(* Too little money or no target: the exception passes it in the same way.   *)
Deny(w) ==
    /\ stage[w] = "handle"
    /\ Refuse(w)
    /\ Leave(w)
    /\ UNCHANGED <<cacheVars, toldVars>>

(* The transfer fails in the database. *)
Throw(w) ==
    /\ stage[w] = "handle"
    /\ Fail(w)
    /\ Leave(w)
    /\ UNCHANGED <<cacheVars, toldVars>>

(* Redis or the pool fails, a pipe rejects the body, or the process ends     *)
(* between two steps: 500, 400 or no answer at all.                          *)
Drop(w) ==
    /\ stage[w] \in {"get", "set", "handle", "store"}
    /\ pc[w] = "idle"
    /\ Leave(w)
    /\ UNCHANGED <<vars, cacheVars, toldVars>>

(* The answer is cached for a day and sent. *)
Store(w) ==
    /\ stage[w] = "store"
    /\ cache' = [cache EXCEPT ![key[w]] = COMPLETED]
    /\ answered' = answered \cup {key[w]}
    /\ Leave(w)
    /\ UNCHANGED <<vars, expired, paid>>

(* Redis drops a key whose time is over, whoever works on it.                *)
Expire(k) ==
    /\ cache[k].EX > 0
    /\ cache' = [cache EXCEPT ![k] = Absent]
    /\ expired' = [expired EXCEPT ![k] = @ + 1]
    /\ UNCHANGED <<vars, deskVars, toldVars>>

Serve(w) ==
    \/ GetNothing(w) \/ GetProcessing(w) \/ Replay(w) \/ SetProcessing(w)
    \/ Handle(w) \/ TurnAway(w) \/ Advance(w) \/ Deny(w) \/ Pay(w) \/ Store(w)

ShopNext ==
    \/ \E w \in Workers :
         \/ \E k \in Keys : Arrive(w, k)
         \/ Serve(w)
         \/ Throw(w)
         \/ Drop(w)
    \/ \E k \in Keys : Expire(k)

(* An attempt in service runs on, and Redis drops a key when its time is     *)
(* over.                                                                     *)
ShopFairness ==
    /\ \A w \in Workers : WF_allVars(Serve(w))
    /\ \A k \in Keys : WF_allVars(Expire(k))

ShopSpec == ShopInit /\ [][ShopNext]_allVars /\ ShopFairness

------------------------------------------------------------------------------
(* Properties *)

ShopTyped ==
    /\ cache \in [Keys -> {Absent, PROCESSING, COMPLETED}]
    /\ stage \in [Workers -> {"none", "get", "set", "handle", "store"}]
    /\ key \in [Workers -> Keys \cup {NoKey}]
    /\ attempts \in Nat
    /\ paid \in [Keys -> Nat]
    /\ expired \in [Keys -> Nat]
    /\ answered \in SUBSET Keys
    /\ \A w \in Workers : (key[w] = NoKey) <=> (stage[w] = "none")

(* The types of Redis, the interceptor and the transfers behind it.          *)
ShopTypeOK == AccountTypeOK /\ ShopTyped

(* A client that waits for each answer before it tries again pays once, and  *)
(* once more at most for each time Redis forgot the key: whatever fails      *)
(* between the mark, the COMMIT and the stored answer, the mark or the       *)
(* answer turns the retry away.                                              *)
RetriesPayOnce == \A k \in Careful : paid[k] <= 1 + expired[k]

(* The same for every client, the one that sends its retry while the first   *)
(* attempt is on its way included.                                           *)
KeysPayOnce == \A k \in Keys : paid[k] <= 1 + expired[k]

(* Nobody is told of a transfer that was not committed, not even by a replay *)
(* of an answer another attempt stored.                                      *)
AnswersArePaid ==
    \A k \in Keys : (k \in answered \/ cache[k] = COMPLETED) => paid[k] >= 1

(* A failed attempt does not close its key for ever: the PROCESSING mark     *)
(* nobody takes back goes away, by the answer or by its time.                *)
MarksGoAway ==
    \A k \in Keys : cache[k].status = "PROCESSING" ~> cache[k].status # "PROCESSING"

(* Every attempt gets an answer, its own, a replay or an error, although the *)
(* transfers behind the keys lock the same accounts.                         *)
EveryAttemptAnswered == \A w \in Workers : stage[w] # "none" ~> stage[w] = "none"
==============================================================================
