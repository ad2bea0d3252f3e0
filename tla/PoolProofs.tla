------------------------------ MODULE PoolProofs ------------------------------
(****************************************************************************)
(* Theorems about ConnectionPool, for any number of requests and            *)
(* connections.                                                             *)
(****************************************************************************)
EXTENDS ConnectionPool, SequenceTheorems, TLAPS

(* The queue names those who wait, each of them once.                        *)
QueueInv ==
    /\ \A i \in DOMAIN queue : queue[i] \in Waiting
    /\ \A i, j \in DOMAIN queue : queue[i] = queue[j] => i = j
    /\ \A r \in Waiting : \E i \in DOMAIN queue : queue[i] = r

(* Somebody waits only while every connection is held.                       *)
FullInv == queue # <<>> => \A c \in Connections : holder[c] # Nobody

(* A nested query is one of those still to be made.                          *)
AgainInv == \A r \in Requests : stage[r] \in {"waitAgain", "reread"} => rereads[r] > 0

PoolInv == PoolTypeOK /\ QueueInv /\ FullInv /\ NothingLeaks

(* At the start all connections are idle and nobody waits.                   *)
LEMMA PoolInit == Init => PoolInv
BY NobodyAssumption
   DEF Init, PoolInv, PoolTypeOK, QueueInv, FullInv, NothingLeaks, Fits, HeldBy, Waiting

(* What a sequence holds without one of its members.                         *)
LEMMA RemoveAtFacts ==
    ASSUME NEW S, NEW s \in Seq(S), NEW i \in DOMAIN s
    PROVE  /\ RemoveAt(s, i) \in Seq(S)
           /\ Len(RemoveAt(s, i)) = Len(s) - 1
           /\ \A j \in 1..(Len(s) - 1) :
                RemoveAt(s, i)[j] = IF j < i THEN s[j] ELSE s[j + 1]
<1> DEFINE f == SubSeq(s, 1, i - 1)
           g == SubSeq(s, i + 1, Len(s))
<1>1. i \in 1..Len(s) /\ Len(s) \in Nat
  OBVIOUS
<1>2. /\ f \in Seq(S) /\ Len(f) = i - 1
      /\ \A j \in 1..(i - 1) : f[j] = s[j]
  BY <1>1
<1>3. /\ g \in Seq(S) /\ Len(g) = Len(s) - i
      /\ \A j \in 1..(Len(s) - i) : g[j] = s[i + j]
  BY <1>1
<1>4. RemoveAt(s, i) = f \o g
  BY DEF RemoveAt
<1> HIDE DEF f, g
<1> QED
  BY <1>1, <1>2, <1>3, <1>4

(* A request that gets a connection at once: nobody waits.                   *)
LEMMA ConnectStep ==
    ASSUME PoolInv, NEW r \in Requests, NEW working, NEW waiting,
           Connect(r, working, waiting), UNCHANGED mode, rereads' \in [Requests -> 0..2],
           \/ stage[r] = "none" /\ working = "work" /\ waiting = "wait"
           \/ stage[r] = "work" /\ working = "reread" /\ waiting = "waitAgain"
    PROVE  PoolInv'
<1> USE DEF PoolInv, PoolTypeOK
<1>1. r \notin Waiting /\ \A i \in DOMAIN queue : queue[i] # r
  BY DEF QueueInv, Waiting
<1>2. ASSUME NEW c \in Connections, holder[c] = Nobody,
             holder' = [holder EXCEPT ![c] = r], Become(r, working), UNCHANGED queue
      PROVE  PoolInv'
  <2>1. PoolTypeOK'
    BY <1>2 DEF Become
  <2>2. queue = <<>> /\ Waiting = {}
    BY <1>2 DEF FullInv, QueueInv
  <2>3. QueueInv' /\ FullInv'
    BY <1>2, <2>2 DEF QueueInv, FullInv, Waiting, Become
  <2>4. ASSUME NEW q \in Requests
        PROVE  HeldBy(q)' = IF q = r THEN HeldBy(r) \cup {c} ELSE HeldBy(q)
    BY <1>2, NobodyAssumption DEF HeldBy
  <2>5. c \notin HeldBy(r)
    BY <1>2, NobodyAssumption DEF HeldBy
  <2>6. NothingLeaks'
    <3>1. ASSUME NEW q \in Requests \ {r}
          PROVE  Fits(stage[q], HeldBy(q))'
      BY <1>2, <2>4 DEF NothingLeaks, Fits, Become
    <3>2. Fits(stage[r], HeldBy(r))'
      <4>1. stage'[r] = working
        BY <1>2 DEF Become
      <4>2. CASE stage[r] = "none"
        <5>1. HeldBy(r)' = {c}
          BY <2>4, <4>2 DEF NothingLeaks, Fits
        <5> QED
          BY <4>1, <4>2, <5>1 DEF Fits
      <4>3. CASE stage[r] = "work"
        <5>1. PICK d \in Connections : HeldBy(r) = {d}
          BY <4>3 DEF NothingLeaks, Fits
        <5>2. HeldBy(r)' = {d, c} /\ d # c
          BY <2>4, <2>5, <5>1
        <5> QED
          BY <4>1, <4>3, <5>2 DEF Fits
      <4> QED
        BY <4>2, <4>3
    <3> QED
      BY <3>1, <3>2 DEF NothingLeaks
  <2> QED
    BY <2>1, <2>3, <2>6
<1>3. ASSUME \A c \in Connections : holder[c] # Nobody,
             queue' = Append(queue, r), Become(r, waiting), UNCHANGED holder
      PROVE  PoolInv'
  <2>1. PoolTypeOK' /\ FullInv'
    BY <1>3 DEF Become, FullInv
  <2>2. /\ Len(queue') = Len(queue) + 1 /\ queue'[Len(queue) + 1] = r
        /\ \A i \in 1..Len(queue) : queue'[i] = queue[i]
        /\ DOMAIN queue = 1..Len(queue) /\ DOMAIN queue' = 1..(Len(queue) + 1)
    BY <1>3
  <2>3. Waiting' = Waiting \cup {r}
    BY <1>3 DEF Waiting, Become
  <2>4. QueueInv'
    <3>1. ASSUME NEW q \in Waiting'
          PROVE  \E i \in DOMAIN queue' : queue'[i] = q
      BY <2>2, <2>3 DEF QueueInv
    <3>2. ASSUME NEW i \in DOMAIN queue'
          PROVE  queue'[i] \in Waiting'
      BY <2>2, <2>3 DEF QueueInv
    <3>3. ASSUME NEW i \in DOMAIN queue', NEW j \in DOMAIN queue', queue'[i] = queue'[j]
          PROVE  i = j
      BY <1>1, <2>2, <3>3 DEF QueueInv
    <3> QED
      BY <3>1, <3>2, <3>3 DEF QueueInv
  <2>5. NothingLeaks'
    <3>1. ASSUME NEW q \in Requests
          PROVE  HeldBy(q)' = HeldBy(q) /\ stage'[q] = IF q = r THEN waiting ELSE stage[q]
      BY <1>3 DEF HeldBy, Become
    <3>2. Fits(stage'[r], HeldBy(r)')
      <4>1. HeldBy(r)' = HeldBy(r) /\ stage'[r] = waiting /\ Fits(stage[r], HeldBy(r))
        BY <3>1 DEF NothingLeaks
      <4> HIDE DEF PoolInv, PoolTypeOK
      <4> QED
        BY <4>1 DEF Fits
    <3>3. ASSUME NEW q \in Requests \ {r}
          PROVE  Fits(stage[q], HeldBy(q))'
      BY <3>1 DEF NothingLeaks, Fits
    <3> QED
      BY <3>2, <3>3 DEF NothingLeaks
  <2> QED
    BY <2>1, <2>4, <2>5
<1> QED
  BY <1>2, <1>3 DEF Connect

(* What the new holder has is what its new stage needs.                      *)
LEMMA ReleaseStep ==
    ASSUME PoolInv, NEW r \in Requests, NEW there,
           Release(r, there), UNCHANGED mode, rereads' \in [Requests -> 0..2],
           \/ stage[r] = "reread" /\ there = "work"
           \/ stage[r] = "work" /\ there = "none"
    PROVE  PoolInv'
<1> USE DEF PoolInv, PoolTypeOK
<1>1. PICK c \in Connections :
        /\ holder[c] = r
        /\ \/ /\ queue = <<>>
              /\ holder' = [holder EXCEPT ![c] = Nobody]
              /\ Become(r, there)
              /\ UNCHANGED queue
           \/ /\ queue # <<>>
              /\ holder' = [holder EXCEPT ![c] = Head(queue)]
              /\ stage' = [stage EXCEPT ![r] = there,
                     ![Head(queue)] = IF @ = "wait" THEN "work" ELSE "reread"]
              /\ queue' = Tail(queue)
  BY DEF Release
<1>2. r \notin Waiting
  BY DEF Waiting
<1>3. /\ HeldBy(r) \ {c} = {} => there = "none"
      /\ HeldBy(r) \ {c} # {} => there = "work" /\ \E d \in Connections : HeldBy(r) \ {c} = {d}
  <2>1. c \in HeldBy(r)
    BY <1>1 DEF HeldBy
  <2>2. CASE stage[r] = "reread"
    <3>1. PICK x, y \in Connections : x # y /\ HeldBy(r) = {x, y}
      BY <2>2 DEF NothingLeaks, Fits
    <3>2. HeldBy(r) \ {c} = {y} \/ HeldBy(r) \ {c} = {x}
      BY <2>1, <3>1
    <3>3. there = "work"
      BY <2>2
    <3> QED
      BY <3>2, <3>3
  <2>3. CASE stage[r] = "work"
    <3>1. PICK x \in Connections : HeldBy(r) = {x}
      BY <2>3 DEF NothingLeaks, Fits
    <3> QED
      BY <2>1, <2>3, <3>1
  <2> QED
    BY <2>2, <2>3
<1>4. CASE queue = <<>>
  <2>1. /\ holder' = [holder EXCEPT ![c] = Nobody] /\ UNCHANGED queue
        /\ stage' = [stage EXCEPT ![r] = there]
    BY <1>1, <1>4 DEF Become
  <2>2. PoolTypeOK' /\ FullInv'
    BY <1>4, <2>1 DEF FullInv
  <2>3. QueueInv'
    BY <1>2, <1>4, <2>1 DEF QueueInv, Waiting
  <2>4. ASSUME NEW q \in Requests
        PROVE  HeldBy(q)' = IF q = r THEN HeldBy(r) \ {c} ELSE HeldBy(q)
    BY <1>1, <2>1, NobodyAssumption DEF HeldBy
  <2>5. NothingLeaks'
    BY <1>3, <2>1, <2>4 DEF NothingLeaks, Fits
  <2> QED
    BY <2>2, <2>3, <2>5
<1>5. CASE queue # <<>>
  <2>0. PICK h \in Requests : h = Head(queue)
    BY <1>5
  <2>1. /\ holder' = [holder EXCEPT ![c] = h] /\ queue' = Tail(queue)
        /\ stage' = [stage EXCEPT ![r] = there,
               ![h] = IF @ = "wait" THEN "work" ELSE "reread"]
    BY <1>1, <1>5, <2>0
  <2>2. /\ h = queue[1] /\ 1 \in DOMAIN queue /\ h \in Requests
        /\ DOMAIN queue = 1..Len(queue) /\ DOMAIN queue' = 1..(Len(queue) - 1)
        /\ queue' \in Seq(Requests) /\ Len(queue) \in Nat
        /\ \A i \in DOMAIN queue' : queue'[i] = queue[i + 1]
    BY <1>5, <2>0, <2>1
  <2>3. h \in Waiting /\ h # r
    BY <1>2, <2>2 DEF QueueInv
  <2>4. /\ stage'[r] = there
        /\ stage'[h] = IF stage[h] = "wait" THEN "work" ELSE "reread"
        /\ \A q \in Requests \ {r, h} : stage'[q] = stage[q]
    BY <2>1, <2>2, <2>3
  <2>5. Waiting' = Waiting \ {h}
    BY <1>2, <2>3, <2>4 DEF Waiting
  <2>6. PoolTypeOK' /\ FullInv'
    BY <1>5, <2>1, <2>2, NobodyAssumption DEF FullInv
  <2>7. QueueInv'
    <3>1. ASSUME NEW i \in DOMAIN queue'
          PROVE  queue'[i] \in Waiting'
      <4>1. i + 1 \in DOMAIN queue /\ i + 1 # 1
        BY <2>2
      <4> QED
        BY <2>2, <2>5, <4>1 DEF QueueInv
    <3>2. ASSUME NEW i \in DOMAIN queue', NEW j \in DOMAIN queue', queue'[i] = queue'[j]
          PROVE  i = j
      <4>1. i + 1 \in DOMAIN queue /\ j + 1 \in DOMAIN queue /\ i \in Int /\ j \in Int
        BY <2>2
      <4>2. i + 1 = j + 1
        BY <2>2, <3>2, <4>1 DEF QueueInv
      <4> QED
        BY <4>1, <4>2
    <3>3. ASSUME NEW q \in Waiting'
          PROVE  \E i \in DOMAIN queue' : queue'[i] = q
      <4>1. PICK i \in DOMAIN queue : queue[i] = q
        BY <2>5 DEF QueueInv
      <4>2. i # 1
        BY <2>2, <2>5, <4>1
      <4>3. i - 1 \in DOMAIN queue' /\ (i - 1) + 1 = i
        BY <2>2, <4>2
      <4> QED
        BY <2>2, <4>1, <4>3
    <3> QED
      BY <3>1, <3>2, <3>3 DEF QueueInv
  <2>8. ASSUME NEW q \in Requests
        PROVE  HeldBy(q)' = IF q = r THEN HeldBy(r) \ {c}
                            ELSE IF q = h THEN HeldBy(h) \cup {c} ELSE HeldBy(q)
    BY <1>1, <2>1, <2>3, NobodyAssumption DEF HeldBy
  <2>9. c \notin HeldBy(h)
    BY <1>1, <2>3 DEF HeldBy
  <2>10. Fits(stage[h], HeldBy(h))'
    <3>1. HeldBy(h)' = HeldBy(h) \cup {c}
      BY <2>2, <2>3, <2>8
    <3>2. CASE stage[h] = "wait"
      <4>1. HeldBy(h)' = {c}
        BY <2>2, <3>1, <3>2 DEF NothingLeaks, Fits
      <4> QED
        BY <2>4, <3>2, <4>1 DEF Fits
    <3>3. CASE stage[h] = "waitAgain"
      <4>1. PICK d \in Connections : HeldBy(h) = {d}
        BY <2>2, <3>3 DEF NothingLeaks, Fits
      <4>2. HeldBy(h)' = {d, c} /\ d # c
        BY <2>9, <3>1, <4>1
      <4> QED
        BY <2>4, <3>3, <4>2 DEF Fits
    <3> QED
      BY <2>3, <3>2, <3>3 DEF Waiting
  <2>11. Fits(stage[r], HeldBy(r))'
    BY <1>3, <2>4, <2>8 DEF Fits
  <2>12. NothingLeaks'
    BY <2>4, <2>8, <2>10, <2>11 DEF NothingLeaks, Fits
  <2> QED
    BY <2>6, <2>7, <2>12
<1> QED
  BY <1>4, <1>5

(* Whoever leaves the queue keeps what it holds.                             *)
LEMMA TimeOutStep ==
    ASSUME PoolInv, NEW r \in Requests, TimeOut(r)
    PROVE  PoolInv'
<1> USE DEF PoolInv, PoolTypeOK
<1>1. PICK k \in DOMAIN queue : queue[k] = r /\ queue' = RemoveAt(queue, k)
  BY DEF TimeOut
<1>2. /\ DOMAIN queue = 1..Len(queue) /\ DOMAIN queue' = 1..(Len(queue) - 1)
      /\ Len(queue) \in Nat /\ queue' \in Seq(Requests)
      /\ \A j \in DOMAIN queue' : queue'[j] = IF j < k THEN queue[j] ELSE queue[j + 1]
  <2>1. /\ queue' \in Seq(Requests) /\ Len(queue') = Len(queue) - 1
        /\ \A j \in 1..(Len(queue) - 1) : queue'[j] = IF j < k THEN queue[j] ELSE queue[j + 1]
    BY ONLY <1>1, RemoveAtFacts, PoolInv DEF PoolInv, PoolTypeOK
  <2> QED
    BY <2>1
<1>3. /\ stage[r] \in {"wait", "waitAgain"} /\ UNCHANGED <<mode, holder>>
      /\ rereads' \in [Requests -> 0..2]
      /\ stage' = [stage EXCEPT ![r] = IF stage[r] = "wait" THEN "none" ELSE "work"]
  BY DEF TimeOut, Become
<1>4. Waiting' = Waiting \ {r} /\ r \in Waiting
  BY <1>3 DEF Waiting
<1>5. PoolTypeOK' /\ FullInv'
  BY <1>1, <1>2, <1>3 DEF FullInv
<1>6. QueueInv'
  <2> DEFINE old(j) == IF j < k THEN j ELSE j + 1
  <2>1. ASSUME NEW j \in DOMAIN queue'
        PROVE  old(j) \in DOMAIN queue /\ old(j) # k /\ queue'[j] = queue[old(j)]
    BY <1>2
  <2>2. ASSUME NEW i \in DOMAIN queue', NEW j \in DOMAIN queue', old(i) = old(j)
        PROVE  i = j
    BY <1>2, <2>2
  <2>3. ASSUME NEW i \in DOMAIN queue, i # k
        PROVE  \E j \in DOMAIN queue' : old(j) = i
    <3>1. CASE i < k
      BY <1>2, <3>1
    <3>2. CASE i > k
      <4>1. i - 1 \in DOMAIN queue' /\ old(i - 1) = i
        BY <1>2, <3>2
      <4> QED
        BY <4>1
    <3> QED
      BY <1>2, <2>3, <3>1, <3>2
  <2> HIDE DEF old
  <2>4. \A j \in DOMAIN queue' : queue'[j] \in Waiting'
    BY <1>1, <1>4, <2>1 DEF QueueInv
  <2>5. \A i, j \in DOMAIN queue' : queue'[i] = queue'[j] => i = j
    BY <2>1, <2>2 DEF QueueInv
  <2>6. ASSUME NEW q \in Waiting'
        PROVE  \E j \in DOMAIN queue' : queue'[j] = q
    <3>1. PICK i \in DOMAIN queue : queue[i] = q
      BY <1>4 DEF QueueInv
    <3>2. i # k
      BY <1>1, <1>4, <3>1
    <3> QED
      BY <2>1, <2>3, <3>1, <3>2
  <2> QED
    BY <2>4, <2>5, <2>6 DEF QueueInv
<1>7. NothingLeaks'
  BY <1>3 DEF NothingLeaks, Fits, HeldBy
<1> QED
  BY <1>5, <1>6, <1>7

(* Only a request with queries to make asks for a second connection, and the *)
(* count goes down with the release of it.                                   *)
LEMMA AgainStep == PoolInv /\ AgainInv /\ [Next]_vars => AgainInv'
<1> SUFFICES ASSUME PoolInv, AgainInv, [Next]_vars
             PROVE  AgainInv'
  OBVIOUS
<1> USE DEF PoolInv, PoolTypeOK, AgainInv
<1>1. CASE UNCHANGED vars \/ Close \/ EndPool
  BY <1>1 DEF vars, Close, EndPool
<1>2. ASSUME NEW r \in Requests, Enter(r) \/ Reread(r) \/ TimeOut(r)
      PROVE  AgainInv'
  BY <1>2 DEF Enter, Reread, TimeOut, Connect, Become
<1>3. ASSUME NEW r \in Requests, EndReread(r) \/ Finish(r) \/ Fail(r)
      PROVE  AgainInv'
  <2>1. PICK there \in {"work", "none"} : Release(r, there)
    BY <1>3 DEF EndReread, Finish, Fail
  <2>2. \A q \in Requests \ {r} : rereads'[q] = rereads[q]
    BY <1>3 DEF EndReread, Finish, Fail
  <2>3. CASE queue = <<>>
    BY <2>1, <2>2, <2>3 DEF Release, Become
  <2>4. CASE queue # <<>>
    <3>1. PICK h \in Requests : h = Head(queue) /\ h \in Waiting
      BY <2>4 DEF QueueInv
    <3>2. h # r
      BY <1>3, <3>1 DEF Waiting, EndReread, Finish, Fail
    <3>3. stage' = [stage EXCEPT ![r] = there,
                      ![h] = IF stage[h] = "wait" THEN "work" ELSE "reread"]
      BY <2>1, <2>4, <3>1, <3>2 DEF Release
    <3> QED
      BY <2>1, <2>2, <3>1, <3>2, <3>3 DEF Waiting
  <2> QED
    BY <2>3, <2>4
<1> QED
  BY <1>1, <1>2, <1>3 DEF Next, Step

(* Every step of the pool keeps the invariant.                               *)
LEMMA PoolStep == PoolInv /\ AgainInv /\ [Next]_vars => PoolInv'
<1> SUFFICES ASSUME PoolInv, AgainInv, [Next]_vars
             PROVE  PoolInv'
  OBVIOUS
<1>1. CASE UNCHANGED vars \/ Close \/ EndPool
  BY <1>1 DEF vars, Close, EndPool, PoolInv, PoolTypeOK, QueueInv, FullInv, NothingLeaks, Fits,
     HeldBy, Waiting
<1>2. ASSUME NEW r \in Requests, Enter(r) \/ Reread(r)
      PROVE  PoolInv'
  <2>1. rereads' \in [Requests -> 0..2]
    BY <1>2 DEF Enter, Reread, PoolInv, PoolTypeOK
  <2> QED
    BY <1>2, <2>1, ConnectStep DEF Enter, Reread
<1>3. ASSUME NEW r \in Requests, EndReread(r) \/ Finish(r) \/ Fail(r)
      PROVE  PoolInv'
  <2>1. CASE EndReread(r)
    <3>1. rereads' \in [Requests -> 0..2]
      BY <2>1 DEF EndReread, PoolInv, PoolTypeOK, AgainInv
    <3> QED
      BY <2>1, <3>1, ReleaseStep DEF EndReread
  <2>2. CASE Finish(r) \/ Fail(r)
    <3>1. rereads' \in [Requests -> 0..2]
      BY <2>2 DEF Finish, Fail, PoolInv, PoolTypeOK
    <3> QED
      BY <2>2, <3>1, ReleaseStep DEF Finish, Fail
  <2> QED
    BY <1>3, <2>1, <2>2
<1> QED
  BY <1>1, <1>2, <1>3, TimeOutStep DEF Next, Step

(* The pool's invariant, in every reachable state.                           *)
THEOREM PoolKept == Spec => []PoolInv
<1>1. Init => AgainInv
  BY DEF Init, AgainInv
<1> QED
  BY <1>1, PoolInit, AgainStep, PoolStep, PTL DEF Spec

(* No path of a request, timeouts of the nested query included, leaks a      *)
(* connection or holds one too many.                                         *)
THEOREM NoLeak == Spec => []NothingLeaks
<1>1. PoolInv => NothingLeaks
  BY DEF PoolInv
<1> QED
  BY <1>1, PoolKept, PTL

(* A connection is never idle while a request waits for one.                 *)
THEOREM NoWaste == Spec => []NoIdleWhileWaiting
<1>1. PoolInv => NoIdleWhileWaiting
  BY DEF PoolInv, PoolTypeOK, QueueInv, FullInv, NoIdleWhileWaiting
<1> QED
  BY <1>1, PoolKept, PTL

(* If everyone in service waits, every connection is held by a transaction   *)
(* that asks for a second one.                                               *)
THEOREM StallsAreNested == Spec => []OnlyNestingStalls
<1>1. ASSUME PoolInv, Waiting # {}, \A r \in Requests : stage[r] = "none" \/ r \in Waiting,
             NEW c \in Connections
      PROVE  \E r \in Requests : holder[c] = r /\ stage[r] = "waitAgain"
  <2>1. queue # <<>>
    BY <1>1 DEF PoolInv, QueueInv
  <2>2. PICK r \in Requests : holder[c] = r
    BY <1>1, <2>1 DEF PoolInv, PoolTypeOK, FullInv
  <2>3. HeldBy(r) # {}
    BY <2>2 DEF HeldBy
  <2>4. stage[r] \notin {"none", "wait"}
    BY <1>1, <2>3 DEF PoolInv, NothingLeaks, Fits
  <2> QED
    BY <1>1, <2>2, <2>4 DEF Waiting
<1>2. PoolInv => OnlyNestingStalls
  BY <1>1 DEF OnlyNestingStalls
<1> QED
  BY <1>2, PoolKept, PTL
==============================================================================
