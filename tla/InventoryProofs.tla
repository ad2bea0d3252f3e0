--------------------------- MODULE InventoryProofs ---------------------------
(****************************************************************************)
(* Lemmas about Inventory: what the three effects on the store (write,      *)
(* commit, rollback) do to its invariant, for the proofs about the services *)
(* that extend Inventory, and about the sums they take of their rows.       *)
(****************************************************************************)
EXTENDS Inventory, Sums, FiniteSetTheorems, TLAPS

(* The types of the rows and the row locks.                                  *)
StoreTypeOK ==
    /\ on_hand \in [Keys -> Int]
    /\ newest \in [Keys -> Int]
    /\ tracked \in SUBSET Keys
    /\ posted \in [Keys -> Int]
    /\ posting \in [Keys -> Int]
    /\ lock \in [Keys -> Workers \cup {NoWorker}]

(* Why the books balance at every commit: the newest version of a row        *)
(* differs from the committed one by exactly what its lock holder has yet to *)
(* post, and an unlocked row has nothing to post.                            *)
Balanced ==
    /\ StockMatchesLedger
    /\ \A k \in Keys : newest[k] = on_hand[k] + posting[k]
    /\ \A k \in Keys : lock[k] = NoWorker => posting[k] = 0

(* The inductive invariant of the store, whoever writes it.                  *)
StoreInv == StoreTypeOK /\ Balanced

(* The committed store changes like a page of StockBook, or not at all.      *)
BookStep == Book!Post \/ UNCHANGED Book!bookVars

(* An empty store is consistent. *)
LEMMA StoreInit == StockInit => StoreInv /\ Book!Init
BY WorkerAssumption, OpeningAssumption
   DEF StockInit, StoreInv, StoreTypeOK, Balanced, StockMatchesLedger, Book!Init

(* Writing a level with its ledger row keeps the store consistent and leaves *)
(* the committed state alone.                                                *)
LEMMA WriteKeepsStore ==
    ASSUME StoreInv, StockTypeOK, NEW w \in Workers, WriteLevel(w)
    PROVE  StoreInv' /\ BookStep
<1>1. StoreTypeOK'
  <2>. DEFINE Sum(f) == [f EXCEPT ![key[w]] = @ + change[w]]
  <2>1. ASSUME NEW f \in [Keys -> Int]
        PROVE  Sum(f) \in [Keys -> Int]
    <3>1. change[w] \in Int
      BY DEF StockTypeOK
    <3>2. \A k \in Keys : f[k] + change[w] \in Int
      BY <3>1
    <3> QED
      BY <3>2
  <2>2. newest' \in [Keys -> Int] /\ posting' \in [Keys -> Int]
    BY <2>1 DEF StoreInv, StoreTypeOK, WriteLevel
  <2>3. lock' \in [Keys -> Workers \cup {NoWorker}]
    BY DEF StoreInv, StoreTypeOK, WriteLevel
  <2> QED
    BY <2>2, <2>3 DEF StoreInv, StoreTypeOK, WriteLevel
<1>2. Balanced'
  BY WorkerAssumption
     DEF StoreInv, StoreTypeOK, StockTypeOK, WriteLevel, Balanced, StockMatchesLedger
<1>3. BookStep
  BY DEF WriteLevel, BookStep, Book!bookVars
<1> QED
  BY <1>1, <1>2, <1>3 DEF StoreInv

(* A commit posts exactly what it adds to the levels. *)
LEMMA CommitKeepsStore ==
    ASSUME StoreInv, NEW w \in Workers, CommitStock(w)
    PROVE  StoreInv' /\ BookStep
<1> USE DEF Visible, Held, Unlock
<1>1. StoreTypeOK'
  BY DEF StoreInv, StoreTypeOK, CommitStock
<1>2. \A k \in Keys : on_hand'[k] - on_hand[k] = posted'[k] - posted[k]
  BY DEF StoreInv, StoreTypeOK, Balanced, CommitStock
<1>3. Balanced'
  BY <1>1, <1>2, OpeningAssumption, WorkerAssumption
     DEF StoreInv, StoreTypeOK, Balanced, StockMatchesLedger, CommitStock
<1>4. BookStep
  BY <1>1, <1>2 DEF StoreTypeOK, BookStep, Book!Post
<1> QED
  BY <1>1, <1>3, <1>4 DEF StoreInv

(* A rollback forgets what was not posted and nothing else. *)
LEMMA RollbackKeepsStore ==
    ASSUME StoreInv, NEW w \in Workers, RollbackStock(w)
    PROVE  StoreInv' /\ BookStep
<1> USE DEF Unlock
<1>1. StoreTypeOK'
  BY DEF StoreInv, StoreTypeOK, RollbackStock
<1>2. Balanced'
  BY WorkerAssumption
     DEF StoreInv, StoreTypeOK, Balanced, StockMatchesLedger, RollbackStock
<1>3. BookStep
  BY DEF RollbackStock, BookStep, Book!bookVars
<1> QED
  BY <1>1, <1>2, <1>3 DEF StoreInv

(* A step that touches no table. *)
LEMMA StoreUnchanged ==
    ASSUME StoreInv, UNCHANGED storeVars
    PROVE  StoreInv' /\ BookStep
BY DEF storeVars, StoreInv, StoreTypeOK, Balanced, StockMatchesLedger, BookStep, Book!bookVars

(* What a step may do to the tables, whichever operation takes it.           *)
StoreEffect ==
    \/ UNCHANGED storeVars
    \/ \E w \in Workers : WriteLevel(w) \/ CommitStock(w) \/ RollbackStock(w)

(* A service all of whose steps have such an effect keeps the store          *)
(* consistent and the book.                                                  *)
LEMMA EffectKeepsStore ==
    ASSUME StoreInv, StockTypeOK, StoreEffect
    PROVE  StoreInv' /\ BookStep
BY StoreUnchanged, WriteKeepsStore, CommitKeepsStore, RollbackKeepsStore DEF StoreEffect

------------------------------------------------------------------------------
(* Sums over finitely many rows.  The library's induction theorems take the  *)
(* proposition as an operator; these proofs take the set of counterexamples  *)
(* instead, and the column that is summed is a function, so every lemma can  *)
(* be cited as it stands.                                                    *)

(* The element a fold takes next.                                           *)
Pick(s) == CHOOSE x \in s : TRUE

(* g is the recursive function by which a fold sums f over the subsets of S. *)
SumsOn(f, S, g) ==
    g = [s \in SUBSET S |-> IF s = {} THEN 0 ELSE f[Pick(s)] + g[s \ {Pick(s)}]]

SumsOf(f, S) == CHOOSE g : SumsOn(f, S, g)

(* A sum is what that function gives for the whole set.                     *)
LEMMA SumUnfolds ==
    ASSUME NEW f, NEW S
    PROVE  SumOver(f, S) = SumsOf(f, S)[S]
BY DEF SumOver, MapThenSumSet, MapThenFoldSet, SumsOf, SumsOn, Pick

(* It is an element.                                                         *)
LEMMA PickIsMember == \A s : s # {} => Pick(s) \in s
BY DEF Pick

(* Induction over a finite set, in the form of a smallest counterexample: a  *)
(* family of subsets of S has a member none of whose proper subsets is in it. *)
LEMMA SmallestSet ==
    ASSUME NEW S, IsFiniteSet(S), NEW Bad \in SUBSET SUBSET S, Bad # {}
    PROVE  \E T \in Bad : \A U \in SUBSET T : U # T => U \notin Bad
<1>1. Bad \subseteq FiniteSubsetsOf(S)
  BY FS_Subset DEF FiniteSubsetsOf
<1>2. PICK T \in Bad : \A U \in Bad : <<U, T>> \notin StrictSubsetOrdering(S)
  <2> HIDE DEF FiniteSubsetsOf, StrictSubsetOrdering
  <2> QED BY <1>1, FS_StrictSubsetOrderingWellFounded, WFMin
<1>3. QED
  BY <1>2 DEF StrictSubsetOrdering

(* Two such functions agree where both are defined.                         *)
LEMMA SumsAgree ==
    ASSUME NEW f, NEW S, IsFiniteSet(S), NEW T, NEW g, NEW h,
           SumsOn(f, S, g), SumsOn(f, T, h)
    PROVE  \A s \in SUBSET (S \cap T) : g[s] = h[s]
<1> DEFINE Bad == {s \in SUBSET (S \cap T) : g[s] # h[s]}
<1>1. SUFFICES ASSUME Bad # {} PROVE FALSE
  OBVIOUS
<1>2. PICK s \in Bad : \A u \in SUBSET s : u # s => u \notin Bad
  <2>1. Bad \in SUBSET SUBSET S
    OBVIOUS
  <2> HIDE DEF Bad
  <2> QED BY <1>1, <2>1, SmallestSet
<1>3. s \in SUBSET S /\ s \in SUBSET T
  BY <1>2
<1>4. /\ g[s] = IF s = {} THEN 0 ELSE f[Pick(s)] + g[s \ {Pick(s)}]
      /\ h[s] = IF s = {} THEN 0 ELSE f[Pick(s)] + h[s \ {Pick(s)}]
  BY <1>3 DEF SumsOn
<1>5. s # {} => g[s \ {Pick(s)}] = h[s \ {Pick(s)}]
  BY <1>2, PickIsMember
<1>6. QED
  BY <1>2, <1>4, <1>5

(* For a finite set there is one.                                           *)
LEMMA SumsExist ==
    ASSUME NEW f, NEW S, IsFiniteSet(S)
    PROVE  SumsOn(f, S, SumsOf(f, S))
<1> DEFINE Bad == {s \in SUBSET S : ~SumsOn(f, s, SumsOf(f, s))}
<1>1. SUFFICES ASSUME Bad # {} PROVE FALSE
  OBVIOUS
<1>2. PICK T \in Bad : \A u \in SUBSET T : u # T => u \notin Bad
  <2>1. Bad \in SUBSET SUBSET S
    OBVIOUS
  <2> HIDE DEF Bad
  <2> QED BY <1>1, <2>1, SmallestSet
<1>3. ASSUME NEW u \in SUBSET T, u # T
      PROVE  SumsOn(f, u, SumsOf(f, u)) /\ IsFiniteSet(u)
  BY <1>2, <1>3, FS_Subset
<1> DEFINE Below(s) == SumsOf(f, s \ {Pick(s)})[s \ {Pick(s)}]
           g == [s \in SUBSET T |-> IF s = {} THEN 0 ELSE f[Pick(s)] + Below(s)]
<1>4. ASSUME NEW s \in SUBSET T, s # {}
      PROVE  g[s \ {Pick(s)}] = Below(s)
  <2> DEFINE u == s \ {Pick(s)}
  <2>1. u \in SUBSET T /\ u # T
    BY <1>4, PickIsMember
  <2>2. SumsOf(f, u)[u] = IF u = {} THEN 0 ELSE f[Pick(u)] + SumsOf(f, u)[u \ {Pick(u)}]
    BY <1>3, <2>1 DEF SumsOn
  <2>3. ASSUME u # {}
        PROVE  SumsOf(f, u)[u \ {Pick(u)}] = Below(u)
    <3> DEFINE t == u \ {Pick(u)}
    <3>1. t \in SUBSET T /\ t # T /\ t \in SUBSET (u \cap t)
      BY <2>1, <2>3, PickIsMember
    <3>2. SumsOn(f, u, SumsOf(f, u)) /\ SumsOn(f, t, SumsOf(f, t)) /\ IsFiniteSet(u)
      BY <1>3, <2>1, <3>1
    <3> HIDE DEF t, u
    <3>3. SumsOf(f, u)[t] = SumsOf(f, t)[t]
      BY <3>1, <3>2, SumsAgree
    <3>4. QED
      BY <3>3 DEF t, Below
  <2>4. g[u] = IF u = {} THEN 0 ELSE f[Pick(u)] + Below(u)
    BY <2>1
  <2> HIDE DEF g
  <2>5. QED
    BY <2>2, <2>3, <2>4
<1>5. SumsOn(f, T, g)
  <2>1. g = [s \in SUBSET T |-> IF s = {} THEN 0 ELSE f[Pick(s)] + g[s \ {Pick(s)}]]
    <3> HIDE DEF Below
    <3>1. \A s \in SUBSET T : s # {} => g[s \ {Pick(s)}] = Below(s)
      BY <1>4
    <3> QED BY <3>1
  <2> HIDE DEF g
  <2> QED BY <2>1 DEF SumsOn
<1> HIDE DEF g
<1>6. SumsOn(f, T, SumsOf(f, T))
  BY <1>5 DEF SumsOf
<1>7. QED
  BY <1>2, <1>6

(* The sum over no rows.                                                     *)
LEMMA SumOfNone ==
    ASSUME NEW f
    PROVE  SumOver(f, {}) = 0
<1>1. SumsOn(f, {}, SumsOf(f, {}))
  BY SumsExist, FS_EmptySet
<1>2. SumsOf(f, {})[{}] = 0
  BY <1>1 DEF SumsOn
<1>3. QED
  BY <1>2, SumUnfolds

(* The sum over some rows, one step of the fold.                            *)
LEMMA SumUnrolls ==
    ASSUME NEW f, NEW S, IsFiniteSet(S), S # {}
    PROVE  SumOver(f, S) = f[Pick(S)] + SumOver(f, S \ {Pick(S)})
<1> DEFINE T == S \ {Pick(S)}
<1>1. SumsOn(f, S, SumsOf(f, S))
  BY SumsExist
<1>2. SumsOn(f, T, SumsOf(f, T))
  BY SumsExist, FS_Subset
<1>3. SumsOf(f, S)[S] = f[Pick(S)] + SumsOf(f, S)[T]
  BY <1>1 DEF SumsOn
<1>4. SumsOf(f, S)[T] = SumsOf(f, T)[T]
  <2>1. T \in SUBSET (S \cap T)
    OBVIOUS
  <2> HIDE DEF T
  <2> QED BY <1>1, <1>2, <2>1, SumsAgree
<1>5. QED
  BY <1>3, <1>4, SumUnfolds

(* A sum of integers is an integer.                                          *)
LEMMA SumOfIntegers ==
    ASSUME NEW f, NEW S, IsFiniteSet(S), \A i \in S : f[i] \in Int
    PROVE  SumOver(f, S) \in Int
<1> DEFINE Bad == {s \in SUBSET S : SumOver(f, s) \notin Int}
<1>1. SUFFICES ASSUME Bad # {} PROVE FALSE
  OBVIOUS
<1>2. PICK s \in Bad : \A u \in SUBSET s : u # s => u \notin Bad
  <2>1. Bad \in SUBSET SUBSET S
    OBVIOUS
  <2> HIDE DEF Bad
  <2> QED BY <1>1, <2>1, SmallestSet
<1>3. SUFFICES ASSUME s # {} PROVE FALSE
  <2>1. SumOver(f, {}) \in Int
    BY SumOfNone
  <2> QED BY <1>2, <2>1
<1>4. SumOver(f, s) = f[Pick(s)] + SumOver(f, s \ {Pick(s)})
  BY <1>2, <1>3, SumUnrolls, FS_Subset
<1>5. SumOver(f, s \ {Pick(s)}) \in Int /\ f[Pick(s)] \in Int
  BY <1>2, <1>3, PickIsMember
<1>6. QED
  BY <1>2, <1>4, <1>5

(* A sum of quantities is no less than zero.                                 *)
LEMMA SumOfNaturals ==
    ASSUME NEW f, NEW S, IsFiniteSet(S), \A i \in S : f[i] \in Nat
    PROVE  SumOver(f, S) \in Nat
<1> DEFINE Bad == {s \in SUBSET S : SumOver(f, s) \notin Nat}
<1>1. SUFFICES ASSUME Bad # {} PROVE FALSE
  OBVIOUS
<1>2. PICK s \in Bad : \A u \in SUBSET s : u # s => u \notin Bad
  <2>1. Bad \in SUBSET SUBSET S
    OBVIOUS
  <2> HIDE DEF Bad
  <2> QED BY <1>1, <2>1, SmallestSet
<1>3. SUFFICES ASSUME s # {} PROVE FALSE
  <2>1. SumOver(f, {}) \in Nat
    BY SumOfNone
  <2> QED BY <1>2, <2>1
<1>4. SumOver(f, s) = f[Pick(s)] + SumOver(f, s \ {Pick(s)})
  BY <1>2, <1>3, SumUnrolls, FS_Subset
<1>5. SumOver(f, s \ {Pick(s)}) \in Nat /\ f[Pick(s)] \in Nat
  BY <1>2, <1>3, PickIsMember
<1>6. QED
  BY <1>2, <1>4, <1>5

(* Any row may be taken out first.                                           *)
LEMMA SumWithout ==
    ASSUME NEW f, NEW S, IsFiniteSet(S), \A i \in S : f[i] \in Int, NEW x \in S
    PROVE  SumOver(f, S) = f[x] + SumOver(f, S \ {x})
<1> DEFINE Bad == {s \in SUBSET S : \E y \in s : SumOver(f, s) # f[y] + SumOver(f, s \ {y})}
<1>1. SUFFICES ASSUME Bad # {} PROVE FALSE
  OBVIOUS
<1>2. PICK s \in Bad : \A u \in SUBSET s : u # s => u \notin Bad
  <2>1. Bad \in SUBSET SUBSET S
    OBVIOUS
  <2> HIDE DEF Bad
  <2> QED BY <1>1, <2>1, SmallestSet
<1>3. PICK y \in s : SumOver(f, s) # f[y] + SumOver(f, s \ {y})
  BY <1>2
<1> DEFINE p == Pick(s)
           t == (s \ {p}) \ {y}
<1>4. /\ IsFiniteSet(s) /\ IsFiniteSet(s \ {y}) /\ IsFiniteSet(t)
      /\ s \in SUBSET S
  BY <1>2, FS_Subset
<1>5. p \in s /\ SumOver(f, s) = f[p] + SumOver(f, s \ {p})
  BY <1>3, <1>4, SumUnrolls, PickIsMember
<1>6. p # y
  BY <1>3, <1>5
<1>7. SumOver(f, s \ {p}) = f[y] + SumOver(f, t)
  <2>1. s \ {p} \notin Bad /\ s \ {p} \in SUBSET S /\ y \in s \ {p}
    BY <1>2, <1>3, <1>5, <1>6
  <2> QED BY <2>1
<1>8. SumOver(f, s \ {y}) = f[p] + SumOver(f, t)
  <2>1. s \ {y} \notin Bad /\ s \ {y} \in SUBSET S /\ p \in s \ {y}
    BY <1>2, <1>3, <1>5, <1>6
  <2>2. (s \ {y}) \ {p} = t
    OBVIOUS
  <2> HIDE DEF t, p
  <2> QED BY <2>1, <2>2
<1>9. SumOver(f, t) \in Int /\ f[p] \in Int /\ f[y] \in Int
  <2>1. \A i \in t : f[i] \in Int
    BY <1>4
  <2> QED BY <1>4, <1>3, <1>5, <2>1, SumOfIntegers
<1> HIDE DEF p, t
<1>10. QED
  BY <1>3, <1>5, <1>7, <1>8, <1>9

(* Rows that are zero sum up to zero.                                        *)
LEMMA SumOfZeros ==
    ASSUME NEW f, NEW S, IsFiniteSet(S), \A i \in S : f[i] = 0
    PROVE  SumOver(f, S) = 0
<1> DEFINE Bad == {s \in SUBSET S : SumOver(f, s) # 0}
<1>1. SUFFICES ASSUME Bad # {} PROVE FALSE
  OBVIOUS
<1>2. PICK s \in Bad : \A u \in SUBSET s : u # s => u \notin Bad
  <2>1. Bad \in SUBSET SUBSET S
    OBVIOUS
  <2> HIDE DEF Bad
  <2> QED BY <1>1, <2>1, SmallestSet
<1>3. PICK x : x \in s
  <2>1. SumOver(f, {}) = 0
    BY SumOfNone
  <2> QED BY <1>2, <2>1
<1>4. s \in SUBSET S /\ IsFiniteSet(s) /\ \A i \in s : f[i] \in Int
  BY <1>2, FS_Subset
<1>5. SumOver(f, s) = f[x] + SumOver(f, s \ {x})
  BY <1>3, <1>4, SumWithout
<1>6. SumOver(f, s \ {x}) = 0 /\ f[x] = 0
  BY <1>2, <1>3
<1>7. QED
  BY <1>2, <1>5, <1>6

(* The sum of two columns.                                                   *)
LEMMA SumAdds ==
    ASSUME NEW f, NEW g, NEW h, NEW S, IsFiniteSet(S),
           \A i \in S : f[i] \in Int /\ g[i] \in Int /\ h[i] = f[i] + g[i]
    PROVE  SumOver(h, S) = SumOver(f, S) + SumOver(g, S)
<1> DEFINE Bad == {s \in SUBSET S : SumOver(h, s) # SumOver(f, s) + SumOver(g, s)}
<1>1. SUFFICES ASSUME Bad # {} PROVE FALSE
  OBVIOUS
<1>2. PICK s \in Bad : \A u \in SUBSET s : u # s => u \notin Bad
  <2>1. Bad \in SUBSET SUBSET S
    OBVIOUS
  <2> HIDE DEF Bad
  <2> QED BY <1>1, <2>1, SmallestSet
<1>3. PICK x : x \in s
  <2>1. SumOver(f, {}) = 0 /\ SumOver(g, {}) = 0 /\ SumOver(h, {}) = 0
    BY SumOfNone
  <2>2. SumOver(h, {}) = SumOver(f, {}) + SumOver(g, {})
    BY <2>1
  <2>3. SumOver(h, s) # SumOver(f, s) + SumOver(g, s)
    BY <1>2
  <2> QED BY <2>2, <2>3
<1>4. s \in SUBSET S /\ IsFiniteSet(s) /\ IsFiniteSet(s \ {x})
  BY <1>2, FS_Subset
<1>5. \A i \in s : f[i] \in Int /\ g[i] \in Int /\ h[i] \in Int
  BY <1>4
<1>6. /\ SumOver(f, s) = f[x] + SumOver(f, s \ {x})
      /\ SumOver(g, s) = g[x] + SumOver(g, s \ {x})
      /\ SumOver(h, s) = h[x] + SumOver(h, s \ {x})
  BY <1>3, <1>4, <1>5, SumWithout
<1>7. SumOver(h, s \ {x}) = SumOver(f, s \ {x}) + SumOver(g, s \ {x})
  BY <1>2, <1>3
<1>8. SumOver(f, s \ {x}) \in Int /\ SumOver(g, s \ {x}) \in Int
  BY <1>4, <1>5, SumOfIntegers
<1>9. h[x] = f[x] + g[x] /\ f[x] \in Int /\ g[x] \in Int
  BY <1>3, <1>4
<1>10. SumOver(h, s) = SumOver(f, s) + SumOver(g, s)
  BY <1>6, <1>7, <1>8, <1>9
<1>11. QED
  BY <1>2, <1>10

(* Equal columns have equal sums.                                            *)
LEMMA SumSame ==
    ASSUME NEW f, NEW g, NEW S, IsFiniteSet(S),
           \A i \in S : f[i] \in Int /\ g[i] = f[i]
    PROVE  SumOver(g, S) = SumOver(f, S)
<1> DEFINE z == [i \in S |-> 0]
<1>1. SumOver(z, S) = 0
  BY SumOfZeros
<1>2. SumOver(f, S) \in Int
  BY SumOfIntegers
<1>3. SumOver(g, S) = SumOver(f, S) + SumOver(z, S)
  <2>1. \A i \in S : f[i] \in Int /\ z[i] \in Int /\ g[i] = f[i] + z[i]
    OBVIOUS
  <2> HIDE DEF z
  <2> QED BY <2>1, SumAdds
<1>4. QED
  BY <1>1, <1>2, <1>3

(* An UPDATE of one row.                                                     *)
LEMMA SumUpdates ==
    ASSUME NEW f, NEW g, NEW S, IsFiniteSet(S), NEW x \in S,
           \A i \in S : f[i] \in Int /\ g[i] \in Int /\ (i # x => g[i] = f[i])
    PROVE  SumOver(g, S) = SumOver(f, S) - f[x] + g[x]
<1>1. IsFiniteSet(S \ {x})
  BY FS_Subset
<1>2. SumOver(g, S \ {x}) = SumOver(f, S \ {x}) /\ SumOver(f, S \ {x}) \in Int
  BY <1>1, SumSame, SumOfIntegers
<1>3. SumOver(f, S) = f[x] + SumOver(f, S \ {x})
  BY SumWithout
<1>4. SumOver(g, S) = g[x] + SumOver(g, S \ {x})
  BY SumWithout
<1>5. QED
  BY <1>2, <1>3, <1>4

(* Rows that are zero may be left out.                                      *)
LEMMA SumDropsZeros ==
    ASSUME NEW f, NEW S, IsFiniteSet(S), NEW T \in SUBSET S,
           \A i \in S : f[i] \in Int, \A i \in S \ T : f[i] = 0
    PROVE  SumOver(f, S) = SumOver(f, T)
<1> DEFINE Bad == {s \in SUBSET S : T \subseteq s /\ SumOver(f, s) # SumOver(f, T)}
<1>1. SUFFICES ASSUME Bad # {} PROVE FALSE
  OBVIOUS
<1>2. PICK s \in Bad : \A u \in SUBSET s : u # s => u \notin Bad
  <2>1. Bad \in SUBSET SUBSET S
    OBVIOUS
  <2> HIDE DEF Bad
  <2> QED BY <1>1, <2>1, SmallestSet
<1>3. PICK x : x \in s \ T
  BY <1>2
<1>4. s \in SUBSET S /\ IsFiniteSet(s) /\ IsFiniteSet(s \ {x})
  BY <1>2, FS_Subset
<1>5. SumOver(f, s) = f[x] + SumOver(f, s \ {x}) /\ f[x] = 0
  BY <1>3, <1>4, SumWithout
<1>6. SumOver(f, s \ {x}) = SumOver(f, T)
  BY <1>2, <1>3
<1>7. SumOver(f, s \ {x}) \in Int
  BY <1>4, SumOfIntegers
<1>8. QED
  BY <1>2, <1>5, <1>6, <1>7
==============================================================================
