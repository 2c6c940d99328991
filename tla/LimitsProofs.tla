---------------------------- MODULE LimitsProofs ----------------------------
(***************************************************************************)
(* Proofs about what is counted: sums over finite sets, the artifact store *)
(* within its budget (Artifacts), and the price of an order within the     *)
(* limits of its instrument (Pricing).  Both are parts of MCReadings, and  *)
(* the theorems are about its Spec.                                        *)
(***************************************************************************)
EXTENDS MCReadings, Integers, FiniteSetTheorems, SequenceTheorems, TLAPS

-----------------------------------------------------------------------------
(***************************************************************************)
(* Sums.  The folds of the library take the elements of a set one by one,  *)
(* as CHOOSE gives them. That the sum does not depend on their order is    *)
(* shown by minimal counterexample: among the subsets of a finite set that *)
(* violate a statement there would be a smallest.                          *)
(***************************************************************************)

\* The element that the folds take first.
Chosen(s) == CHOOSE x \in s : TRUE

\* g is the sum of f over every subset of S, taken element by element as the folds of the library do.
IsSum(g, f, S) == g = [s \in SUBSET S |-> IF s = {} THEN 0 ELSE f[Chosen(s)] + g[s \ {Chosen(s)}]]

\* The sum of f over S.
Total(f, S) == (CHOOSE g : IsSum(g, f, S))[S]

\* The values of f over S are natural numbers.
Numbers(f, S) == \A x \in S : f[x] \in Nat

\* Two sums agree on the subsets of S.
Agree(g, h, S) == \A s \in SUBSET S : g[s] = h[s]

\* Whichever element of a subset of S is taken first, the sum is the same.
AnyFirst(g, f, S) == \A s \in SUBSET S : \A x \in s : g[s] = f[x] + g[s \ {x}]

\* Every non-empty set of subsets of a finite set has a smallest element.
LEMMA Minimal ==
  ASSUME NEW S, IsFiniteSet(S), NEW C \in SUBSET (SUBSET S), C # {}
  PROVE  \E T \in C : \A U \in C : U \subseteq T => U = T
<1> DEFINE R == StrictSubsetOrdering(S)
<1>1. IsWellFoundedOn(R, SUBSET S)
  BY FS_StrictSubsetOrderingWellFounded, FS_FiniteSubsetsOfFinite
<1>2. PICK T \in C : \A U \in C : ~(<<U, T>> \in R)
  <2> HIDE DEF R
  <2> QED BY <1>1, WFMin
<1>3. ASSUME NEW U \in C, U \subseteq T, U # T PROVE FALSE
  <2>1. <<U, T>> \in (SUBSET S) \X (SUBSET S)
    OBVIOUS
  <2>2. <<U, T>> \in R
    BY <1>3, <2>1 DEF StrictSubsetOrdering
  <2> QED BY <1>2, <2>2
<1> QED BY <1>3

\* The element that is taken is one of the set, and the rest is smaller.
LEMMA ChosenIn ==
  ASSUME NEW s, s # {}
  PROVE  Chosen(s) \in s /\ s \ {Chosen(s)} \subseteq s /\ s \ {Chosen(s)} # s
<1>1. \E x : x \in s
  OBVIOUS
<1>2. Chosen(s) \in s
  BY <1>1, Zenon DEF Chosen
<1> HIDE DEF Chosen
<1> QED BY <1>2

\* What a sum is at each subset.
LEMMA SumAt ==
  ASSUME NEW g, NEW f, NEW S, IsSum(g, f, S)
  PROVE  /\ g[{}] = 0
         /\ \A s \in SUBSET S : s # {} => g[s] = f[Chosen(s)] + g[s \ {Chosen(s)}]
<1> HIDE DEF Chosen
<1>1. \A s \in SUBSET S : g[s] = IF s = {} THEN 0 ELSE f[Chosen(s)] + g[s \ {Chosen(s)}]
  BY DEF IsSum
<1> QED BY <1>1

\* Two sums of the same values agree wherever both are defined.
LEMMA SumUnique ==
  ASSUME NEW S, NEW T, IsFiniteSet(S), S \subseteq T, NEW f, NEW g, NEW h, IsSum(g, f, S), IsSum(h, f, T)
  PROVE  Agree(g, h, S)
<1> DEFINE C == {s \in SUBSET S : g[s] # h[s]}
<1>1. SUFFICES ASSUME C # {} PROVE FALSE
  BY DEF Agree
<1>2. PICK s \in C : \A u \in C : u \subseteq s => u = s
  <2>1. C \in SUBSET (SUBSET S)
    OBVIOUS
  <2> HIDE DEF C
  <2> QED BY <1>1, <2>1, Minimal
<1>3. s # {}
  BY SumAt
<1>4. g[s] = f[Chosen(s)] + g[s \ {Chosen(s)}] /\ h[s] = f[Chosen(s)] + h[s \ {Chosen(s)}]
  <2>1. s \in SUBSET S /\ s \in SUBSET T
    OBVIOUS
  <2> HIDE DEF C
  <2>2. g[s] = f[Chosen(s)] + g[s \ {Chosen(s)}]
    BY <1>3, <2>1, SumAt
  <2>3. h[s] = f[Chosen(s)] + h[s \ {Chosen(s)}]
    BY <1>3, <2>1, SumAt
  <2> QED BY <2>2, <2>3
<1>5. s \ {Chosen(s)} \notin C
  BY <1>2, <1>3, ChosenIn
<1>6. g[s \ {Chosen(s)}] = h[s \ {Chosen(s)}]
  BY <1>5
<1> QED BY <1>4, <1>6

\* The sum of natural numbers is one.
LEMMA SumNat ==
  ASSUME NEW S, IsFiniteSet(S), NEW f, Numbers(f, S), NEW g, IsSum(g, f, S)
  PROVE  \A s \in SUBSET S : g[s] \in Nat
<1> DEFINE C == {s \in SUBSET S : g[s] \notin Nat}
<1>1. SUFFICES ASSUME C # {} PROVE FALSE
  OBVIOUS
<1>2. PICK s \in C : \A u \in C : u \subseteq s => u = s
  <2>1. C \in SUBSET (SUBSET S)
    OBVIOUS
  <2> HIDE DEF C
  <2> QED BY <1>1, <2>1, Minimal
<1>3. s # {}
  <2>1. g[{}] = 0
    BY SumAt
  <2> QED BY <2>1
<1>4. g[s] = f[Chosen(s)] + g[s \ {Chosen(s)}]
  <2>1. s \in SUBSET S /\ \A u \in SUBSET S : u # {} => g[u] = f[Chosen(u)] + g[u \ {Chosen(u)}]
    BY SumAt
  <2> HIDE DEF C
  <2> QED BY <1>3, <2>1
<1>5. Chosen(s) \in S /\ s \ {Chosen(s)} \notin C /\ s \ {Chosen(s)} \in SUBSET S
  BY <1>2, <1>3, ChosenIn
<1>6. g[s \ {Chosen(s)}] \in Nat /\ f[Chosen(s)] \in Nat
  BY <1>5 DEF Numbers
<1> QED BY <1>4, <1>6

\* There is a sum over every finite set.
LEMMA SumExists ==
  ASSUME NEW S, IsFiniteSet(S), NEW f
  PROVE  \E g : IsSum(g, f, S)
<1> DEFINE C == {T \in SUBSET S : ~\E g : IsSum(g, f, T)}
<1>1. SUFFICES ASSUME C # {} PROVE FALSE
  OBVIOUS
<1>2. PICK T \in C : \A U \in C : U \subseteq T => U = T
  <2>1. C \in SUBSET (SUBSET S)
    OBVIOUS
  <2> HIDE DEF C
  <2> QED BY <1>1, <2>1, Minimal
<1> DEFINE G(s) == CHOOSE g : IsSum(g, f, s)
<1>3. ASSUME NEW s \in SUBSET T, s # T PROVE IsSum(G(s), f, s) /\ IsFiniteSet(s)
  <2>1. \E g : IsSum(g, f, s)
    BY <1>2, <1>3
  <2>2. IsSum(G(s), f, s)
    <3> DEFINE P(g) == IsSum(g, f, s)
    <3>1. \E g : P(g)
      BY <2>1
    <3> HIDE DEF P
    <3>2. P(CHOOSE g : P(g))
      BY <3>1, Zenon
    <3> QED BY <3>2, Zenon DEF P
  <2>3. s \in SUBSET S
    OBVIOUS
  <2> QED BY <2>2, <2>3, FS_Subset
<1> DEFINE h == [s \in SUBSET T |-> IF s = T THEN (IF s = {} THEN 0 ELSE f[Chosen(s)] + G(s \ {Chosen(s)})[s \ {Chosen(s)}])
                                    ELSE G(s)[s]]
<1>4. ASSUME NEW s \in SUBSET T PROVE h[s] = IF s = {} THEN 0 ELSE f[Chosen(s)] + h[s \ {Chosen(s)}]
  <2> DEFINE r == s \ {Chosen(s)}
  <2>0. s # {} => r \in SUBSET T /\ r # T /\ r \subseteq s /\ r # s
    BY ChosenIn
  <2> HIDE DEF G, r
  <2>1. CASE s = {} /\ s = T
    BY <2>1
  <2>2. CASE s = {} /\ s # T
    <3>1. IsSum(G(s), f, s)
      BY <1>3, <2>2
    <3> QED BY <2>2, <3>1, SumAt
  <2>3. CASE s # {} /\ s = T
    <3>1. h[s] = f[Chosen(s)] + G(r)[r]
      BY <2>3 DEF r
    <3>2. h[r] = G(r)[r]
      BY <2>0, <2>3
    <3> QED BY <2>3, <3>1, <3>2 DEF r
  <2>4. CASE s # {} /\ s # T
    <3>1. IsSum(G(s), f, s) /\ IsSum(G(r), f, r) /\ IsFiniteSet(r)
      BY <1>3, <2>0, <2>4
    <3>2. h[s] = G(s)[s] /\ h[r] = G(r)[r]
      BY <2>0, <2>4
    <3>3. G(s)[s] = f[Chosen(s)] + G(s)[r]
      BY <2>4, <3>1, SumAt DEF r
    <3>4. r \subseteq s
      BY <2>0, <2>4
    <3>5. G(s)[r] = G(r)[r]
      <4>1. Agree(G(r), G(s), r)
        BY <3>1, <3>4, SumUnique, Zenon
      <4> QED BY <4>1 DEF Agree
    <3> HIDE DEF h
    <3>6. h[s] = f[Chosen(s)] + h[r]
      BY <3>2, <3>3, <3>5
    <3> QED BY <2>4, <3>6 DEF r
  <2> QED BY <2>1, <2>2, <2>3, <2>4
<1>5. h = [s \in SUBSET T |-> h[s]]
  OBVIOUS
<1> HIDE DEF h
<1>6. h = [s \in SUBSET T |-> IF s = {} THEN 0 ELSE f[Chosen(s)] + h[s \ {Chosen(s)}]]
  BY <1>4, <1>5
<1>7. IsSum(h, f, T)
  BY <1>6 DEF IsSum
<1> QED BY <1>2, <1>7

\* A total is what any sum over a larger set says it is.
LEMMA TotalIs ==
  ASSUME NEW S, IsFiniteSet(S), NEW f, NEW g, IsSum(g, f, S), NEW T \in SUBSET S
  PROVE  Total(f, T) = g[T]
<1>1. IsFiniteSet(T)
  BY FS_Subset
<1> DEFINE P(h) == IsSum(h, f, T)
<1>2. \E h : P(h)
  BY <1>1, SumExists
<1>3. Total(f, T) = (CHOOSE h : P(h))[T]
  BY Zenon DEF Total
<1>4. P(CHOOSE h : P(h))
  <2> HIDE DEF P
  <2> QED BY <1>2, Zenon
<1> DEFINE h == CHOOSE h : P(h)
<1>5. IsSum(h, f, T)
  BY <1>4, Zenon
<1> HIDE DEF h
<1>6. Agree(h, g, T)
  <2>1. T \subseteq S
    OBVIOUS
  <2> HIDE DEF P
  <2> QED BY <1>1, <1>5, <2>1, SumUnique, Zenon
<1>7. h[T] = g[T]
  BY <1>6 DEF Agree
<1> QED BY <1>3, <1>7 DEF h

\* The total of S in the function of all sums of its subsets.
LEMMA TotalHere ==
  ASSUME NEW S, IsFiniteSet(S), NEW f, NEW g, IsSum(g, f, S)
  PROVE  Total(f, S) = g[S]
<1>1. S \in SUBSET S
  OBVIOUS
<1> QED BY <1>1, TotalIs

\* Any element of the set may be taken first.
LEMMA SumAny ==
  ASSUME NEW S, IsFiniteSet(S), NEW f, Numbers(f, S), NEW g, IsSum(g, f, S)
  PROVE  AnyFirst(g, f, S)
<1> DEFINE C == {s \in SUBSET S : \E x \in s : g[s] # f[x] + g[s \ {x}]}
<1>1. SUFFICES ASSUME C # {} PROVE FALSE
  BY DEF AnyFirst
<1>2. PICK s \in C : \A u \in C : u \subseteq s => u = s
  <2>1. C \in SUBSET (SUBSET S)
    OBVIOUS
  <2> HIDE DEF C
  <2> QED BY <1>1, <2>1, Minimal
<1>3. PICK x \in s : g[s] # f[x] + g[s \ {x}]
  OBVIOUS
<1> DEFINE c == Chosen(s)
           r == s \ {c}
           t == s \ {x}
           b == r \ {x}
<1>4. c \in s /\ c \in S /\ x \in S /\ s \in SUBSET S
  BY <1>3, ChosenIn
<1>5. g[s] = f[c] + g[r]
  BY <1>4, SumAt
<1> HIDE DEF c
<1>6. x # c
  BY <1>3, <1>5
<1>7. r \notin C /\ t \notin C
  BY <1>2, <1>4
<1>8. g[r] = f[x] + g[b]
  BY <1>4, <1>6, <1>7
<1>9. g[t] = f[c] + g[t \ {c}]
  BY <1>4, <1>6, <1>7
<1>10. t \ {c} = b
  OBVIOUS
<1>11. f[x] \in Nat /\ f[c] \in Nat /\ g[b] \in Nat
  BY <1>4, SumNat DEF Numbers
<1> HIDE DEF C, r, t, b
<1>12. g[s] = f[x] + g[t]
  <2>1. g[t] = f[c] + g[b]
    BY <1>9, <1>10
  <2> QED BY <1>5, <1>8, <1>11, <2>1
<1> QED BY <1>3, <1>12 DEF t

\* The total of nothing.
LEMMA TotalEmpty ==
  ASSUME NEW f
  PROVE  Total(f, {}) = 0
<1>1. IsFiniteSet({})
  BY FS_EmptySet
<1>2. PICK g : IsSum(g, f, {})
  BY <1>1, SumExists
<1> QED BY <1>1, <1>2, TotalIs, SumAt

\* The total of natural numbers is one.
LEMMA TotalNat ==
  ASSUME NEW S, IsFiniteSet(S), NEW f, Numbers(f, S)
  PROVE  Total(f, S) \in Nat
<1>1. PICK g : IsSum(g, f, S)
  BY SumExists
<1>2. g[S] \in Nat
  BY <1>1, SumNat
<1> QED BY <1>1, <1>2, TotalIs

\* The total without one of the elements.
LEMMA TotalRemove ==
  ASSUME NEW S, IsFiniteSet(S), NEW f, Numbers(f, S), NEW x \in S
  PROVE  Total(f, S) = f[x] + Total(f, S \ {x}) /\ Total(f, S \ {x}) \in Nat
<1>1. PICK g : IsSum(g, f, S)
  BY SumExists
<1>2. g[S] = f[x] + g[S \ {x}] /\ g[S \ {x}] \in Nat
  <2>1. AnyFirst(g, f, S)
    BY <1>1, SumAny, Zenon
  <2>2. \A s \in SUBSET S : g[s] \in Nat
    BY <1>1, SumNat, Zenon
  <2>3. S \in SUBSET S /\ S \ {x} \in SUBSET S
    OBVIOUS
  <2> QED BY <2>1, <2>2, <2>3, Zenon DEF AnyFirst
<1>3. Total(f, S) = g[S] /\ Total(f, S \ {x}) = g[S \ {x}]
  BY <1>1, TotalIs
<1> QED BY <1>2, <1>3

\* The total with one more element.
LEMMA TotalAdd ==
  ASSUME NEW S, IsFiniteSet(S), NEW f, NEW x, x \notin S, Numbers(f, S \cup {x})
  PROVE  Total(f, S \cup {x}) = Total(f, S) + f[x]
<1> DEFINE T == S \cup {x}
<1>1. IsFiniteSet(T) /\ x \in T /\ T \ {x} = S
  BY FS_AddElement
<1> HIDE DEF T
<1>2. Numbers(f, T)
  BY DEF T
<1>3. Total(f, T) = f[x] + Total(f, T \ {x}) /\ Total(f, T \ {x}) \in Nat
  BY <1>1, <1>2, TotalRemove
<1>4. f[x] \in Nat /\ Total(f, T) = f[x] + Total(f, S) /\ Total(f, S) \in Nat
  BY <1>1, <1>2, <1>3 DEF Numbers
<1>5. Total(f, T) = Total(f, S) + f[x]
  BY <1>4
<1> QED BY <1>5 DEF T

\* A total depends only on the values over its set.
LEMMA TotalSame ==
  ASSUME NEW S, IsFiniteSet(S), NEW f, NEW h, \A x \in S : f[x] = h[x]
  PROVE  Total(f, S) = Total(h, S)
<1>1. PICK g : IsSum(g, f, S)
  BY SumExists
<1>2. \A s \in SUBSET S : s # {} => Chosen(s) \in S
  BY ChosenIn
<1> HIDE DEF Chosen
<1>3. [s \in SUBSET S |-> IF s = {} THEN 0 ELSE f[Chosen(s)] + g[s \ {Chosen(s)}]]
        = [s \in SUBSET S |-> IF s = {} THEN 0 ELSE h[Chosen(s)] + g[s \ {Chosen(s)}]]
  BY <1>2
<1>4. IsSum(g, h, S)
  BY <1>1, <1>3 DEF IsSum
<1> QED BY <1>1, <1>4, TotalIs

\* A part of a set has the smaller total.
LEMMA TotalPart ==
  ASSUME NEW T, IsFiniteSet(T), NEW f, Numbers(f, T), NEW S \in SUBSET T
  PROVE  Total(f, S) <= Total(f, T)
<1> DEFINE C == {u \in SUBSET T : S \subseteq u /\ ~(Total(f, S) <= Total(f, u))}
<1>1. SUFFICES ASSUME C # {} PROVE FALSE
  <2>1. T \in SUBSET T
    OBVIOUS
  <2> QED BY <2>1
<1>2. PICK u \in C : \A v \in C : v \subseteq u => v = u
  <2>1. C \in SUBSET (SUBSET T)
    OBVIOUS
  <2> HIDE DEF C
  <2> QED BY <1>1, <2>1, Minimal
<1>3. /\ IsFiniteSet(u) /\ IsFiniteSet(S) /\ S \subseteq u /\ u \subseteq T
      /\ Numbers(f, u) /\ Numbers(f, S)
  BY FS_Subset DEF Numbers
<1>4. Total(f, S) \in Nat /\ Total(f, u) \in Nat
  BY <1>3, TotalNat
<1>5. S # u
  BY <1>4
<1>6. PICK x \in u : x \notin S
  BY <1>3, <1>5
<1>7. Total(f, u) = f[x] + Total(f, u \ {x}) /\ Total(f, u \ {x}) \in Nat /\ f[x] \in Nat
  BY <1>3, TotalRemove DEF Numbers
<1>8. u \ {x} \notin C /\ u \ {x} \in SUBSET T /\ S \subseteq u \ {x}
  BY <1>2, <1>3, <1>6
<1>9. Total(f, S) <= Total(f, u \ {x})
  BY <1>8
<1>10. ~(Total(f, S) <= Total(f, u))
  OBVIOUS
<1> HIDE DEF C
<1> QED BY <1>4, <1>7, <1>9, <1>10

-----------------------------------------------------------------------------
(***************************************************************************)
(* The artifact store.  StoreInv says how far what a locked call has read  *)
(* is still right: entries and free bytes are read once, and the worker    *)
(* fills its own directory meanwhile.                                      *)
(***************************************************************************)

\* A directory: the state of its record and its bytes.
Directory == [state : Store!States, size : 0 .. MaxSize]

\* The bytes of each directory.
SizeOf(ds) == [d \in DOMAIN ds |-> ds[d].size]

\* The directories that a clean may delete.
Ended(ds) == {d \in DOMAIN ds : ds[d].state = "ended"}

\* A locked call: what is left of its entries, and its counters.
StoreCall ==
  [kind : {"none", "clean", "create", "finish"},
   todo : SUBSET [dir : Store!Dir, state : Store!States, size : 0 .. MaxSize],
   total : Nat, free : Nat, reserve : {0, Reserve}]

\* Every variable of the store is in its domain.
StoreTypes ==
  /\ dirs \in Seq(Directory) /\ Len(dirs) <= MaxDirs
  /\ holder \in {"nobody", "worker", "service"}
  /\ call \in StoreCall
  /\ current \in 0 .. Len(dirs) /\ unknown \in SUBSET (1 .. Len(dirs))

\* The worker's directory is active, and what an unknown operation left is recorded.
Evidence == (current # 0 => dirs[current].state = "active") /\ Store!EvidenceKept

\* The directories fit on the disk.
Fits(ds) == Store!Bytes(ds, DOMAIN ds) <= Disk

\* Only a holder of the lock has a call, and create is the worker's, between two operations.
Calls ==
  /\ holder = "nobody" => call = Store!NoCall
  /\ call.kind = "create" =>
       holder = "worker" /\ current = 0 /\ call.reserve = Reserve /\ Len(dirs) < MaxDirs

\* The entries that are left are as they were read, but for the sizes of those that no clean
\* deletes, and none that it may delete is missing.
Listed(c, ds) ==
  /\ \A e \in c.todo : /\ e.dir \in DOMAIN ds /\ ds[e.dir].state = e.state
                       /\ e.state = "ended" => ds[e.dir].size = e.size
  /\ \A d \in Ended(ds) : \E e \in c.todo : e.dir = d

\* The counters of a call were right when they were read, and the only thing that happens
\* meanwhile is that the worker's directory grows under a clean of the service.
Counted(c, ds, exact) ==
  /\ c.total <= Store!Bytes(ds, Store!Recorded(ds))
  /\ Disk - Store!Bytes(ds, DOMAIN ds) <= c.free
  /\ exact => /\ c.total = Store!Bytes(ds, Store!Recorded(ds))
              /\ c.free = Disk - Store!Bytes(ds, DOMAIN ds)
  /\ Store!Bytes(ds, Ended(ds)) <= c.total

\* What holds of the artifact store at every moment.
StoreInv ==
  /\ StoreTypes /\ Evidence /\ Fits(dirs) /\ Calls
  /\ holder # "nobody" => Listed(call, dirs) /\ Counted(call, dirs, holder = "worker")

\* The constants of the store.
LEMMA StoreBounds ==
  /\ MaxDirs \in Nat /\ MaxSize \in Nat /\ Maximum \in Nat /\ Disk \in Nat
  /\ MinimumFree \in Nat /\ Reserve \in Nat
  BY ConstantsAssumption DEF Store!Constants

\* The fold that adds up the bytes of directories is their total.
LEMMA BytesTotal ==
  ASSUME NEW ds, NEW S \in SUBSET DOMAIN ds, IsFiniteSet(S)
  PROVE  Store!Bytes(ds, S) = Total(SizeOf(ds), S)
<1> DEFINE A(g) == [s \in SUBSET S |-> IF s = {} THEN 0 ELSE ds[Chosen(s)].size + g[s \ {Chosen(s)}]]
           P(g) == g = A(g)
<1>1. Store!Bytes(ds, S) = (CHOOSE g : P(g))[S]
  BY Zenon DEF Store!Bytes, Store!MapThenSumSet, Store!MapThenFoldSet, Chosen
<1>2. ASSUME NEW g PROVE P(g) <=> IsSum(g, SizeOf(ds), S)
  <2>1. \A s \in SUBSET S : s # {} => SizeOf(ds)[Chosen(s)] = ds[Chosen(s)].size
    BY ChosenIn DEF SizeOf
  <2>2. A(g) = [s \in SUBSET S |-> IF s = {} THEN 0 ELSE SizeOf(ds)[Chosen(s)] + g[s \ {Chosen(s)}]]
    BY <2>1
  <2> QED BY <2>2, Zenon DEF IsSum
<1> HIDE DEF P
<1>3. \E g : P(g)
  BY <1>2, SumExists
<1> DEFINE h == CHOOSE g : P(g)
<1>4. P(h)
  BY <1>3, Zenon
<1>5. IsSum(h, SizeOf(ds), S)
  BY <1>2, <1>4, Zenon
<1> HIDE DEF h
<1>6. Total(SizeOf(ds), S) = h[S]
  BY <1>5, TotalHere
<1> QED BY <1>1, <1>6, Zenon DEF h

\* The directories are finitely many, and their sizes are natural numbers.
LEMMA Finitely ==
  ASSUME NEW ds \in Seq(Directory), NEW S \in SUBSET DOMAIN ds
  PROVE  /\ IsFiniteSet(S) /\ Numbers(SizeOf(ds), S) /\ DOMAIN ds = 1 .. Len(ds)
         /\ \A d \in S : SizeOf(ds)[d] = ds[d].size /\ ds[d].size \in Nat
<1>1. DOMAIN ds = 1 .. Len(ds) /\ Len(ds) \in Nat
  OBVIOUS
<1>2. IsFiniteSet(S)
  <2>1. IsFiniteSet(1 .. Len(ds))
    BY <1>1, FS_Interval
  <2> QED BY <1>1, <2>1, FS_Subset
<1>3. ASSUME NEW d \in S PROVE SizeOf(ds)[d] = ds[d].size /\ ds[d].size \in Nat
  <2>1. ds[d] \in Directory
    BY <1>1
  <2> QED BY <2>1, StoreBounds DEF SizeOf, Directory
<1> QED BY <1>1, <1>2, <1>3 DEF Numbers

\* The bytes of directories, their parts, and the bytes without one of them.
LEMMA BytesOf ==
  ASSUME NEW ds \in Seq(Directory), NEW T \in SUBSET DOMAIN ds
  PROVE  /\ Store!Bytes(ds, T) \in Nat
         /\ \A S \in SUBSET T : Store!Bytes(ds, S) \in Nat /\ Store!Bytes(ds, S) <= Store!Bytes(ds, T)
         /\ \A d \in T : Store!Bytes(ds, T) = ds[d].size + Store!Bytes(ds, T \ {d})
<1>1. IsFiniteSet(T) /\ Numbers(SizeOf(ds), T) /\ Store!Bytes(ds, T) = Total(SizeOf(ds), T)
  BY Finitely, BytesTotal
<1>2. ASSUME NEW S \in SUBSET T
      PROVE  Store!Bytes(ds, S) = Total(SizeOf(ds), S) /\ Total(SizeOf(ds), S) \in Nat
  <2>1. S \in SUBSET DOMAIN ds
    OBVIOUS
  <2>2. IsFiniteSet(S) /\ Numbers(SizeOf(ds), S)
    BY <2>1, Finitely
  <2> QED BY <2>1, <2>2, BytesTotal, TotalNat
<1>3. ASSUME NEW S \in SUBSET T PROVE Total(SizeOf(ds), S) <= Total(SizeOf(ds), T)
  BY <1>1, TotalPart
<1>4. ASSUME NEW d \in T PROVE Store!Bytes(ds, T) = ds[d].size + Store!Bytes(ds, T \ {d})
  <2>1. Total(SizeOf(ds), T) = SizeOf(ds)[d] + Total(SizeOf(ds), T \ {d})
    BY <1>1, TotalRemove
  <2>2. T \ {d} \in SUBSET T
    OBVIOUS
  <2> QED BY <1>1, <1>2, <2>1, <2>2, Finitely
<1>5. Store!Bytes(ds, T) \in Nat
  BY <1>1, TotalNat
<1> QED BY <1>1, <1>2, <1>3, <1>4, <1>5

\* Directories of the same sizes have the same bytes.
LEMMA BytesSame ==
  ASSUME NEW ds \in Seq(Directory), NEW es \in Seq(Directory),
         NEW S \in SUBSET DOMAIN ds, S \subseteq DOMAIN es, \A d \in S : ds[d].size = es[d].size
  PROVE  Store!Bytes(ds, S) = Store!Bytes(es, S)
<1>1. IsFiniteSet(S) /\ (\A d \in S : SizeOf(ds)[d] = SizeOf(es)[d])
  BY Finitely DEF SizeOf
<1>2. Total(SizeOf(ds), S) = Total(SizeOf(es), S)
  BY <1>1, TotalSame
<1> QED BY <1>1, <1>2, BytesTotal

\* es is ds with another record for one directory.
Changes(ds, es, d, r) ==
  /\ es \in Seq(Directory) /\ Len(es) = Len(ds) /\ DOMAIN es = DOMAIN ds /\ es[d] = r
  /\ \A x \in DOMAIN ds : x # d => es[x] = ds[x]

\* What one directory's change does to the directories.
LEMMA Changed ==
  ASSUME NEW ds \in Seq(Directory), NEW d \in DOMAIN ds, NEW r \in Directory
  PROVE  Changes(ds, [ds EXCEPT ![d] = r], d, r)
<1> DEFINE es == [ds EXCEPT ![d] = r]
<1>1. DOMAIN ds = 1 .. Len(ds)
  OBVIOUS
<1>2. /\ es \in Seq(Directory) /\ Len(es) = Len(ds)
      /\ \A x \in 1 .. Len(ds) : es[x] = IF x = d THEN r ELSE ds[x]
  BY <1>1, ExceptSeq
<1> HIDE DEF es
<1>3. DOMAIN es = DOMAIN ds /\ es[d] = r /\ \A x \in DOMAIN ds : x # d => es[x] = ds[x]
  BY <1>1, <1>2
<1> QED BY <1>2, <1>3 DEF es, Changes

\* What it does to the bytes of the other directories.
LEMMA OtherBytes ==
  ASSUME NEW ds \in Seq(Directory), NEW es, NEW d \in DOMAIN ds, NEW r,
         Changes(ds, es, d, r), NEW S \in SUBSET DOMAIN ds, d \notin S
  PROVE  Store!Bytes(es, S) = Store!Bytes(ds, S)
<1>1. es \in Seq(Directory) /\ DOMAIN es = DOMAIN ds /\ \A x \in DOMAIN ds : x # d => es[x] = ds[x]
  BY DEF Changes
<1>2. S \subseteq DOMAIN es /\ \A x \in S : ds[x].size = es[x].size
  BY <1>1
<1> QED BY <1>1, <1>2, BytesSame

\* The bytes of directories S, d among them, before and after d has changed.
Moves(ds, es, S, d) ==
  /\ Store!Bytes(es, S) = Store!Bytes(ds, S \ {d}) + es[d].size
  /\ Store!Bytes(ds, S) = Store!Bytes(ds, S \ {d}) + ds[d].size
  /\ Store!Bytes(es, S \ {d}) = Store!Bytes(ds, S \ {d}) /\ Store!Bytes(ds, S \ {d}) \in Nat

\* What it does to the bytes of directories among which it is.
LEMMA ChangedBytes ==
  ASSUME NEW ds \in Seq(Directory), NEW es, NEW d \in DOMAIN ds, NEW r \in Directory,
         Changes(ds, es, d, r), NEW S \in SUBSET DOMAIN ds, d \in S
  PROVE  Moves(ds, es, S, d)
<1>1. es \in Seq(Directory) /\ DOMAIN es = DOMAIN ds /\ es[d] = r
  BY DEF Changes
<1>2. S \ {d} \in SUBSET DOMAIN ds
  OBVIOUS
<1>3. Store!Bytes(es, S \ {d}) = Store!Bytes(ds, S \ {d})
  BY <1>2, OtherBytes
<1>4. Store!Bytes(ds, S \ {d}) \in Nat
  BY <1>2, BytesOf
<1>5. Store!Bytes(es, S) = es[d].size + Store!Bytes(es, S \ {d})
  BY <1>1, BytesOf
<1>6. Store!Bytes(ds, S) = ds[d].size + Store!Bytes(ds, S \ {d})
  BY BytesOf
<1>7. r.size \in Nat /\ ds[d].size \in Nat
  <2>1. ds[d] \in Directory
    OBVIOUS
  <2> QED BY <2>1, StoreBounds DEF Directory
<1> QED BY <1>1, <1>3, <1>4, <1>5, <1>6, <1>7 DEF Moves

\* What a new, empty directory does.
LEMMA Appended ==
  ASSUME NEW ds \in Seq(Directory), NEW r \in Directory, r.size = 0
  PROVE  LET es == Append(ds, r)
         IN /\ es \in Seq(Directory) /\ Len(es) = Len(ds) + 1 /\ es[Len(ds) + 1] = r
            /\ \A x \in DOMAIN ds : es[x] = ds[x]
            /\ Store!Bytes(es, DOMAIN es) = Store!Bytes(ds, DOMAIN ds)
<1> DEFINE es == Append(ds, r)
           n == Len(ds) + 1
<1>1. /\ es \in Seq(Directory) /\ Len(es) = n /\ es[n] = r
      /\ \A x \in 1 .. Len(ds) : es[x] = ds[x]
  BY AppendProperties
<1>2. DOMAIN ds = 1 .. Len(ds) /\ Len(ds) \in Nat
  OBVIOUS
<1> HIDE DEF es
<1>3. DOMAIN es = 1 .. n
  BY <1>1
<1>4. DOMAIN es \ {n} = DOMAIN ds /\ n \in DOMAIN es
  BY <1>2, <1>3
<1>5. Store!Bytes(es, DOMAIN es) = es[n].size + Store!Bytes(es, DOMAIN ds) /\ Store!Bytes(es, DOMAIN ds) \in Nat
  BY <1>1, <1>4, BytesOf
<1>6. Store!Bytes(es, DOMAIN ds) = Store!Bytes(ds, DOMAIN ds)
  BY <1>1, <1>2, <1>4, BytesSame
<1>7. Store!Bytes(es, DOMAIN es) = Store!Bytes(ds, DOMAIN ds)
  BY <1>1, <1>5, <1>6
<1> HIDE DEF n
<1> QED BY <1>1, <1>2, <1>7 DEF es, n

\* What the head of _ensure reads is right at that moment.
LEMMA ScanIs ==
  ASSUME NEW ds \in Seq(Directory), Len(ds) <= MaxDirs, Fits(ds), NEW k \in {"clean", "create", "finish"},
         NEW r \in {0, Reserve}, NEW exact
  PROVE  LET c == Store!Scan(k, ds, r)
         IN /\ c \in StoreCall
            /\ c.kind = k /\ c.reserve = r
            /\ Listed(c, ds) /\ Counted(c, ds, exact)
<1> DEFINE c == Store!Scan(k, ds, r)
           todo == Store!Entries(ds)
           total == Store!Bytes(ds, Store!Recorded(ds))
           free == Disk - Store!Bytes(ds, DOMAIN ds)
<1>1. c = [kind |-> k, todo |-> todo, reserve |-> r, total |-> total, free |-> free]
  BY Zenon DEF Store!Scan
<1>2. /\ DOMAIN ds = 1 .. Len(ds) /\ Store!Recorded(ds) \in SUBSET DOMAIN ds
      /\ Ended(ds) \in SUBSET Store!Recorded(ds)
  BY DEF Store!Recorded, Ended
<1>3. total \in Nat /\ Store!Bytes(ds, Ended(ds)) <= total
  BY <1>2, BytesOf
<1>4. Store!Bytes(ds, DOMAIN ds) \in Nat
  BY BytesOf
<1>5. free \in Nat
  BY <1>4, StoreBounds DEF Fits
<1>6. ASSUME NEW e \in todo
      PROVE  /\ e \in [dir : Store!Dir, state : Store!States, size : 0 .. MaxSize]
             /\ e.dir \in DOMAIN ds /\ ds[e.dir].state = e.state /\ ds[e.dir].size = e.size
  <2>1. PICK d \in Store!Recorded(ds) : e = [dir |-> d, state |-> ds[d].state, size |-> ds[d].size]
    BY DEF Store!Entries
  <2>2. ds[d] \in Directory /\ d \in DOMAIN ds
    BY <1>2
  <2>3. d \in Store!Dir
    BY <1>2, StoreBounds DEF Store!Dir
  <2> QED BY <2>1, <2>2, <2>3 DEF Directory
<1>7. ASSUME NEW d \in Ended(ds) PROVE \E e \in todo : e.dir = d
  <2>1. d \in Store!Recorded(ds)
    BY <1>2
  <2>2. [dir |-> d, state |-> ds[d].state, size |-> ds[d].size] \in todo
    BY <2>1 DEF Store!Entries
  <2> QED BY <2>2
<1> HIDE DEF todo, total, free
<1>8. todo \in SUBSET [dir : Store!Dir, state : Store!States, size : 0 .. MaxSize]
  BY <1>6
<1>9. /\ c \in StoreCall
      /\ c.kind = k /\ c.reserve = r /\ c.todo = todo /\ c.total = total /\ c.free = free
  <2> HIDE DEF c
  <2> QED BY <1>1, <1>3, <1>5, <1>8 DEF StoreCall
<1> HIDE DEF c
<1>10. Listed(c, ds)
  BY <1>6, <1>7, <1>9 DEF Listed
<1>11. Counted(c, ds, exact)
  <2>1. c.total <= Store!Bytes(ds, Store!Recorded(ds)) /\ Disk - Store!Bytes(ds, DOMAIN ds) <= c.free
    BY <1>3, <1>5, <1>9 DEF total, free
  <2>2. c.total = Store!Bytes(ds, Store!Recorded(ds)) /\ c.free = Disk - Store!Bytes(ds, DOMAIN ds)
    BY <1>9 DEF total, free
  <2>3. Store!Bytes(ds, Ended(ds)) <= c.total
    BY <1>3, <1>9
  <2> QED BY <2>1, <2>2, <2>3, Zenon DEF Counted
<1> QED BY <1>9, <1>10, <1>11, Zenon DEF c

\* A call that has ended.
LEMMA NoCallIs ==
  /\ Store!NoCall \in StoreCall
  /\ Store!NoCall.kind = "none"
  BY DEF Store!NoCall, StoreCall

\* The store is empty at first.
LEMMA StoreInit == Store!Init => StoreInv
<1> SUFFICES ASSUME Store!Init PROVE StoreInv
  OBVIOUS
<1>1. dirs = <<>> /\ holder = "nobody" /\ call = Store!NoCall /\ current = 0 /\ unknown = {}
  BY DEF Store!Init
<1>2. dirs \in Seq(Directory) /\ Len(dirs) = 0 /\ DOMAIN dirs = {}
  BY <1>1
<1>3. StoreTypes
  BY <1>1, <1>2, NoCallIs, StoreBounds DEF StoreTypes
<1>4. Evidence
  BY <1>1 DEF Evidence, Store!EvidenceKept
<1>5. Fits(dirs)
  <2>1. IsFiniteSet({}) /\ {} \in SUBSET DOMAIN dirs
    BY FS_EmptySet
  <2>2. Store!Bytes(dirs, {}) = 0
    BY <2>1, BytesTotal, TotalEmpty
  <2> QED BY <1>2, <2>2, StoreBounds DEF Fits
<1>6. Calls
  BY <1>1, NoCallIs DEF Calls
<1> QED BY <1>1, <1>3, <1>4, <1>5, <1>6 DEF StoreInv

\* The lock is taken for clean.
LEMMA StoreClean == StoreInv /\ Store!Clean => StoreInv'
<1> SUFFICES ASSUME StoreInv, Store!Clean PROVE StoreInv'
  OBVIOUS
<1>1. StoreTypes /\ Evidence /\ Fits(dirs) /\ Calls
  BY DEF StoreInv
<1>2. /\ holder = "nobody" /\ holder' \in {"worker", "service"} /\ call' = Store!Scan("clean", dirs, 0)
      /\ UNCHANGED dirs /\ UNCHANGED current /\ UNCHANGED unknown
  BY DEF Store!Clean
<1>3. dirs \in Seq(Directory) /\ Len(dirs) <= MaxDirs
  BY <1>1 DEF StoreTypes
<1>4. /\ call' \in StoreCall
      /\ call'.kind = "clean"
      /\ Listed(call', dirs) /\ Counted(call', dirs, holder' = "worker")
  BY <1>1, <1>2, <1>3, ScanIs
<1>5. StoreTypes'
  BY <1>1, <1>2, <1>4 DEF StoreTypes
<1>6. Evidence' /\ Fits(dirs')
  BY <1>1, <1>2 DEF Evidence, Store!EvidenceKept
<1>7. Calls'
  BY <1>2, <1>4 DEF Calls
<1> QED BY <1>2, <1>4, <1>5, <1>6, <1>7, Zenon DEF StoreInv

\* The lock is taken for create.
LEMMA StoreCreate == StoreInv /\ Store!Create => StoreInv'
<1> SUFFICES ASSUME StoreInv, Store!Create PROVE StoreInv'
  OBVIOUS
<1>1. StoreTypes /\ Evidence /\ Fits(dirs) /\ Calls
  BY DEF StoreInv
<1>2. /\ holder = "nobody" /\ current = 0 /\ Len(dirs) < MaxDirs
      /\ holder' = "worker" /\ call' = Store!Scan("create", dirs, Reserve)
      /\ UNCHANGED dirs /\ UNCHANGED current /\ UNCHANGED unknown
  BY DEF Store!Create
<1>3. dirs \in Seq(Directory) /\ Len(dirs) <= MaxDirs
  BY <1>1 DEF StoreTypes
<1>4. /\ call' \in StoreCall
      /\ call'.kind = "create" /\ call'.reserve = Reserve
      /\ Listed(call', dirs) /\ Counted(call', dirs, holder' = "worker")
  BY <1>1, <1>2, <1>3, ScanIs
<1>5. StoreTypes'
  BY <1>1, <1>2, <1>4 DEF StoreTypes
<1>6. Evidence' /\ Fits(dirs')
  BY <1>1, <1>2 DEF Evidence, Store!EvidenceKept
<1>7. Calls'
  BY <1>2, <1>4 DEF Calls
<1> QED BY <1>2, <1>4, <1>5, <1>6, <1>7, Zenon DEF StoreInv

\* An operation ends: its directory is recorded as protected or ended, or removed.
LEMMA StoreFinish == StoreInv /\ Store!Finish => StoreInv'
<1> SUFFICES ASSUME StoreInv, Store!Finish PROVE StoreInv'
  OBVIOUS
<1>1. StoreTypes /\ Evidence /\ Fits(dirs) /\ Calls
  BY DEF StoreInv
<1>2. PICK keep \in BOOLEAN, poisoned \in BOOLEAN :
        dirs' = [dirs EXCEPT ![current] =
                   [state |-> Store!FinalState(keep, current \in unknown \/ poisoned),
                    size |-> IF Store!FinalState(keep, current \in unknown \/ poisoned) = "gone" THEN 0 ELSE @.size]]
  BY Zenon DEF Store!Finish
<1> DEFINE state == Store!FinalState(keep, current \in unknown \/ poisoned)
           r == [state |-> state, size |-> IF state = "gone" THEN 0 ELSE dirs[current].size]
<1>3. /\ holder = "nobody" /\ current # 0 /\ holder' = "worker" /\ call' = Store!Scan("finish", dirs', 0)
      /\ current' = 0 /\ UNCHANGED unknown
  BY Zenon DEF Store!Finish
<1>4. dirs \in Seq(Directory) /\ Len(dirs) <= MaxDirs /\ current \in DOMAIN dirs /\ unknown \in SUBSET (1 .. Len(dirs))
  BY <1>1, <1>3 DEF StoreTypes
<1>5. /\ state \in {"protected", "ended", "gone"}
      /\ current \in unknown => state = "protected"
  BY DEF Store!FinalState
<1>6. dirs' = [dirs EXCEPT ![current] = r]
  BY <1>2, <1>4
<1> HIDE DEF state
<1>7. dirs[current].size \in 0 .. MaxSize
  <2>1. dirs[current] \in Directory
    BY <1>4
  <2> QED BY <2>1 DEF Directory
<1>8. r \in Directory /\ r.size \in 0 .. dirs[current].size /\ r.state = state
  BY <1>5, <1>7, StoreBounds DEF Directory, Store!States
<1> HIDE DEF r
<1>0. Changes(dirs, dirs', current, r)
  BY <1>4, <1>6, <1>8, Changed
<1>9. /\ dirs' \in Seq(Directory) /\ Len(dirs') = Len(dirs) /\ DOMAIN dirs' = DOMAIN dirs /\ dirs'[current] = r
      /\ \A x \in DOMAIN dirs : x # current => dirs'[x] = dirs[x]
  BY <1>0 DEF Changes
<1>10. Fits(dirs')
  <2>1. /\ Store!Bytes(dirs', DOMAIN dirs) = Store!Bytes(dirs, DOMAIN dirs \ {current}) + dirs'[current].size
        /\ Store!Bytes(dirs, DOMAIN dirs) = Store!Bytes(dirs, DOMAIN dirs \ {current}) + dirs[current].size
        /\ Store!Bytes(dirs, DOMAIN dirs \ {current}) \in Nat
    <3>1. DOMAIN dirs \in SUBSET DOMAIN dirs
      OBVIOUS
    <3>2. Moves(dirs, dirs', DOMAIN dirs, current)
      BY <1>0, <1>4, <1>8, <3>1, ChangedBytes
    <3> QED BY <3>2 DEF Moves
  <2> QED BY <1>1, <1>7, <1>8, <1>9, <2>1, StoreBounds DEF Fits
<1>11. /\ call' \in StoreCall /\ call'.kind = "finish"
       /\ Listed(call', dirs') /\ Counted(call', dirs', holder' = "worker")
  BY <1>3, <1>4, <1>9, <1>10, ScanIs
<1>12. StoreTypes'
  BY <1>3, <1>4, <1>9, <1>11, StoreBounds DEF StoreTypes
<1>13. Evidence'
  BY <1>1, <1>3, <1>4, <1>5, <1>8, <1>9 DEF Evidence, Store!EvidenceKept
<1>14. Calls'
  BY <1>3, <1>11 DEF Calls
<1> QED BY <1>3, <1>10, <1>11, <1>12, <1>13, <1>14, Zenon DEF StoreInv

\* A directory that is deleted is ended, is where the call says, and no older one is ended.
LEMMA FirstIs ==
  ASSUME StoreInv, holder # "nobody", NEW e, Store!First(e, call.todo), Store!Deletable(e.state)
  PROVE  /\ e \in [dir : Store!Dir, state : Store!States, size : 0 .. MaxSize] /\ e \in call.todo
         /\ e.dir \in DOMAIN dirs /\ dirs[e.dir].state = "ended" /\ dirs[e.dir].size = e.size
         /\ \A d \in Ended(dirs) : e.dir <= d
         /\ \A f \in call.todo : f.dir = e.dir => f = e
<1>1. StoreTypes /\ Listed(call, dirs)
  BY DEF StoreInv
<1>2. e \in call.todo /\ (\A f \in call.todo : e.dir <= f.dir) /\ e.state = "ended"
  BY DEF Store!First, Store!Deletable
<1>3. call.todo \in SUBSET [dir : Store!Dir, state : Store!States, size : 0 .. MaxSize]
  BY <1>1 DEF StoreTypes, StoreCall
<1>4. e.dir \in DOMAIN dirs /\ dirs[e.dir].state = "ended" /\ dirs[e.dir].size = e.size
  BY <1>1, <1>2 DEF Listed
<1>5. ASSUME NEW d \in Ended(dirs) PROVE e.dir <= d
  BY <1>1, <1>2 DEF Listed
<1>6. ASSUME NEW f \in call.todo, f.dir = e.dir PROVE f = e
  <2>1. f.state = "ended" /\ f.size = e.size
    BY <1>1, <1>4, <1>6 DEF Listed
  <2> QED BY <1>2, <1>3, <1>6, <2>1
<1> QED BY <1>2, <1>3, <1>4, <1>5, <1>6

\* One round of the loop: the counters and the directories lose the same bytes.
LEMMA StoreRound == StoreInv /\ Store!Round => StoreInv'
<1> SUFFICES ASSUME StoreInv, Store!Round PROVE StoreInv'
  OBVIOUS
<1>1. /\ StoreTypes /\ Evidence /\ Fits(dirs) /\ Calls
      /\ holder # "nobody" => Listed(call, dirs) /\ Counted(call, dirs, holder = "worker")
  BY Zenon DEF StoreInv
<1>2. PICK e \in call.todo :
        /\ Store!First(e, call.todo)
        /\ IF Store!Deletable(e.state)
           THEN /\ dirs' = [dirs EXCEPT ![e.dir] = [state |-> "gone", size |-> 0]]
                /\ call' = Store!Freed(call, e)
           ELSE call' = [call EXCEPT !.todo = @ \ {e}] /\ UNCHANGED dirs
  BY Zenon DEF Store!Round
<1>3. holder # "nobody" /\ UNCHANGED holder /\ UNCHANGED current /\ UNCHANGED unknown
  BY Zenon DEF Store!Round
<1>4. /\ dirs \in Seq(Directory) /\ Len(dirs) <= MaxDirs /\ call \in StoreCall
      /\ unknown \in SUBSET (1 .. Len(dirs)) /\ current \in 0 .. Len(dirs) /\ DOMAIN dirs = 1 .. Len(dirs)
  BY <1>1 DEF StoreTypes
<1>5. CASE ~Store!Deletable(e.state)
  <2>1. call' = [call EXCEPT !.todo = @ \ {e}] /\ UNCHANGED dirs
    BY <1>2, <1>5
  <2>2. /\ call' \in StoreCall /\ call'.todo = call.todo \ {e} /\ call'.total = call.total
        /\ call'.free = call.free /\ call'.kind = call.kind /\ call'.reserve = call.reserve
    BY <1>4, <2>1 DEF StoreCall
  <2>3. StoreTypes'
    BY <1>1, <1>3, <2>1, <2>2 DEF StoreTypes
  <2>4. Evidence' /\ Fits(dirs') /\ Calls'
    BY <1>1, <1>3, <2>1, <2>2 DEF Evidence, Store!EvidenceKept, Calls
  <2>5. Listed(call', dirs)
    <3>1. ASSUME NEW d \in Ended(dirs) PROVE \E f \in call'.todo : f.dir = d
      <4>1. PICK f \in call.todo : f.dir = d
        BY <1>1, <1>3 DEF Listed
      <4>2. dirs[d].state = "ended" /\ dirs[f.dir].state = f.state
        BY <1>1, <1>3 DEF Listed, Ended
      <4>3. f # e
        BY <1>5, <4>1, <4>2 DEF Store!Deletable
      <4> QED BY <2>2, <4>1, <4>3
    <3> QED BY <1>1, <1>3, <2>2, <3>1 DEF Listed
  <2>6. Counted(call', dirs, holder = "worker")
    BY <1>1, <1>3, <2>2, Zenon DEF Counted
  <2>7. Listed(call', dirs') /\ Counted(call', dirs', holder' = "worker")
    BY <1>3, <2>1, <2>5, <2>6, Zenon
  <2> QED BY <2>3, <2>4, <2>7, Zenon DEF StoreInv
<1>6. CASE Store!Deletable(e.state)
  <2> DEFINE d == e.dir
             r == [state |-> "gone", size |-> 0]
             R == Store!Recorded(dirs)
             E == Ended(dirs)
  <2>1. dirs' = [dirs EXCEPT ![d] = r] /\ call' = Store!Freed(call, e)
    BY <1>2, <1>6
  <2>2. /\ e \in [dir : Store!Dir, state : Store!States, size : 0 .. MaxSize] /\ e \in call.todo
        /\ d \in DOMAIN dirs /\ dirs[d].state = "ended" /\ dirs[d].size = e.size
        /\ \A f \in call.todo : f.dir = d => f = e
    BY <1>2, <1>3, <1>6, FirstIs
  <2>3. r \in Directory /\ r.size = 0 /\ r.state = "gone"
    BY StoreBounds DEF Directory, Store!States
  <2> HIDE DEF r
  <2>0. Changes(dirs, dirs', d, r)
    BY <1>4, <2>1, <2>2, <2>3, Changed
  <2>4. /\ dirs' \in Seq(Directory) /\ Len(dirs') = Len(dirs) /\ DOMAIN dirs' = DOMAIN dirs /\ dirs'[d] = r
        /\ \A x \in DOMAIN dirs : x # d => dirs'[x] = dirs[x]
    BY <2>0 DEF Changes
  <2>5. /\ Store!Recorded(dirs') = R \ {d} /\ Ended(dirs') = E \ {d} /\ d \in R /\ d \in E
        /\ R \in SUBSET DOMAIN dirs /\ E \in SUBSET DOMAIN dirs
    BY <2>2, <2>3, <2>4 DEF Store!Recorded, Ended
  <2>6. e.size \in Nat /\ call.total \in Nat /\ call.free \in Nat
    BY <1>4, <2>2, StoreBounds DEF StoreCall
  <2> HIDE DEF R, E, d
  <2>7. ASSUME NEW S \in SUBSET DOMAIN dirs, d \in S
        PROVE  /\ Store!Bytes(dirs, S) = e.size + Store!Bytes(dirs, S \ {d}) /\ Store!Bytes(dirs, S \ {d}) \in Nat
               /\ Store!Bytes(dirs', S) = Store!Bytes(dirs, S \ {d})
               /\ Store!Bytes(dirs', S \ {d}) = Store!Bytes(dirs, S \ {d})
    <3>1. /\ Store!Bytes(dirs, S) = Store!Bytes(dirs, S \ {d}) + dirs[d].size
          /\ Store!Bytes(dirs', S) = Store!Bytes(dirs, S \ {d}) + dirs'[d].size
          /\ Store!Bytes(dirs', S \ {d}) = Store!Bytes(dirs, S \ {d})
          /\ Store!Bytes(dirs, S \ {d}) \in Nat
      <4>1. Moves(dirs, dirs', S, d)
        BY <1>4, <2>0, <2>2, <2>3, <2>7, ChangedBytes
      <4> QED BY <4>1 DEF Moves
    <3> QED BY <2>2, <2>3, <2>4, <2>6, <3>1
  <2>8. /\ Store!Bytes(dirs, R) = e.size + Store!Bytes(dirs, R \ {d}) /\ Store!Bytes(dirs, R \ {d}) \in Nat
        /\ Store!Bytes(dirs, E) = e.size + Store!Bytes(dirs, E \ {d}) /\ Store!Bytes(dirs, E \ {d}) \in Nat
        /\ Store!Bytes(dirs, DOMAIN dirs) = e.size + Store!Bytes(dirs, DOMAIN dirs \ {d})
        /\ Store!Bytes(dirs, DOMAIN dirs \ {d}) \in Nat
        /\ Store!Bytes(dirs', R \ {d}) = Store!Bytes(dirs, R \ {d})
        /\ Store!Bytes(dirs', E \ {d}) = Store!Bytes(dirs, E \ {d})
        /\ Store!Bytes(dirs', DOMAIN dirs) = Store!Bytes(dirs, DOMAIN dirs \ {d})
    BY <2>2, <2>5, <2>7
  <2>9. /\ call.total <= Store!Bytes(dirs, R) /\ Disk - Store!Bytes(dirs, DOMAIN dirs) <= call.free
        /\ holder = "worker" => call.total = Store!Bytes(dirs, R) /\ call.free = Disk - Store!Bytes(dirs, DOMAIN dirs)
        /\ Store!Bytes(dirs, E) <= call.total
    BY <1>1, <1>3 DEF Counted, R, E
  <2>10. call.total - e.size \in Nat /\ call.free + e.size \in Nat
    BY <2>6, <2>8, <2>9
  <2>11. /\ call' \in StoreCall /\ call'.todo = call.todo \ {e} /\ call'.total = call.total - e.size
         /\ call'.free = call.free + e.size /\ call'.kind = call.kind /\ call'.reserve = call.reserve
    BY <1>4, <2>1, <2>10 DEF StoreCall, Store!Freed
  <2>12. Counted(call', dirs', holder' = "worker")
    <3>1. call'.total <= Store!Bytes(dirs', R \ {d}) /\ Disk - Store!Bytes(dirs', DOMAIN dirs) <= call'.free
      BY <2>6, <2>8, <2>9, <2>11, StoreBounds
    <3>2. holder = "worker" => call'.total = Store!Bytes(dirs', R \ {d})
                               /\ call'.free = Disk - Store!Bytes(dirs', DOMAIN dirs)
      BY <2>6, <2>8, <2>9, <2>11, StoreBounds
    <3>3. Store!Bytes(dirs', E \ {d}) <= call'.total
      BY <2>6, <2>8, <2>9, <2>11
    <3> QED BY <1>3, <2>4, <2>5, <3>1, <3>2, <3>3, Zenon DEF Counted
  <2>13. Listed(call', dirs')
    <3>1. ASSUME NEW f \in call'.todo
          PROVE  /\ f.dir \in DOMAIN dirs' /\ dirs'[f.dir].state = f.state
                 /\ f.state = "ended" => dirs'[f.dir].size = f.size
      <4>1. f \in call.todo /\ f # e
        BY <2>11
      <4>2. f.dir # d /\ f.dir \in DOMAIN dirs /\ dirs[f.dir].state = f.state
        BY <1>1, <1>3, <2>2, <4>1 DEF Listed
      <4> QED BY <1>1, <1>3, <2>4, <4>1, <4>2 DEF Listed
    <3>2. ASSUME NEW x \in Ended(dirs') PROVE \E f \in call'.todo : f.dir = x
      <4>1. x \in Ended(dirs) /\ x # d
        BY <2>5 DEF E
      <4>2. PICK f \in call.todo : f.dir = x
        BY <1>1, <1>3, <4>1 DEF Listed
      <4> QED BY <2>11, <4>1, <4>2 DEF d
    <3> QED BY <3>1, <3>2 DEF Listed
  <2>14. StoreTypes'
    BY <1>1, <1>3, <2>4, <2>11 DEF StoreTypes
  <2>15. Evidence'
    <3>1. current # 0 => current # d
      BY <1>1, <2>2 DEF Evidence
    <3>2. ASSUME NEW x \in unknown PROVE x # d
      BY <1>1, <2>2 DEF Evidence, Store!EvidenceKept
    <3> QED BY <1>1, <1>3, <1>4, <2>4, <3>1, <3>2 DEF Evidence, Store!EvidenceKept
  <2>16. Fits(dirs')
    BY <1>1, <2>4, <2>6, <2>8, StoreBounds DEF Fits
  <2>17. Calls'
    BY <1>1, <1>3, <2>4, <2>11 DEF Calls
  <2> QED BY <2>12, <2>13, <2>14, <2>15, <2>16, <2>17, Zenon DEF StoreInv
<1> QED BY <1>5, <1>6

\* The lock is released: what is left of a call no longer matters.
LEMMA StoreUnlock ==
  ASSUME Store!Unlock, StoreTypes, dirs' \in Seq(Directory), Len(dirs') <= MaxDirs, Fits(dirs'), Evidence',
         current' \in 0 .. Len(dirs'), unknown' \in SUBSET (1 .. Len(dirs'))
  PROVE  StoreInv'
<1>1. holder' = "nobody" /\ call' = Store!NoCall
  BY DEF Store!Unlock
<1>2. StoreTypes'
  BY <1>1, NoCallIs DEF StoreTypes
<1>3. Calls'
  BY <1>1, NoCallIs DEF Calls
<1> QED BY <1>1, <1>2, <1>3 DEF StoreInv

\* A call is refused.
LEMMA StoreRefuse == StoreInv /\ Store!Refuse => StoreInv'
<1> SUFFICES ASSUME StoreInv, Store!Refuse PROVE StoreInv'
  OBVIOUS
<1>1. StoreTypes /\ Evidence /\ Fits(dirs)
  BY DEF StoreInv
<1>2. Store!Unlock /\ UNCHANGED dirs /\ UNCHANGED current /\ UNCHANGED unknown
  BY DEF Store!Refuse
<1>3. Evidence' /\ Fits(dirs')
  BY <1>1, <1>2 DEF Evidence, Store!EvidenceKept
<1>4. /\ dirs' \in Seq(Directory) /\ Len(dirs') <= MaxDirs /\ current' \in 0 .. Len(dirs')
      /\ unknown' \in SUBSET (1 .. Len(dirs'))
  BY <1>1, <1>2 DEF StoreTypes
<1> QED BY <1>1, <1>2, <1>3, <1>4, StoreUnlock

\* A new directory, by create or left by a crash in it.
LEMMA StoreMade ==
  ASSUME StoreInv, Store!Unlock, call.kind = "create", NEW state \in {"active", "bare"},
         dirs' = Append(dirs, [state |-> state, size |-> 0]), UNCHANGED unknown,
         current' = 0 \/ (current' = Len(dirs) + 1 /\ state = "active")
  PROVE  StoreInv'
<1> DEFINE r == [state |-> state, size |-> 0]
<1>1. StoreTypes /\ Evidence /\ Fits(dirs) /\ Calls
  BY DEF StoreInv
<1>2. dirs \in Seq(Directory) /\ Len(dirs) < MaxDirs /\ unknown \in SUBSET (1 .. Len(dirs)) /\ Len(dirs) \in Nat
  BY <1>1 DEF StoreTypes, Calls
<1>3. r \in Directory /\ r.size = 0 /\ r.state = state
  BY StoreBounds DEF Directory, Store!States
<1>4. dirs' = Append(dirs, r)
  OBVIOUS
<1> HIDE DEF r
<1>5. /\ dirs' \in Seq(Directory) /\ Len(dirs') = Len(dirs) + 1 /\ dirs'[Len(dirs) + 1] = r
      /\ \A x \in DOMAIN dirs : dirs'[x] = dirs[x]
      /\ Store!Bytes(dirs', DOMAIN dirs') = Store!Bytes(dirs, DOMAIN dirs)
  BY <1>2, <1>3, <1>4, Appended
<1>6. Fits(dirs')
  BY <1>1, <1>5 DEF Fits
<1>7. Evidence'
  <2>1. current' # 0 => dirs'[current'].state = "active"
    BY <1>3, <1>5
  <2>2. Store!EvidenceKept'
    BY <1>1, <1>2, <1>5 DEF Evidence, Store!EvidenceKept
  <2> QED BY <2>1, <2>2 DEF Evidence
<1>8. /\ Len(dirs') <= MaxDirs /\ current' \in 0 .. Len(dirs') /\ unknown' \in SUBSET (1 .. Len(dirs'))
  BY <1>2, <1>5, StoreBounds
<1> QED BY <1>1, <1>5, <1>6, <1>7, <1>8, StoreUnlock

\* A call succeeds.
LEMMA StoreSucceed == StoreInv /\ Store!Succeed => StoreInv'
<1> SUFFICES ASSUME StoreInv, Store!Succeed PROVE StoreInv'
  OBVIOUS
<1>1. StoreTypes /\ Evidence /\ Fits(dirs)
  BY DEF StoreInv
<1>2. /\ Store!Unlock /\ UNCHANGED unknown
      /\ IF call.kind = "create"
         THEN dirs' = Append(dirs, [state |-> "active", size |-> 0]) /\ current' = Len(dirs) + 1
         ELSE UNCHANGED dirs /\ UNCHANGED current
  BY DEF Store!Succeed
<1>3. CASE call.kind = "create"
  BY <1>2, <1>3, StoreMade
<1>4. CASE call.kind # "create"
  <2>1. UNCHANGED dirs /\ UNCHANGED current
    BY <1>2, <1>4
  <2>2. Evidence' /\ Fits(dirs')
    BY <1>1, <1>2, <2>1 DEF Evidence, Store!EvidenceKept
  <2>3. /\ dirs' \in Seq(Directory) /\ Len(dirs') <= MaxDirs /\ current' \in 0 .. Len(dirs')
        /\ unknown' \in SUBSET (1 .. Len(dirs'))
    BY <1>1, <1>2, <2>1 DEF StoreTypes
  <2> QED BY <1>1, <1>2, <2>2, <2>3, StoreUnlock
<1> QED BY <1>3, <1>4

\* A directory grows by one byte.
LEMMA Grown ==
  ASSUME NEW ds \in Seq(Directory), NEW d \in DOMAIN ds, ds[d].size < MaxSize
  PROVE  \E r \in Directory : /\ r.state = ds[d].state /\ r.size = ds[d].size + 1
                              /\ Changes(ds, [ds EXCEPT ![d].size = @ + 1], d, r)
<1> DEFINE r == [state |-> ds[d].state, size |-> ds[d].size + 1]
<1>1. ds[d] \in Directory
  OBVIOUS
<1>2. /\ [ds[d] EXCEPT !.size = @ + 1] = r /\ r \in Directory
      /\ r.state = ds[d].state /\ r.size = ds[d].size + 1
  <2>1. ds[d].state \in Store!States /\ ds[d].size \in 0 .. MaxSize
    BY <1>1 DEF Directory
  <2>2. ds[d].size + 1 \in 0 .. MaxSize
    BY <2>1, StoreBounds
  <2>3. [ds[d] EXCEPT !.size = @ + 1] = r
    BY <1>1 DEF Directory
  <2>4. r \in Directory
    BY <2>1, <2>2 DEF Directory
  <2> QED BY <2>3, <2>4
<1> HIDE DEF r
<1>3. [ds EXCEPT ![d].size = @ + 1] = [ds EXCEPT ![d] = r]
  <2>1. [ds EXCEPT ![d].size = @ + 1] = [ds EXCEPT ![d] = [ds[d] EXCEPT !.size = @ + 1]]
    BY Zenon
  <2> QED BY <1>2, <2>1, Zenon
<1>4. Changes(ds, [ds EXCEPT ![d] = r], d, r)
  BY <1>2, Changed
<1> QED BY <1>2, <1>3, <1>4, Zenon

\* The worker's directory grows, outside the lock.
LEMMA StoreExport == StoreInv /\ Store!Export => StoreInv'
<1> SUFFICES ASSUME StoreInv, Store!Export PROVE StoreInv'
  OBVIOUS
<1>1. /\ StoreTypes /\ Evidence /\ Fits(dirs) /\ Calls
      /\ holder # "nobody" => Listed(call, dirs) /\ Counted(call, dirs, holder = "worker")
  BY Zenon DEF StoreInv
<1>2. /\ current # 0 /\ holder # "worker" /\ dirs[current].size < MaxSize
      /\ Store!Bytes(dirs, DOMAIN dirs) < Disk
      /\ dirs' = [dirs EXCEPT ![current].size = @ + 1]
      /\ UNCHANGED holder /\ UNCHANGED call /\ UNCHANGED current /\ UNCHANGED unknown
  BY DEF Store!Export
<1>3. /\ dirs \in Seq(Directory) /\ Len(dirs) <= MaxDirs /\ call \in StoreCall /\ current \in DOMAIN dirs
      /\ unknown \in SUBSET (1 .. Len(dirs)) /\ DOMAIN dirs = 1 .. Len(dirs)
  BY <1>1, <1>2 DEF StoreTypes
<1> DEFINE d == current
           R == Store!Recorded(dirs)
           E == Ended(dirs)
<1>4. dirs[d].state = "active" /\ dirs[d].size \in Nat
  <2>1. dirs[d] \in Directory
    BY <1>3
  <2> QED BY <1>1, <1>2, <2>1, StoreBounds DEF Evidence, Directory
<1>5. PICK r \in Directory : /\ r.state = dirs[d].state /\ r.size = dirs[d].size + 1
                             /\ Changes(dirs, dirs', d, r)
  BY <1>2, <1>3, Grown, Zenon
<1>7. r \in Directory /\ r.state = "active" /\ r.size = dirs[d].size + 1
  BY <1>4, <1>5
<1>8. Changes(dirs, dirs', d, r)
  BY <1>5
<1>9. /\ dirs' \in Seq(Directory) /\ Len(dirs') = Len(dirs) /\ DOMAIN dirs' = DOMAIN dirs /\ dirs'[d] = r
      /\ \A x \in DOMAIN dirs : x # d => dirs'[x] = dirs[x]
  BY <1>8 DEF Changes
<1>10. \A x \in DOMAIN dirs : dirs'[x].state = dirs[x].state
  BY <1>4, <1>7, <1>9
<1>11. /\ Store!Recorded(dirs') = R /\ Ended(dirs') = E /\ d \in R /\ d \notin E
       /\ R \in SUBSET DOMAIN dirs /\ E \in SUBSET DOMAIN dirs /\ DOMAIN dirs \in SUBSET DOMAIN dirs
  BY <1>3, <1>4, <1>9, <1>10 DEF Store!Recorded, Ended
<1> HIDE DEF R, E
<1>12. Moves(dirs, dirs', R, d) /\ Moves(dirs, dirs', DOMAIN dirs, d)
  BY <1>3, <1>7, <1>8, <1>11, ChangedBytes
<1>13. /\ Store!Bytes(dirs', R) = Store!Bytes(dirs, R) + 1 /\ Store!Bytes(dirs, R) \in Nat
       /\ Store!Bytes(dirs', DOMAIN dirs) = Store!Bytes(dirs, DOMAIN dirs) + 1
       /\ Store!Bytes(dirs, DOMAIN dirs) \in Nat
  <2>1. dirs'[d].size = dirs[d].size + 1
    BY <1>7, <1>9
  <2>2. ASSUME NEW S, Moves(dirs, dirs', S, d)
        PROVE  Store!Bytes(dirs', S) = Store!Bytes(dirs, S) + 1 /\ Store!Bytes(dirs, S) \in Nat
    BY <1>4, <2>1, <2>2 DEF Moves
  <2> QED BY <1>12, <2>2
<1>14. Store!Bytes(dirs', E) = Store!Bytes(dirs, E)
  BY <1>3, <1>8, <1>11, OtherBytes
<1>15. holder # "nobody" => Counted(call', dirs', holder' = "worker")
  <2> SUFFICES ASSUME holder # "nobody" PROVE Counted(call', dirs', holder' = "worker")
    OBVIOUS
  <2>1. /\ call.total <= Store!Bytes(dirs, R) /\ Disk - Store!Bytes(dirs, DOMAIN dirs) <= call.free
        /\ Store!Bytes(dirs, E) <= call.total
    BY <1>1 DEF Counted, R, E
  <2>2. call.total \in Nat /\ call.free \in Nat
    BY <1>3 DEF StoreCall
  <2>3. /\ call.total <= Store!Bytes(dirs', R) /\ Disk - Store!Bytes(dirs', DOMAIN dirs) <= call.free
        /\ Store!Bytes(dirs', E) <= call.total
    BY <1>13, <1>14, <2>1, <2>2, StoreBounds
  <2> QED BY <1>2, <1>9, <1>11, <2>3, Zenon DEF Counted
<1>16. holder # "nobody" => Listed(call', dirs')
  <2> SUFFICES ASSUME holder # "nobody" PROVE Listed(call', dirs')
    OBVIOUS
  <2>1. ASSUME NEW e \in call.todo
        PROVE  /\ e.dir \in DOMAIN dirs' /\ dirs'[e.dir].state = e.state
               /\ e.state = "ended" => dirs'[e.dir].size = e.size
    <3>1. /\ e.dir \in DOMAIN dirs /\ dirs[e.dir].state = e.state
          /\ e.state = "ended" => dirs[e.dir].size = e.size
      BY <1>1 DEF Listed
    <3>2. e.state = "ended" => e.dir # d
      BY <1>4, <3>1
    <3> QED BY <1>9, <1>10, <3>1, <3>2
  <2>2. \A x \in Ended(dirs') : \E e \in call.todo : e.dir = x
    BY <1>1, <1>11 DEF Listed, E
  <2> QED BY <1>2, <2>1, <2>2 DEF Listed
<1>17. StoreTypes'
  BY <1>1, <1>2, <1>9 DEF StoreTypes
<1>18. Evidence'
  BY <1>1, <1>2, <1>3, <1>10 DEF Evidence, Store!EvidenceKept
<1>19. Fits(dirs')
  BY <1>2, <1>9, <1>13, StoreBounds DEF Fits
<1>20. Calls'
  BY <1>1, <1>2 DEF Calls
<1> QED BY <1>2, <1>15, <1>16, <1>17, <1>18, <1>19, <1>20, Zenon DEF StoreInv

\* The effect of the worker's operation becomes unknown.
LEMMA StoreUnknown == StoreInv /\ Store!BecomesUnknown => StoreInv'
<1> SUFFICES ASSUME StoreInv, Store!BecomesUnknown PROVE StoreInv'
  OBVIOUS
<1>1. /\ StoreTypes /\ Evidence /\ Fits(dirs) /\ Calls
      /\ holder # "nobody" => Listed(call, dirs) /\ Counted(call, dirs, holder = "worker")
  BY Zenon DEF StoreInv
<1>2. /\ current # 0 /\ unknown' = unknown \cup {current}
      /\ UNCHANGED dirs /\ UNCHANGED holder /\ UNCHANGED call /\ UNCHANGED current
  BY DEF Store!BecomesUnknown
<1>3. StoreTypes'
  BY <1>1, <1>2 DEF StoreTypes
<1>4. Evidence'
  BY <1>1, <1>2 DEF Evidence, Store!EvidenceKept
<1>5. Calls' /\ Fits(dirs')
  BY <1>1, <1>2 DEF Calls
<1>6. holder' # "nobody" => Listed(call', dirs') /\ Counted(call', dirs', holder' = "worker")
  BY <1>1, <1>2, Zenon
<1> QED BY <1>3, <1>4, <1>5, <1>6, Zenon DEF StoreInv

\* A record is lost, and the bytes stay.
LEMMA Ruined ==
  ASSUME NEW ds \in Seq(Directory), NEW d \in DOMAIN ds
  PROVE  \E r \in Directory : /\ r.size = ds[d].size
                              /\ Changes(ds, [ds EXCEPT ![d].state = "ruin"], d, r)
<1> DEFINE r == [state |-> "ruin", size |-> ds[d].size]
<1>1. ds[d] \in Directory
  OBVIOUS
<1>2. [ds[d] EXCEPT !.state = "ruin"] = r /\ r \in Directory /\ r.size = ds[d].size
  BY <1>1 DEF Directory, Store!States
<1> HIDE DEF r
<1>3. [ds EXCEPT ![d].state = "ruin"] = [ds EXCEPT ![d] = r]
  <2>1. [ds EXCEPT ![d].state = "ruin"] = [ds EXCEPT ![d] = [ds[d] EXCEPT !.state = "ruin"]]
    BY Zenon
  <2> QED BY <1>2, <2>1, Zenon
<1>4. Changes(ds, [ds EXCEPT ![d] = r], d, r)
  BY <1>2, Changed
<1> QED BY <1>2, <1>3, <1>4, Zenon

\* A deletion is cut short: the directory has lost its record and keeps its bytes.
LEMMA StoreRuined ==
  ASSUME StoreInv, Store!Unlock, current' = 0, UNCHANGED unknown, NEW d \in DOMAIN dirs, d \notin unknown,
         NEW r \in Directory, r.size = dirs[d].size, Changes(dirs, dirs', d, r)
  PROVE  StoreInv'
<1>1. StoreTypes /\ Evidence /\ Fits(dirs)
  BY DEF StoreInv
<1>2. /\ dirs \in Seq(Directory) /\ Len(dirs) <= MaxDirs /\ unknown \in SUBSET (1 .. Len(dirs))
      /\ DOMAIN dirs = 1 .. Len(dirs) /\ Len(dirs) \in Nat
  BY <1>1 DEF StoreTypes
<1>7. /\ dirs' \in Seq(Directory) /\ Len(dirs') = Len(dirs) /\ DOMAIN dirs' = DOMAIN dirs /\ dirs'[d] = r
      /\ \A x \in DOMAIN dirs : x # d => dirs'[x] = dirs[x]
  BY DEF Changes
<1>8. Fits(dirs')
  <2>1. DOMAIN dirs \in SUBSET DOMAIN dirs /\ DOMAIN dirs \subseteq DOMAIN dirs'
        /\ \A x \in DOMAIN dirs : dirs[x].size = dirs'[x].size
    BY <1>7
  <2>2. Store!Bytes(dirs, DOMAIN dirs) = Store!Bytes(dirs', DOMAIN dirs)
    BY <1>2, <1>7, <2>1, BytesSame
  <2> QED BY <1>1, <1>7, <2>2 DEF Fits
<1>9. Evidence'
  BY <1>1, <1>2, <1>7 DEF Evidence, Store!EvidenceKept
<1>10. /\ Len(dirs') <= MaxDirs /\ current' \in 0 .. Len(dirs') /\ unknown' \in SUBSET (1 .. Len(dirs'))
  BY <1>2, <1>7
<1> QED BY <1>1, <1>7, <1>8, <1>9, <1>10, StoreUnlock

\* The container stops at any moment.
LEMMA StoreCrash == StoreInv /\ Store!Crash => StoreInv'
<1> SUFFICES ASSUME StoreInv, Store!Crash PROVE StoreInv'
  OBVIOUS
<1>1. StoreTypes /\ Evidence /\ Fits(dirs)
  BY DEF StoreInv
<1>2. /\ Store!Unlock /\ current' = 0 /\ UNCHANGED unknown
      /\ \/ UNCHANGED dirs
         \/ /\ holder # "nobody"
            /\ \E e \in call.todo : /\ Store!First(e, call.todo) /\ Store!Deletable(e.state)
                                    /\ dirs' = [dirs EXCEPT ![e.dir].state = "ruin"]
         \/ call.kind = "create" /\ dirs' = Append(dirs, [state |-> "bare", size |-> 0])
         \/ current # 0 /\ current \notin unknown /\ dirs' = [dirs EXCEPT ![current].state = "ruin"]
  BY Zenon DEF Store!Crash
<1>3. CASE UNCHANGED dirs
  <2>1. Evidence' /\ Fits(dirs')
    BY <1>1, <1>2, <1>3 DEF Evidence, Store!EvidenceKept
  <2>2. /\ dirs' \in Seq(Directory) /\ Len(dirs') <= MaxDirs /\ current' \in 0 .. Len(dirs')
        /\ unknown' \in SUBSET (1 .. Len(dirs'))
    BY <1>1, <1>2, <1>3 DEF StoreTypes
  <2> QED BY <1>1, <1>2, <2>1, <2>2, StoreUnlock
<1>4. ASSUME holder # "nobody", NEW e \in call.todo, Store!First(e, call.todo), Store!Deletable(e.state),
             dirs' = [dirs EXCEPT ![e.dir].state = "ruin"]
      PROVE  StoreInv'
  <2>1. e.dir \in DOMAIN dirs /\ dirs[e.dir].state = "ended"
    BY <1>4, FirstIs
  <2>2. e.dir \notin unknown
    BY <1>1, <2>1 DEF Evidence, Store!EvidenceKept
  <2>3. PICK r \in Directory : r.size = dirs[e.dir].size /\ Changes(dirs, dirs', e.dir, r)
    BY <1>1, <1>4, <2>1, Ruined, Zenon DEF StoreTypes
  <2> QED BY <1>2, <2>1, <2>2, <2>3, StoreRuined
<1>5. CASE call.kind = "create" /\ dirs' = Append(dirs, [state |-> "bare", size |-> 0])
  BY <1>2, <1>5, StoreMade
<1>6. CASE current # 0 /\ current \notin unknown /\ dirs' = [dirs EXCEPT ![current].state = "ruin"]
  <2>1. current \in DOMAIN dirs
    BY <1>1, <1>6 DEF StoreTypes
  <2>2. PICK r \in Directory : r.size = dirs[current].size /\ Changes(dirs, dirs', current, r)
    BY <1>1, <1>6, <2>1, Ruined, Zenon DEF StoreTypes
  <2> QED BY <1>2, <1>6, <2>1, <2>2, StoreRuined
<1> QED BY <1>2, <1>3, <1>4, <1>5, <1>6

\* Every step of the store preserves its invariant.
LEMMA StoreNext == StoreInv /\ Store!Next => StoreInv'
  BY StoreClean, StoreCreate, StoreFinish, StoreRound, StoreRefuse, StoreSucceed, StoreExport, StoreUnknown,
     StoreCrash DEF Store!Next

\* A step that leaves the store alone preserves it too.
LEMMA StoreSame == StoreInv /\ UNCHANGED storeVars => StoreInv'
<1> SUFFICES ASSUME StoreInv, UNCHANGED storeVars PROVE StoreInv'
  OBVIOUS
<1>1. UNCHANGED dirs /\ UNCHANGED holder /\ UNCHANGED call /\ UNCHANGED current /\ UNCHANGED unknown
  BY DEF storeVars
<1> QED BY <1>1, Zenon DEF StoreInv, StoreTypes, Evidence, Store!EvidenceKept, Fits, Calls, Listed, Counted

\* A step of the composition is a step of the store or leaves it alone.
LEMMA StoreSteps == [Next]_vars => Store!Next \/ UNCHANGED storeVars
  BY Zenon DEF Next, vars

\* The invariant implies the store's part of TypesOK.
LEMMA StoreTyped == StoreInv => Store!TypeOK
<1> SUFFICES ASSUME StoreInv PROVE Store!TypeOK
  OBVIOUS
<1>1. StoreTypes
  BY DEF StoreInv
<1>2. /\ dirs \in Seq([state : Store!States, size : 0 .. MaxSize]) /\ Len(dirs) <= MaxDirs /\ Len(dirs) \in Nat
      /\ holder \in {"nobody", "worker", "service"}
      /\ current \in 0 .. Len(dirs) /\ unknown \in SUBSET (1 .. Len(dirs))
  BY <1>1 DEF StoreTypes, Directory
<1>3. /\ call.kind \in {"none", "clean", "create", "finish"}
      /\ call.total \in Nat /\ call.free \in Nat /\ call.reserve \in {0, Reserve}
      /\ call.todo \in SUBSET [dir : Store!Dir, state : Store!States, size : 0 .. MaxSize]
  BY <1>1 DEF StoreTypes, StoreCall
<1>4. current \in 0 .. MaxDirs /\ unknown \in SUBSET Store!Dir
  BY <1>2, StoreBounds DEF Store!Dir
<1> QED BY <1>2, <1>3, <1>4 DEF Store!TypeOK

\* What the artifact store relies on holds of every behaviour: what create, finish and clean have
\* read of the directories is still right, but for the worker's own that grows, whichever process
\* holds the lock and wherever a crash comes (artifacts.py).
THEOREM StoreInvariant == Spec => []StoreInv
<1>1. Init => StoreInv
  BY StoreInit DEF Init
<1>2. StoreInv /\ [Next]_vars => StoreInv'
  BY StoreSteps, StoreNext, StoreSame
<1> QED BY <1>1, <1>2, PTL DEF Spec

\* What a step may do to the directories.
LEMMA StepIs ==
  ASSUME StoreInv, Store!Next
  PROVE  \/ UNCHANGED dirs
         \/ /\ call.kind = "create" /\ Store!Enough(call)
            /\ \E state \in {"active", "bare"} : dirs' = Append(dirs, [state |-> state, size |-> 0])
         \/ /\ holder # "nobody"
            /\ \E e \in call.todo, r \in Directory :
                 Store!First(e, call.todo) /\ Store!Deletable(e.state) /\ Changes(dirs, dirs', e.dir, r)
         \/ holder = "nobody" /\ \E r \in Directory : Changes(dirs, dirs', current, r)
         \/ \E d \in DOMAIN dirs, r \in Directory : r.state = dirs[d].state /\ Changes(dirs, dirs', d, r)
<1> DEFINE P == \/ UNCHANGED dirs
                \/ /\ call.kind = "create" /\ Store!Enough(call)
                   /\ \E state \in {"active", "bare"} : dirs' = Append(dirs, [state |-> state, size |-> 0])
                \/ /\ holder # "nobody"
                   /\ \E e \in call.todo, r \in Directory :
                        Store!First(e, call.todo) /\ Store!Deletable(e.state) /\ Changes(dirs, dirs', e.dir, r)
                \/ holder = "nobody" /\ \E r \in Directory : Changes(dirs, dirs', current, r)
                \/ \E d \in DOMAIN dirs, r \in Directory : r.state = dirs[d].state /\ Changes(dirs, dirs', d, r)
<1>1. /\ dirs \in Seq(Directory) /\ current \in 0 .. Len(dirs) /\ DOMAIN dirs = 1 .. Len(dirs) /\ Len(dirs) \in Nat
  BY DEF StoreInv, StoreTypes
<1>2. Store!Clean \/ Store!Create \/ Store!Refuse \/ Store!BecomesUnknown => P
  BY Zenon DEF Store!Clean, Store!Create, Store!Refuse, Store!BecomesUnknown
<1>3. ASSUME Store!Finish PROVE P
  <2>1. holder = "nobody" /\ current # 0
    BY <1>3, Zenon DEF Store!Finish
  <2>2. PICK keep \in BOOLEAN, poisoned \in BOOLEAN :
          dirs' = [dirs EXCEPT ![current] =
                     [state |-> Store!FinalState(keep, current \in unknown \/ poisoned),
                      size |-> IF Store!FinalState(keep, current \in unknown \/ poisoned) = "gone" THEN 0 ELSE @.size]]
    BY <1>3, Zenon DEF Store!Finish
  <2> DEFINE state == Store!FinalState(keep, current \in unknown \/ poisoned)
             r == [state |-> state, size |-> IF state = "gone" THEN 0 ELSE dirs[current].size]
  <2>3. current \in DOMAIN dirs
    BY <1>1, <2>1
  <2>4. dirs' = [dirs EXCEPT ![current] = r]
    BY <2>2, Zenon
  <2>5. state \in {"protected", "ended", "gone"}
    BY DEF Store!FinalState
  <2> HIDE DEF state
  <2>6. r \in Directory
    <3>1. dirs[current] \in Directory
      BY <1>1, <2>3
    <3> QED BY <2>5, <3>1, StoreBounds DEF Directory, Store!States
  <2> HIDE DEF r
  <2>7. Changes(dirs, [dirs EXCEPT ![current] = r], current, r)
    BY <1>1, <2>3, <2>6, Changed
  <2> QED BY <2>1, <2>4, <2>6, <2>7, Zenon
<1>4. ASSUME Store!Round PROVE P
  <2>1. PICK e \in call.todo :
          /\ Store!First(e, call.todo)
          /\ \/ Store!Deletable(e.state) /\ dirs' = [dirs EXCEPT ![e.dir] = [state |-> "gone", size |-> 0]]
             \/ UNCHANGED dirs
    BY <1>4, Zenon DEF Store!Round
  <2>2. holder # "nobody"
    BY <1>4, Zenon DEF Store!Round
  <2>3. CASE Store!Deletable(e.state) /\ dirs' = [dirs EXCEPT ![e.dir] = [state |-> "gone", size |-> 0]]
    <3> DEFINE r == [state |-> "gone", size |-> 0]
    <3>1. e.dir \in DOMAIN dirs
      BY <2>1, <2>2, <2>3, FirstIs
    <3>2. r \in Directory
      BY StoreBounds DEF Directory, Store!States
    <3>3. dirs' = [dirs EXCEPT ![e.dir] = r]
      BY <2>3
    <3> HIDE DEF r
    <3>4. Changes(dirs, [dirs EXCEPT ![e.dir] = r], e.dir, r)
      BY <1>1, <3>1, <3>2, Changed
    <3>5. \E x \in call.todo, q \in Directory :
            Store!First(x, call.todo) /\ Store!Deletable(x.state) /\ Changes(dirs, dirs', x.dir, q)
      BY <2>1, <2>3, <3>2, <3>3, <3>4, Zenon
    <3> QED BY <2>2, <3>5, Zenon
  <2> QED BY <2>1, <2>3, Zenon
<1>5. ASSUME Store!Succeed PROVE P
  <2>1. "active" \in {"active", "bare"}
    OBVIOUS
  <2> QED BY <1>5, <2>1, Zenon DEF Store!Succeed
<1>6. ASSUME Store!Export PROVE P
  <2>1. current # 0 /\ dirs[current].size < MaxSize /\ dirs' = [dirs EXCEPT ![current].size = @ + 1]
    BY <1>6, Zenon DEF Store!Export
  <2>2. current \in DOMAIN dirs
    BY <1>1, <2>1
  <2>3. PICK r \in Directory : r.state = dirs[current].state /\ Changes(dirs, dirs', current, r)
    BY <1>1, <2>1, <2>2, Grown, Zenon
  <2> QED BY <2>2, <2>3, Zenon
<1>7. ASSUME Store!Crash PROVE P
  <2>1. \/ UNCHANGED dirs
        \/ /\ holder # "nobody"
           /\ \E e \in call.todo : /\ Store!First(e, call.todo) /\ Store!Deletable(e.state)
                                   /\ dirs' = [dirs EXCEPT ![e.dir].state = "ruin"]
        \/ call.kind = "create" /\ Store!Enough(call) /\ dirs' = Append(dirs, [state |-> "bare", size |-> 0])
        \/ current # 0 /\ holder = "nobody" /\ dirs' = [dirs EXCEPT ![current].state = "ruin"]
    BY <1>7, Zenon DEF Store!Crash
  <2>2. ASSUME holder # "nobody", NEW e \in call.todo, Store!First(e, call.todo), Store!Deletable(e.state),
               dirs' = [dirs EXCEPT ![e.dir].state = "ruin"]
        PROVE  P
    <3>1. e.dir \in DOMAIN dirs
      BY <2>2, FirstIs
    <3>2. PICK r \in Directory : Changes(dirs, dirs', e.dir, r)
      BY <1>1, <2>2, <3>1, Ruined, Zenon
    <3> QED BY <2>2, <3>2, Zenon
  <2>3. "bare" \in {"active", "bare"}
    OBVIOUS
  <2>4. ASSUME current # 0, holder = "nobody", dirs' = [dirs EXCEPT ![current].state = "ruin"] PROVE P
    <3>1. current \in DOMAIN dirs
      BY <1>1, <2>4
    <3>2. PICK r \in Directory : Changes(dirs, dirs', current, r)
      BY <1>1, <2>4, <3>1, Ruined, Zenon
    <3> QED BY <2>4, <3>2, Zenon
  <2> QED BY <2>1, <2>2, <2>3, <2>4, Zenon
<1> QED BY <1>2, <1>3, <1>4, <1>5, <1>6, <1>7, Zenon DEF Store!Next

\* _ensure removes an ended directory only when no older ended one is left.
LEMMA OldestGoes ==
  ASSUME StoreInv, Store!Next, NEW d \in DOMAIN dirs, Store!Removed(d), holder # "nobody"
  PROVE  \A x \in 1 .. (d - 1) : dirs[x].state # "ended"
<1>1. /\ dirs \in Seq(Directory) /\ DOMAIN dirs = 1 .. Len(dirs) /\ Len(dirs) \in Nat
  BY DEF StoreInv, StoreTypes
<1>2. d \in Store!Recorded(dirs) /\ d \notin Store!Recorded(dirs')
  BY DEF Store!Removed
<1>3. ~UNCHANGED dirs
  BY <1>2
<1>4. ASSUME NEW state \in {"active", "bare"}, dirs' = Append(dirs, [state |-> state, size |-> 0]) PROVE FALSE
  <2>1. d \in DOMAIN dirs' /\ dirs'[d] = dirs[d]
    BY <1>1, <1>4
  <2> QED BY <1>2, <2>1 DEF Store!Recorded
<1>5. ASSUME NEW x \in DOMAIN dirs, NEW r \in Directory, Changes(dirs, dirs', x, r)
      PROVE  x = d /\ r.state # dirs[d].state
  BY <1>2, <1>5 DEF Changes, Store!Recorded
<1>6. ASSUME NEW e \in call.todo, NEW r \in Directory, Store!First(e, call.todo), Store!Deletable(e.state),
             Changes(dirs, dirs', e.dir, r)
      PROVE  \A x \in 1 .. (d - 1) : dirs[x].state # "ended"
  <2>1. e.dir \in DOMAIN dirs /\ \A x \in Ended(dirs) : e.dir <= x
    BY <1>6, FirstIs
  <2>2. e.dir = d
    BY <1>5, <1>6, <2>1
  <2> QED BY <1>1, <2>1, <2>2 DEF Ended
<1> QED BY <1>3, <1>4, <1>5, <1>6, StepIs, Zenon

\* A new directory starts within the budget and the free disk.
LEMMA BudgetKept ==
  ASSUME StoreInv, Store!Next, Len(dirs') > Len(dirs)
  PROVE  /\ Store!Bytes(dirs, Store!Recorded(dirs)) + Reserve <= Maximum
         /\ Disk - Store!Bytes(dirs, DOMAIN dirs) - Reserve >= MinimumFree
<1>1. /\ dirs \in Seq(Directory) /\ DOMAIN dirs = 1 .. Len(dirs) /\ Len(dirs) \in Nat /\ call \in StoreCall /\ Calls
  BY DEF StoreInv, StoreTypes
<1>2. ~UNCHANGED dirs
  BY <1>1
<1>3. ASSUME NEW x, NEW r, Changes(dirs, dirs', x, r) PROVE FALSE
  BY <1>1, <1>3 DEF Changes
<1>4. call.kind = "create" /\ Store!Enough(call)
  BY <1>2, <1>3, StepIs, Zenon
<1>5. holder = "worker" /\ call.reserve = Reserve
  BY <1>1, <1>4 DEF Calls
<1>6. call.total = Store!Bytes(dirs, Store!Recorded(dirs)) /\ call.free = Disk - Store!Bytes(dirs, DOMAIN dirs)
  BY <1>5 DEF StoreInv, Counted
<1>7. call.total + call.reserve <= Maximum /\ call.free - call.reserve >= MinimumFree
  BY <1>4 DEF Store!Enough
<1> QED BY <1>5, <1>6, <1>7

\* A call is refused only when what may not be deleted exceeds the budget or the disk.
LEMMA RefusedFull ==
  ASSUME StoreInv, Store!Refuse
  PROVE  LET kept == {d \in DOMAIN dirs : dirs[d].state # "ended"} IN
         \/ Store!Bytes(dirs, kept \cap Store!Recorded(dirs)) + call.reserve > Maximum
         \/ Disk - Store!Bytes(dirs, kept) - call.reserve < MinimumFree
<1> DEFINE kept == {d \in DOMAIN dirs : dirs[d].state # "ended"}
           R == Store!Recorded(dirs)
<1>1. holder # "nobody" /\ ~Store!Enough(call) /\ call.todo = {}
  BY DEF Store!Refuse
<1>2. /\ dirs \in Seq(Directory) /\ call \in StoreCall /\ Listed(call, dirs) /\ Counted(call, dirs, holder = "worker")
  BY <1>1, Zenon DEF StoreInv, StoreTypes
<1>3. Ended(dirs) = {}
  BY <1>1, <1>2 DEF Listed
<1>4. kept = DOMAIN dirs /\ kept \cap R = R
  BY <1>3 DEF Ended, Store!Recorded
<1>5. Store!Bytes(dirs, R) \in Nat /\ Store!Bytes(dirs, DOMAIN dirs) \in Nat
  <2>1. R \in SUBSET DOMAIN dirs /\ DOMAIN dirs \in SUBSET DOMAIN dirs
    BY DEF Store!Recorded
  <2> HIDE DEF R
  <2> QED BY <1>2, <2>1, BytesOf
<1>6. call.total <= Store!Bytes(dirs, R) /\ Disk - Store!Bytes(dirs, DOMAIN dirs) <= call.free
  BY <1>2 DEF Counted
<1>7. call.total \in Nat /\ call.free \in Nat /\ call.reserve \in Nat
  BY <1>2, StoreBounds DEF StoreCall
<1>8. ~(call.total + call.reserve <= Maximum /\ call.free - call.reserve >= MinimumFree)
  BY <1>1 DEF Store!Enough
<1> HIDE DEF kept, R
<1>9. Store!Bytes(dirs, R) + call.reserve > Maximum \/ Disk - Store!Bytes(dirs, DOMAIN dirs) - call.reserve < MinimumFree
  BY <1>5, <1>6, <1>7, <1>8, StoreBounds
<1> QED BY <1>4, <1>9, Zenon DEF kept, R

\* A new directory starts within the budget and the free disk with the reserve still unused, ended
\* directories go oldest first, and a call is refused only when what may not be deleted exceeds the budget
\* or the disk, although the service's sizes may be stale (artifacts.py create and _ensure).
THEOREM BudgetIsHonoured == Spec => BudgetHonoured
<1> DEFINE Grows == Len(dirs') > Len(dirs) =>
             /\ Store!Bytes(dirs, Store!Recorded(dirs)) + Reserve <= Maximum
             /\ Disk - Store!Bytes(dirs, DOMAIN dirs) - Reserve >= MinimumFree
           Oldest == \A d \in DOMAIN dirs : Store!Removed(d) /\ holder # "nobody"
             => \A e \in 1..(d - 1) : dirs[e].state # "ended"
           Full == Store!Refuse =>
             LET kept == {d \in DOMAIN dirs : dirs[d].state # "ended"} IN
             \/ Store!Bytes(dirs, kept \cap Store!Recorded(dirs)) + call.reserve > Maximum
             \/ Disk - Store!Bytes(dirs, kept) - call.reserve < MinimumFree
<1>1. StoreInv /\ Store!Next => Grows /\ Oldest /\ Full
  BY BudgetKept, OldestGoes, RefusedFull, Zenon
<1>2. UNCHANGED storeVars => UNCHANGED Store!vars
  BY Zenon DEF storeVars, Store!vars
<1> HIDE DEF Grows, Oldest, Full
<1>3. StoreInv /\ [Next]_vars => [Grows]_(Store!vars) /\ [Oldest]_(Store!vars) /\ [Full]_(Store!vars)
  BY <1>1, <1>2, StoreSteps, Zenon
<1>4. Spec => [][Grows]_(Store!vars) /\ [][Oldest]_(Store!vars) /\ [][Full]_(Store!vars)
  BY <1>3, StoreInvariant, PTL DEF Spec
<1> QED BY <1>4, PTL DEF BudgetHonoured, Store!BudgetHonoured, Store!OldestFirst, Store!RefusedOnlyWhenFull,
     Grows, Oldest, Full

-----------------------------------------------------------------------------
(***************************************************************************)
(* The price of an order.                                                  *)
(***************************************************************************)

\* What the assumption says of the price rules.
LEMMA PriceBounds ==
  /\ Tick \in Nat /\ Tick > 0 /\ Whole \in Nat /\ Whole > 0 /\ Noise \in Nat /\ Ratio \in Nat /\ MaxPrice \in Nat
  /\ 2 * Noise < Tick /\ Volumes \subseteq Nat
<1>1. {Tick, Whole} \subseteq Nat \ {0} /\ {Noise, Ratio, MaxPrice} \subseteq Nat /\ 2 * Noise < Tick /\ Volumes \subseteq Nat
  BY ConstantsAssumption, Zenon DEF Prices!Constants
<1> QED BY <1>1

\* Division by the tick.
LEMMA Divide ==
  ASSUME NEW p \in Int, NEW t \in Nat, t > 0
  PROVE  /\ p \div t \in Int /\ p % t \in 0 .. t - 1
         /\ p = (p \div t) * t + (p % t)
  OBVIOUS

\* Multiples keep their order.
LEMMA Multiples ==
  ASSUME NEW j \in Int, NEW k \in Int, NEW t \in Nat, t > 0
  PROVE  /\ j * t \in Int
         /\ j <= k => j * t <= k * t
         /\ j * t < k * t + t => j <= k
         /\ (j * t) % t = 0
         /\ (k + 1) * t = k * t + t /\ (k - 1) * t = k * t - t /\ (-k) * t = -(k * t)
  OBVIOUS

\* Rounding down and up to the grid.
LEMMA Rounding ==
  ASSUME NEW p \in Int
  PROVE  /\ Prices!Floor(p) \in Int /\ Prices!Ceil(p) \in Int
         /\ Prices!Floor(p) * Tick \in Int /\ Prices!Ceil(p) * Tick \in Int
         /\ Prices!Floor(p) * Tick <= p /\ p < Prices!Floor(p) * Tick + Tick
         /\ p <= Prices!Ceil(p) * Tick /\ Prices!Ceil(p) * Tick - Tick < p
         /\ Prices!OnGrid(Prices!Floor(p) * Tick) /\ Prices!OnGrid(Prices!Ceil(p) * Tick)
<1> DEFINE f == p \div Tick
           g == (-p) \div Tick
<1>1. f \in Int /\ p % Tick \in 0 .. Tick - 1 /\ p = f * Tick + (p % Tick)
  BY PriceBounds, Divide
<1>2. g \in Int /\ (-p) % Tick \in 0 .. Tick - 1 /\ -p = g * Tick + ((-p) % Tick)
  <2>1. -p \in Int
    OBVIOUS
  <2> QED BY <2>1, PriceBounds, Divide
<1>3. -g \in Int /\ (-g) * Tick = -(g * Tick) /\ f * Tick \in Int /\ g * Tick \in Int
  BY <1>1, <1>2, PriceBounds, Multiples
<1>4. (f * Tick) % Tick = 0 /\ ((-g) * Tick) % Tick = 0
  BY <1>1, <1>2, <1>3, PriceBounds, Multiples
<1> HIDE DEF f, g
<1>5. Prices!Floor(p) = f /\ Prices!Ceil(p) = -g
  BY DEF f, g, Prices!Floor, Prices!Ceil
<1> QED BY <1>1, <1>2, <1>3, <1>4, <1>5, PriceBounds DEF Prices!OnGrid

\* A price on the grid is a multiple of the tick, so two of them less than a tick apart are equal.
LEMMA Grid ==
  ASSUME NEW q \in Int, Prices!OnGrid(q)
  PROVE  \A r \in Int : Prices!OnGrid(r) /\ q < r + Tick => q <= r
<1>1. q \div Tick \in Int /\ q = (q \div Tick) * Tick
  BY PriceBounds, Divide DEF Prices!OnGrid
<1>2. SUFFICES ASSUME NEW r \in Int, Prices!OnGrid(r), q < r + Tick PROVE q <= r
  OBVIOUS
<1>3. r \div Tick \in Int /\ r = (r \div Tick) * Tick
  BY <1>2, PriceBounds, Divide DEF Prices!OnGrid
<1> DEFINE j == q \div Tick
           k == r \div Tick
<1> HIDE DEF j, k
<1>4. j \in Int /\ k \in Int /\ q = j * Tick /\ r = k * Tick
  BY <1>1, <1>3 DEF j, k
<1>5. j <= k
  BY <1>2, <1>4, PriceBounds, Multiples
<1> QED BY <1>4, <1>5, PriceBounds, Multiples

\* The nearest tick is on the grid, and a tick within the noise is the nearest one.
LEMMA NearestTick ==
  ASSUME NEW p \in Int
  PROVE  /\ Prices!Nearest(p) \in Int /\ Prices!OnGrid(Prices!Nearest(p))
         /\ \A q \in Int : Prices!OnGrid(q) /\ Prices!Near(p, q) => Prices!Nearest(p) = q
<1> DEFINE f == Prices!Floor(p)
           n == Prices!Nearest(p)
<1>1. f \in Int /\ f * Tick \in Int /\ f * Tick <= p /\ p < f * Tick + Tick /\ Prices!OnGrid(f * Tick)
  BY Rounding
<1>2. p % Tick \in Int /\ p = f * Tick + (p % Tick)
  BY PriceBounds, Divide DEF Prices!Floor
<1>3. (f + 1) * Tick = f * Tick + Tick /\ Prices!OnGrid((f + 1) * Tick)
  BY <1>1, PriceBounds, Multiples DEF Prices!OnGrid
<1> HIDE DEF f
<1>4. n = (IF 2 * (p % Tick) >= Tick THEN f + 1 ELSE f) * Tick
  BY DEF f, n, Prices!Nearest
<1> HIDE DEF n
<1>5. \/ 2 * (p % Tick) >= Tick /\ n = f * Tick + Tick
      \/ 2 * (p % Tick) < Tick /\ n = f * Tick
  BY <1>2, <1>3, <1>4, PriceBounds
<1>6. n \in Int /\ Prices!OnGrid(n)
  BY <1>1, <1>3, <1>5, PriceBounds
<1>7. ASSUME NEW q \in Int, Prices!OnGrid(q), Prices!Near(p, q) PROVE n = q
  <2>1. p - q <= Noise /\ q - p <= Noise
    BY <1>7 DEF Prices!Near
  <2>2. n < q + Tick /\ q < n + Tick
    BY <1>1, <1>2, <1>5, <2>1, PriceBounds
  <2>3. n <= q /\ q <= n
    BY <1>6, <1>7, <2>2, Grid
  <2> QED BY <1>6, <2>3
<1> QED BY <1>6, <1>7 DEF n

\* Without the noise: the price moves by no more than it, and every tick no worse than the one asked for, up to the
\* noise, is no worse than the price.
LEMMA Denoise ==
  ASSUME NEW p \in Int
  PROVE  /\ Prices!Denoised(p) \in Int
         /\ Prices!Denoised(p) - p <= Noise /\ p - Prices!Denoised(p) <= Noise
         /\ \A q \in Int : Prices!OnGrid(q) /\ q <= p + Noise => q <= Prices!Denoised(p)
         /\ \A q \in Int : Prices!OnGrid(q) /\ q >= p - Noise => q >= Prices!Denoised(p)
         /\ Prices!OnGrid(p) => Prices!Denoised(p) = p
<1> DEFINE n == Prices!Nearest(p)
           d == Prices!Denoised(p)
<1>1. n \in Int /\ Prices!OnGrid(n) /\ \A q \in Int : Prices!OnGrid(q) /\ Prices!Near(p, q) => n = q
  BY NearestTick
<1> HIDE DEF n
<1>2. d = IF Prices!Near(p, n) THEN n ELSE p
  BY DEF Prices!Denoised, n
<1> HIDE DEF d
<1>3. d \in Int /\ d - p <= Noise /\ p - d <= Noise
  BY <1>1, <1>2, PriceBounds DEF Prices!Near
<1>4. ASSUME NEW q \in Int, Prices!OnGrid(q), q <= p + Noise PROVE q <= d
  <2>1. CASE Prices!Near(p, n)
    <3>1. d = n /\ q < n + Tick
      BY <1>1, <1>2, <1>4, <2>1, PriceBounds DEF Prices!Near
    <3> QED BY <1>1, <1>4, <3>1, Grid
  <2>2. CASE ~Prices!Near(p, n)
    <3>1. ~Prices!Near(p, q)
      BY <1>1, <1>4, <2>2
    <3> QED BY <1>2, <1>4, <2>2, <3>1, PriceBounds DEF Prices!Near
  <2> QED BY <2>1, <2>2
<1>5. ASSUME NEW q \in Int, Prices!OnGrid(q), q >= p - Noise PROVE q >= d
  <2>1. CASE Prices!Near(p, n)
    <3>1. d = n /\ n < q + Tick
      BY <1>1, <1>2, <1>5, <2>1, PriceBounds DEF Prices!Near
    <3>2. n <= q
      BY <1>1, <1>5, <3>1, Grid
    <3> QED BY <1>1, <3>1, <3>2
  <2>2. CASE ~Prices!Near(p, n)
    <3>1. ~Prices!Near(p, q)
      BY <1>1, <1>5, <2>2
    <3> QED BY <1>2, <1>5, <2>2, <3>1, PriceBounds DEF Prices!Near
  <2> QED BY <2>1, <2>2
<1>6. Prices!OnGrid(p) => d = p
  BY <1>1, <1>2, PriceBounds DEF Prices!Near
<1> QED BY <1>3, <1>4, <1>5, <1>6 DEF d

\* The side's rounding: never worse than the price, and nothing on the grid lies between.
LEMMA Align ==
  ASSUME NEW side \in {"buy", "sell"}, NEW p \in Int
  PROVE  /\ Prices!Aligned(side, p) \in Int /\ Prices!OnGrid(Prices!Aligned(side, p))
         /\ side = "buy" => /\ Prices!Aligned(side, p) <= p
                            /\ \A q \in Int : Prices!OnGrid(q) /\ q <= p => q <= Prices!Aligned(side, p)
         /\ side = "sell" => /\ Prices!Aligned(side, p) >= p
                             /\ \A q \in Int : Prices!OnGrid(q) /\ q >= p => q >= Prices!Aligned(side, p)
         /\ Prices!OnGrid(p) => Prices!Aligned(side, p) = p
<1> DEFINE f == Prices!Floor(p) * Tick
           c == Prices!Ceil(p) * Tick
           a == Prices!Aligned(side, p)
<1>1. /\ f \in Int /\ c \in Int /\ f <= p /\ p < f + Tick /\ p <= c /\ c - Tick < p
      /\ Prices!OnGrid(f) /\ Prices!OnGrid(c)
  BY Rounding
<1>2. (side = "buy" => a = f) /\ (side = "sell" => a = c)
  BY DEF Prices!Aligned
<1> HIDE DEF f, c, a
<1>3. ASSUME NEW q \in Int, Prices!OnGrid(q), q <= p PROVE q <= f
  <2>1. q < f + Tick
    BY <1>1, <1>3, PriceBounds
  <2> QED BY <1>1, <1>3, <2>1, Grid
<1>4. ASSUME NEW q \in Int, Prices!OnGrid(q), q >= p PROVE q >= c
  <2>1. c < q + Tick
    BY <1>1, <1>4, PriceBounds
  <2>2. c <= q
    BY <1>1, <1>4, <2>1, Grid
  <2> QED BY <1>1, <2>2
<1>5. Prices!OnGrid(p) => f = p /\ c = p
  <2>1. ASSUME Prices!OnGrid(p) PROVE p <= f /\ p >= c
    BY <1>3, <1>4, <2>1
  <2> QED BY <1>1, <2>1
<1> QED BY <1>1, <1>2, <1>3, <1>4, <1>5 DEF a

\* The order and the instrument are as they were read.
PriceTypes ==
  /\ order \in [kind : {"limit", "market"}, side : {"buy", "sell"}, price : 1 .. MaxPrice, volume : Volumes \ {0}]
  /\ info \in [known : BOOLEAN, trading : BOOLEAN, lower : 0 .. MaxPrice, upper : 0 .. MaxPrice,
               least : Volumes, most : Volumes]

\* What the rules decide for the order.
Decided == IF order.kind = "limit" THEN Prices!NormalizeLimit(order.side, order.price) ELSE Prices!EmulateMarket(order.side)

\* The price is not decided yet, or it is what the rules decide.
PriceInv == PriceTypes /\ price \in {Prices!Pending, Decided}

\* What the fields of the order and of the instrument are.
LEMMA PriceFields ==
  ASSUME PriceTypes
  PROVE  /\ order.kind \in {"limit", "market"} /\ order.side \in {"buy", "sell"} /\ order.price \in Int /\ order.price > 0
         /\ info.lower \in Int /\ info.upper \in Int /\ info.lower >= 0 /\ info.upper >= 0
         /\ order.volume \in Int /\ info.least \in Int /\ info.most \in Int
<1>1. order.price \in 1 .. MaxPrice /\ order.volume \in Volumes
  BY DEF PriceTypes
<1>2. info.lower \in 0 .. MaxPrice /\ info.upper \in 0 .. MaxPrice /\ info.least \in Volumes /\ info.most \in Volumes
  BY DEF PriceTypes
<1>3. order.kind \in {"limit", "market"} /\ order.side \in {"buy", "sell"}
  BY DEF PriceTypes
<1>4. \A v \in Volumes : v \in Int
  BY PriceBounds
<1>5. \A p \in 0 .. MaxPrice : p \in Int /\ p >= 0
  BY PriceBounds
<1>6. \A p \in 1 .. MaxPrice : p \in Int /\ p > 0
  BY PriceBounds
<1> QED BY <1>1, <1>2, <1>3, <1>4, <1>5, <1>6

\* The asked price without the noise of a binary fraction.
Asked == Prices!Denoised(order.price)

\* The asked price within the limit of the order's side.
Clipped == IF Prices!Outside(order.side, Asked) THEN Prices!Limit(order.side) ELSE Asked

\* The price that goes out.
Actual == Prices!Aligned(order.side, Clipped)

\* The instrument and the volume allow an order.
Sound == Prices!Usable /\ Prices!VolumesUsable /\ order.volume \in info.least .. info.most

\* What a limit order's price is: on the grid, no worse than asked for, and the best of those on the right side
\* of the limit.
LEMMA PriceFound ==
  ASSUME PriceTypes
  PROVE  /\ Asked \in Int /\ Clipped \in Int /\ Actual \in Int /\ Prices!OnGrid(Actual)
         /\ order.side = "buy" => /\ Actual <= order.price + Noise /\ Actual <= info.upper
                                  /\ \A q \in Int : Prices!OnGrid(q) /\ q <= order.price + Noise /\ q <= info.upper => q <= Actual
                                  /\ \A q \in Int : Prices!OnGrid(q) /\ q <= order.price + Noise => q <= Asked
         /\ order.side = "sell" => /\ Actual >= order.price - Noise /\ Actual >= info.lower
                                   /\ \A q \in Int : Prices!OnGrid(q) /\ q >= order.price - Noise /\ q >= info.lower => q >= Actual
                                   /\ \A q \in Int : Prices!OnGrid(q) /\ q >= order.price - Noise => q >= Asked
         /\ Asked - order.price <= Noise /\ order.price - Asked <= Noise
<1>0. /\ order.side \in {"buy", "sell"} /\ order.price \in Int /\ info.lower \in Int /\ info.upper \in Int
  BY PriceFields
<1>1. /\ Asked \in Int /\ Asked - order.price <= Noise /\ order.price - Asked <= Noise
      /\ \A q \in Int : Prices!OnGrid(q) /\ q <= order.price + Noise => q <= Asked
      /\ \A q \in Int : Prices!OnGrid(q) /\ q >= order.price - Noise => q >= Asked
  BY <1>0, Denoise DEF Asked
<1>2. /\ Clipped \in Int
      /\ order.side = "buy" => Clipped <= Asked /\ Clipped <= info.upper /\ Clipped \in {Asked, info.upper}
      /\ order.side = "sell" => Clipped >= Asked /\ Clipped >= info.lower /\ Clipped \in {Asked, info.lower}
  BY <1>0, <1>1 DEF Clipped, Prices!Outside, Prices!Limit
<1>3. /\ Actual \in Int /\ Prices!OnGrid(Actual)
      /\ order.side = "buy" => Actual <= Clipped /\ \A q \in Int : Prices!OnGrid(q) /\ q <= Clipped => q <= Actual
      /\ order.side = "sell" => Actual >= Clipped /\ \A q \in Int : Prices!OnGrid(q) /\ q >= Clipped => q >= Actual
  BY <1>0, <1>2, Align DEF Actual
<1> QED BY <1>0, <1>1, <1>2, <1>3, PriceBounds

\* Noise was removed, at the grid or at the limit.
Noisy == Asked # order.price \/ (Prices!Outside(order.side, Asked) /\ Prices!Beyond(order.side, Asked) > 0)

\* The adjustments that the answer names.
Reasons == Prices!If(Noisy, "float_noise") \o Prices!If(Clipped # Asked, "limit") \o Prices!If(Actual # Clipped, "tick")

\* The second check accepts a price on the grid and between the limits, and only that.
LEMMA Validated ==
  ASSUME NEW p \in Int
  PROVE  /\ Sound /\ p \in info.lower .. info.upper /\ Prices!OnGrid(p) => Prices!ValidateLimit(p) = "ok"
         /\ Prices!ValidateLimit(p) = "ok" => Sound /\ p \in info.lower .. info.upper /\ Prices!OnGrid(p)
         /\ Prices!ValidateLimit(p) \in {"503", "422", "ok"}
         /\ Prices!ValidateLimit(p) = "503" => ~(Prices!Usable /\ Prices!VolumesUsable)
  BY DEF Prices!ValidateLimit, Sound

\* The ways a limit order can go.
LEMMA LimitDecided ==
  ASSUME PriceTypes, order.kind = "limit"
  PROVE  \/ Decided = Prices!Error("503")
         \/ /\ Decided = Prices!Error("422") /\ Prices!Usable
            /\ \/ order.volume \notin info.least .. info.most
               \/ Prices!Hopeless(order.side, Asked)
               \/ Prices!Outside(order.side, Asked) /\ Prices!Beyond(order.side, Asked) > Noise * Whole
               \/ Actual <= 0 \/ Actual \notin info.lower .. info.upper
         \/ /\ Decided = Prices!Price(Actual, Reasons) /\ Sound /\ ~Prices!Hopeless(order.side, Asked)
            /\ Actual > 0 /\ Actual \in info.lower .. info.upper
<1>0. Actual \in Int /\ Prices!OnGrid(Actual)
  BY PriceFound
<1>1. Decided =
        IF ~Prices!Usable \/ ~Prices!VolumesUsable THEN Prices!Error("503")
        ELSE IF order.volume \notin info.least .. info.most THEN Prices!Error("422")
        ELSE IF Prices!Hopeless(order.side, Asked) THEN Prices!Error("422")
        ELSE IF Prices!Outside(order.side, Asked) /\ Prices!Beyond(order.side, Asked) > Noise * Whole THEN Prices!Error("422")
        ELSE IF Actual <= 0 \/ Actual \notin info.lower .. info.upper THEN Prices!Error("422")
        ELSE IF Prices!ValidateLimit(Actual) # "ok" THEN Prices!Error(Prices!ValidateLimit(Actual))
        ELSE Prices!Price(Actual, Reasons)
  BY DEF Decided, Prices!NormalizeLimit, Actual, Clipped, Asked, Reasons, Noisy
<1>2. Sound /\ Actual \in info.lower .. info.upper => Prices!ValidateLimit(Actual) = "ok"
  BY <1>0, Validated
<1> QED BY <1>0, <1>1, <1>2 DEF Sound

\* No reasons are given exactly when nothing was changed on the way.
LEMMA ReasonsEmpty ==
  ASSUME NEW a \in BOOLEAN, NEW b \in BOOLEAN, NEW c \in BOOLEAN
  PROVE  /\ Prices!If(a, "float_noise") \o Prices!If(b, "limit") \o Prices!If(c, "tick") = <<>> <=> ~a /\ ~b /\ ~c
         /\ Len(Prices!If(a, "float_noise") \o Prices!If(b, "limit") \o Prices!If(c, "tick")) <= 3
  BY DEF Prices!If

\* The best of a set that has one.
LEMMA BestOf ==
  ASSUME NEW S \in SUBSET Int, NEW p \in S, order.side \in {"buy", "sell"},
         \A q \in S : IF order.side = "buy" THEN q <= p ELSE q >= p
  PROVE  p = Prices!Best(S)
<1> DEFINE P(x) == x \in S /\ \A q \in S : IF order.side = "buy" THEN q <= x ELSE q >= x
<1>1. P(p)
  OBVIOUS
<1>2. Prices!Best(S) = CHOOSE x : P(x)
  BY Zenon DEF Prices!Best
<1>3. P(CHOOSE x : P(x))
  <2> HIDE DEF P
  <2> QED BY <1>1, Zenon
<1>4. \A x : P(x) => x = p
  BY <1>1
<1> QED BY <1>2, <1>3, <1>4, Zenon

\* What the fields of a result are.
LEMMA ResultFields ==
  /\ \A s : /\ Prices!Error(s).status = s /\ Prices!Error(s).price = 0 /\ Prices!Error(s).reasons = <<>>
  /\ \A p, r : /\ Prices!Price(p, r).status = "ok" /\ Prices!Price(p, r).price = p /\ Prices!Price(p, r).reasons = r
  /\ Prices!Pending.status = "pending" /\ Prices!Pending.price = 0 /\ Prices!Pending.reasons = <<>>
  BY DEF Prices!Error, Prices!Price, Prices!Pending

\* The ways a market order can go.
LEMMA MarketDecided ==
  ASSUME PriceTypes, order.kind = "market"
  PROVE  \/ \E s \in {"409", "422", "503"} : Decided = Prices!Error(s)
         \/ /\ Decided = Prices!Price(Prices!Limit(order.side), <<>>) /\ Prices!OnGrid(Prices!Limit(order.side))
            /\ Prices!Limit(order.side) \in info.lower .. info.upper /\ Sound
<1> DEFINE l == Prices!Limit(order.side)
<1>1. l \in Int
  BY PriceFields DEF Prices!Limit
<1> HIDE DEF l
<1>2. Prices!ValidateLimit(l) \in {"503", "422", "ok"}
  BY <1>1, Validated
<1>3. Prices!ValidateLimit(l) = "ok" => Sound /\ l \in info.lower .. info.upper /\ Prices!OnGrid(l)
  BY <1>1, Validated
<1>4. Decided = IF ~info.trading THEN Prices!Error("409") ELSE IF ~Prices!Usable THEN Prices!Error("503")
                ELSE IF ~Prices!OnGrid(l) THEN Prices!Error("503")
                ELSE IF Prices!ValidateLimit(l) # "ok" THEN Prices!Error(Prices!ValidateLimit(l)) ELSE Prices!Price(l, <<>>)
  BY DEF Decided, Prices!EmulateMarket, l
<1>5. \/ \E s \in {"409", "422", "503"} : Decided = Prices!Error(s)
      \/ Decided = Prices!Price(l, <<>>) /\ Prices!ValidateLimit(l) = "ok"
  BY <1>2, <1>4
<1> QED BY <1>3, <1>5 DEF l

\* An accepted limit order has the best acceptable price.
LEMMA LimitIsBest ==
  ASSUME PriceTypes, order.kind = "limit", Actual \in info.lower .. info.upper
  PROVE  Prices!Acceptable # {} /\ Actual = Prices!Best(Prices!Acceptable)
<1>1. /\ order.side \in {"buy", "sell"} /\ info.lower \in Int /\ info.upper \in Int /\ order.price \in Int /\ Actual \in Int
      /\ Noise \in Int
  BY PriceFields, PriceFound, PriceBounds
<1>2. Actual \in Prices!Acceptable
  BY <1>1, PriceFound DEF Prices!Acceptable, Prices!Legal
<1>3. \A q \in Prices!Acceptable : IF order.side = "buy" THEN q <= Actual ELSE q >= Actual
  <2> SUFFICES ASSUME NEW q \in Prices!Acceptable PROVE IF order.side = "buy" THEN q <= Actual ELSE q >= Actual
    OBVIOUS
  <2>1. q \in Int /\ Prices!OnGrid(q) /\ q <= info.upper /\ q >= info.lower
    BY <1>1 DEF Prices!Acceptable, Prices!Legal
  <2>2. IF order.side = "buy" THEN q <= order.price + Noise ELSE q >= order.price - Noise
    BY DEF Prices!Acceptable
  <2> QED BY <1>1, <2>1, <2>2, PriceFound
<1>4. Prices!Acceptable \in SUBSET Int
  BY <1>1 DEF Prices!Acceptable, Prices!Legal
<1>5. Actual = Prices!Best(Prices!Acceptable)
  BY <1>1, <1>2, <1>3, <1>4, BestOf
<1> QED BY <1>2, <1>5

\* A limit order that is refused as wrong is wrong.
LEMMA LimitRefused ==
  ASSUME PriceTypes, order.kind = "limit", Decided = Prices!Error("422"), order.volume \in info.least .. info.most,
         Prices!Acceptable # {}
  PROVE  IF order.side = "buy" THEN order.price * Whole > info.upper * (Whole + Ratio)
         ELSE order.price * Whole < info.lower * (Whole - Ratio)
<1>1. /\ order.side \in {"buy", "sell"} /\ info.lower \in Int /\ info.upper \in Int /\ order.price \in Int
      /\ Actual \in Int /\ Asked \in Int /\ Noise \in Int /\ Whole \in Int /\ Ratio \in Int /\ Whole > 0
  BY PriceFields, PriceFound, PriceBounds
<1>2. PICK q \in Prices!Acceptable : TRUE
  OBVIOUS
<1>3. q \in Int /\ Prices!OnGrid(q) /\ q <= info.upper /\ q >= info.lower
  BY <1>1 DEF Prices!Acceptable, Prices!Legal
<1>4. IF order.side = "buy" THEN q <= order.price + Noise ELSE q >= order.price - Noise
  BY DEF Prices!Acceptable
<1>5. ~Prices!Hopeless(order.side, Asked)
  BY <1>1, <1>3, <1>4, PriceFound DEF Prices!Hopeless
<1>6. Prices!Usable => info.lower > 0 /\ info.lower <= info.upper
  BY DEF Prices!Usable
<1>7. Prices!Usable => Actual > 0 /\ Actual \in info.lower .. info.upper
  BY <1>1, <1>3, <1>4, <1>6, PriceFound
<1>8. Prices!Outside(order.side, Asked) /\ Prices!Beyond(order.side, Asked) > Noise * Whole
  BY <1>5, <1>7, LimitDecided, ResultFields
<1>9. Asked - order.price <= Noise /\ order.price - Asked <= Noise
  BY PriceFound
<1>10. CASE order.side = "buy"
  <2>1. Asked * Whole - info.upper * (Whole + Ratio) > Noise * Whole
    BY <1>8, <1>10 DEF Prices!Beyond
  <2>2. (order.price + Noise) * Whole >= Asked * Whole
    BY <1>1, <1>9
  <2>3. (order.price + Noise) * Whole = order.price * Whole + Noise * Whole
    BY <1>1
  <2> QED BY <1>1, <1>10, <2>1, <2>2, <2>3
<1>11. CASE order.side = "sell"
  <2>1. info.lower * (Whole - Ratio) - Asked * Whole > Noise * Whole
    BY <1>8, <1>11 DEF Prices!Beyond
  <2>2. (Asked + Noise) * Whole >= order.price * Whole
    BY <1>1, <1>9
  <2>3. (Asked + Noise) * Whole = Asked * Whole + Noise * Whole
    BY <1>1
  <2> QED BY <1>1, <1>11, <2>1, <2>2, <2>3
<1> QED BY <1>1, <1>10, <1>11

\* Normalised again the price stays, and a price that was changed says why.
LEMMA LimitIsStable ==
  ASSUME PriceTypes, order.kind = "limit", Sound, Actual > 0, Actual \in info.lower .. info.upper
  PROVE  /\ Prices!NormalizeLimit(order.side, Actual) = Prices!Price(Actual, <<>>)
         /\ Actual # order.price <=> Reasons # <<>>
<1>1. /\ order.side \in {"buy", "sell"} /\ info.lower \in Int /\ info.upper \in Int /\ order.price \in Int
      /\ Actual \in Int /\ Prices!OnGrid(Actual)
  BY PriceFields, PriceFound
<1>2. Prices!Denoised(Actual) = Actual /\ Prices!Aligned(order.side, Actual) = Actual
  BY <1>1, Denoise, Align
<1>3. ~Prices!Outside(order.side, Actual) /\ ~Prices!Hopeless(order.side, Actual)
  BY <1>1 DEF Prices!Outside, Prices!Hopeless
<1>4. Prices!ValidateLimit(Actual) = "ok"
  BY <1>1, Validated
<1>5. Prices!If(FALSE, "float_noise") \o Prices!If(FALSE, "limit") \o Prices!If(FALSE, "tick") = <<>>
  BY ReasonsEmpty
<1>6. Prices!NormalizeLimit(order.side, Actual) = Prices!Price(Actual, <<>>)
  <2> DEFINE p == Prices!Denoised(Actual)
             c == IF Prices!Outside(order.side, p) THEN Prices!Limit(order.side) ELSE p
             a == Prices!Aligned(order.side, c)
             n == p # Actual \/ (Prices!Outside(order.side, p) /\ Prices!Beyond(order.side, p) > 0)
             r == Prices!If(n, "float_noise") \o Prices!If(c # p, "limit") \o Prices!If(a # c, "tick")
  <2>1. Prices!NormalizeLimit(order.side, Actual) =
          IF ~Prices!Usable \/ ~Prices!VolumesUsable THEN Prices!Error("503")
          ELSE IF order.volume \notin info.least .. info.most THEN Prices!Error("422")
          ELSE IF Prices!Hopeless(order.side, p) THEN Prices!Error("422")
          ELSE IF Prices!Outside(order.side, p) /\ Prices!Beyond(order.side, p) > Noise * Whole THEN Prices!Error("422")
          ELSE IF a <= 0 \/ a \notin info.lower .. info.upper THEN Prices!Error("422")
          ELSE IF Prices!ValidateLimit(a) # "ok" THEN Prices!Error(Prices!ValidateLimit(a))
          ELSE Prices!Price(a, r)
    BY DEF Prices!NormalizeLimit
  <2>2. p = Actual
    BY <1>2
  <2>3. c = p
    BY <1>3, <2>2
  <2>4. a = c
    BY <1>2, <2>2, <2>3
  <2>5. n = FALSE
    BY <1>3, <2>2
  <2>6. (c # p) = FALSE /\ (a # c) = FALSE
    BY <2>3, <2>4
  <2>7. r = <<>>
    <3> HIDE DEF n, c, a, p
    <3> QED BY <1>5, <2>5, <2>6
  <2> HIDE DEF p, c, a, n, r
  <2>8. ~Prices!Outside(order.side, p) /\ ~Prices!Hopeless(order.side, p) /\ a = Actual
    BY <1>3, <2>2, <2>3, <2>4
  <2>9. ~(a <= 0)
    BY <1>1, <2>8
  <2> QED BY <1>4, <2>1, <2>7, <2>8, <2>9 DEF Sound
<1>7. Reasons = <<>> <=> ~Noisy /\ Clipped = Asked /\ Actual = Clipped
  <2>1. Noisy \in BOOLEAN /\ (Clipped # Asked) \in BOOLEAN /\ (Actual # Clipped) \in BOOLEAN
    BY DEF Noisy
  <2>2. Reasons = <<>> <=> ~Noisy /\ ~(Clipped # Asked) /\ ~(Actual # Clipped)
    BY <2>1, ReasonsEmpty DEF Reasons
  <2> QED BY <2>2
<1>8. Reasons = <<>> => Actual = order.price
  BY <1>7 DEF Noisy
<1>9. Actual = order.price => Reasons = <<>>
  <2>1. ASSUME Actual = order.price PROVE Asked = order.price /\ Clipped = Asked /\ ~Noisy
    <3>1. Asked = order.price
      BY <1>2, <2>1 DEF Asked
    <3>2. ~Prices!Outside(order.side, Asked)
      BY <1>3, <2>1, <3>1
    <3> QED BY <3>1, <3>2 DEF Clipped, Noisy
  <2> QED BY <1>7, <2>1
<1> QED BY <1>6, <1>8, <1>9

\* Whatever a price is decided to be, its fields are in their domains.
LEMMA DecidedTyped ==
  ASSUME PriceTypes
  PROVE  /\ Decided.status \in {"ok", "409", "422", "503"} /\ Decided.price \in Nat
         /\ Len(Decided.reasons) <= 3
<1>1. Len(Reasons) <= 3
  <2>1. Noisy \in BOOLEAN /\ (Clipped # Asked) \in BOOLEAN /\ (Actual # Clipped) \in BOOLEAN
    BY DEF Noisy
  <2> QED BY <2>1, ReasonsEmpty DEF Reasons
<1>2. Len(<<>>) = 0
  OBVIOUS
<1>3. CASE order.kind = "limit"
  <2>1. Decided = Prices!Error("503") \/ Decided = Prices!Error("422")
        \/ (Decided = Prices!Price(Actual, Reasons) /\ Actual > 0)
    BY <1>3, LimitDecided
  <2>2. Actual \in Int
    BY PriceFound
  <2> QED BY <1>1, <1>2, <2>1, <2>2, ResultFields
<1>4. CASE order.kind = "market"
  <2>1. \/ \E s \in {"409", "422", "503"} : Decided = Prices!Error(s)
        \/ Decided = Prices!Price(Prices!Limit(order.side), <<>>)
    BY <1>4, MarketDecided
  <2>2. Prices!Limit(order.side) \in Nat
    BY PriceFields DEF Prices!Limit
  <2> QED BY <1>2, <2>1, <2>2, ResultFields
<1> QED BY <1>3, <1>4, PriceFields

\* The second check accepts what was decided.
LEMMA DecidedPasses ==
  ASSUME PriceTypes, Decided.status = "ok"
  PROVE  Prices!ValidateLimit(Decided.price) = "ok"
<1>1. CASE order.kind = "limit"
  <2>1. Decided = Prices!Price(Actual, Reasons) /\ Sound /\ Actual \in info.lower .. info.upper
    BY <1>1, LimitDecided, ResultFields
  <2> QED BY <2>1, PriceFound, Validated, ResultFields
<1>2. CASE order.kind = "market"
  <2>1. /\ Decided = Prices!Price(Prices!Limit(order.side), <<>>) /\ Prices!OnGrid(Prices!Limit(order.side))
        /\ Prices!Limit(order.side) \in info.lower .. info.upper /\ Sound
    BY <1>2, MarketDecided, ResultFields
  <2>2. Prices!Limit(order.side) \in Int
    BY PriceFields DEF Prices!Limit
  <2> QED BY <2>1, <2>2, Validated, ResultFields
<1> QED BY <1>1, <1>2, PriceFields

\* The instrument and the order of the behaviours without a price are in their domains.
LEMMA PriceInit == Init => PriceInv
<1> SUFFICES ASSUME Init PROVE PriceInv
  OBVIOUS
<1>1. Prices!Init
  BY Zenon DEF Init
<1> QED BY <1>1, Zenon DEF Prices!Init, PriceInv, PriceTypes

\* A price once decided stays what the order and the instrument make it (pricing.py execute, validate_limit).
LEMMA PriceStep == PriceInv /\ [Next]_vars => PriceInv'
<1> SUFFICES ASSUME PriceInv, [Next]_vars PROVE PriceInv'
  OBVIOUS
<1>1. ASSUME UNCHANGED priceVars PROVE PriceInv'
  <2>1. UNCHANGED order /\ UNCHANGED info /\ UNCHANGED price
    BY <1>1, Zenon DEF priceVars
  <2>2. Decided' = Decided
    BY <2>1 DEF Decided, Prices!NormalizeLimit, Prices!EmulateMarket, Prices!Usable, Prices!VolumesUsable,
      Prices!Outside, Prices!Limit, Prices!Beyond, Prices!Hopeless, Prices!ValidateLimit
  <2> QED BY <2>1, <2>2, Zenon DEF PriceInv, PriceTypes
<1>2. ASSUME Prices!Next PROVE PriceInv'
  <2>1. UNCHANGED order /\ UNCHANGED info
    BY <1>2, Zenon DEF Prices!Next, Prices!Decide, Prices!Revalidate
  <2>2. Decided' = Decided
    BY <2>1 DEF Decided, Prices!NormalizeLimit, Prices!EmulateMarket, Prices!Usable, Prices!VolumesUsable,
      Prices!Outside, Prices!Limit, Prices!Beyond, Prices!Hopeless, Prices!ValidateLimit
  <2>3. price' = Decided \/ price' = price
    <3>1. CASE Prices!Decide
      BY <3>1, Zenon DEF Prices!Decide, Decided
    <3>2. CASE Prices!Revalidate
      <4>1. price.status = "ok" /\ price' = IF Prices!ValidateLimit(price.price) = "ok" THEN price ELSE Prices!Error("late")
        BY <3>2, Zenon DEF Prices!Revalidate
      <4>2. price = Decided
        BY <4>1, ResultFields DEF PriceInv
      <4>3. Prices!ValidateLimit(price.price) = "ok"
        BY <4>1, <4>2, DecidedPasses, Zenon DEF PriceInv
      <4> QED BY <4>1, <4>3, Zenon
    <3> QED BY <1>2, <3>1, <3>2, Zenon DEF Prices!Next
  <2>4. price' \in {Prices!Pending, Decided'}
    BY <2>2, <2>3, Zenon DEF PriceInv
  <2> QED BY <2>1, <2>4, Zenon DEF PriceInv, PriceTypes, Prices!Pending
<1>3. UNCHANGED priceVars \/ Prices!Next
  BY Zenon DEF Next, vars
<1> QED BY <1>1, <1>2, <1>3

\* In every reachable state the price is undecided or what the algorithm makes of the order and the instrument.
THEOREM PriceInvariant == Spec => []PriceInv
<1> QED BY PriceInit, PriceStep, PTL DEF Spec

\* Every field of a price stays in its domain, and the second check never refuses it.
LEMMA PriceTyped == PriceInv => Prices!TypeOK
<1> SUFFICES ASSUME PriceInv PROVE Prices!TypeOK
  OBVIOUS
<1>1. price = Prices!Pending \/ price = Decided
  BY Zenon DEF PriceInv
<1>2. Len(<<>>) = 0
  OBVIOUS
<1> QED BY <1>1, <1>2, DecidedTyped, ResultFields DEF PriceInv, Prices!TypeOK

\* An order goes out at the best legal price no worse than the one asked for, is refused only for a
\* reason, and needs no second adjustment; a market order goes out at its limit (pricing.py, market.py).
THEOREM PriceRight == Spec => []PriceIsRight
<1>1. PriceInv => PriceIsRight
  <2> SUFFICES ASSUME PriceInv PROVE PriceIsRight
    OBVIOUS
  <2>1. PriceTypes /\ (price = Prices!Pending \/ price = Decided)
    BY Zenon DEF PriceInv
  <2>2. ASSUME price.status = "ok", order.kind = "limit"
        PROVE  /\ price = Prices!Price(Actual, Reasons) /\ Sound
               /\ Actual > 0 /\ Actual \in info.lower .. info.upper
    <3>1. price = Decided
      BY <2>1, <2>2, ResultFields
    <3> QED BY <2>1, <2>2, <3>1, LimitDecided, ResultFields
  <2>3. Prices!BestLegalPrice
    <3> SUFFICES ASSUME price.status = "ok", order.kind = "limit"
                 PROVE  Prices!Acceptable # {} /\ price.price = Prices!Best(Prices!Acceptable)
      BY Zenon DEF Prices!BestLegalPrice, Prices!Ok
    <3>1. price.price = Actual /\ Actual \in info.lower .. info.upper
      BY <2>2, ResultFields
    <3>2. Prices!Acceptable # {} /\ Actual = Prices!Best(Prices!Acceptable)
      BY <2>1, <3>1, LimitIsBest, Zenon
    <3> QED BY <3>1, <3>2, Zenon
  <2>4. Prices!RefusedWithReason
    <3>1. ASSUME price.status = "422", order.kind = "limit" PROVE Decided = Prices!Error("422")
      <4>1. price = Decided
        BY <2>1, <3>1, ResultFields
      <4> QED BY <2>1, <3>1, <4>1, LimitDecided, ResultFields
    <3> QED BY <2>1, <3>1, LimitRefused DEF Prices!RefusedWithReason
  <2>5. Prices!Stable
    <3> SUFFICES ASSUME price.status = "ok", order.kind = "limit"
                 PROVE  /\ Prices!NormalizeLimit(order.side, price.price) = Prices!Price(price.price, <<>>)
                        /\ price.price # order.price <=> price.reasons # <<>>
      BY Zenon DEF Prices!Stable, Prices!Ok
    <3>1. price.price = Actual /\ price.reasons = Reasons
      BY <2>2, ResultFields
    <3>2. /\ Prices!NormalizeLimit(order.side, Actual) = Prices!Price(Actual, <<>>)
          /\ Actual # order.price <=> Reasons # <<>>
      BY <2>1, <2>2, LimitIsStable, Zenon
    <3> QED BY <3>1, <3>2, Zenon
  <2>6. Prices!MarketAtLimit
    <3> SUFFICES ASSUME price.status = "ok", order.kind = "market" PROVE price.price = Prices!Best(Prices!Legal)
      BY Zenon DEF Prices!MarketAtLimit, Prices!Ok
    <3> DEFINE l == Prices!Limit(order.side)
    <3>1. /\ order.side \in {"buy", "sell"} /\ info.lower \in Int /\ info.upper \in Int
      BY <2>1, PriceFields
    <3>2. price = Prices!Price(l, <<>>) /\ Prices!OnGrid(l) /\ l \in info.lower .. info.upper
      <4>1. price = Decided
        BY <2>1, ResultFields
      <4> QED BY <2>1, <4>1, MarketDecided, ResultFields
    <3>3. l \in Prices!Legal /\ Prices!Legal \in SUBSET Int
      BY <3>1, <3>2 DEF Prices!Legal
    <3>4. \A q \in Prices!Legal : IF order.side = "buy" THEN q <= l ELSE q >= l
      BY <3>1 DEF Prices!Legal, Prices!Limit
    <3> HIDE DEF l
    <3>5. l = Prices!Best(Prices!Legal)
      BY <3>1, <3>3, <3>4, BestOf
    <3> QED BY <3>2, <3>5, ResultFields
  <2> QED BY <2>3, <2>4, <2>5, <2>6, Zenon DEF PriceIsRight
<1> QED BY <1>1, PriceInvariant, PTL

=============================================================================
