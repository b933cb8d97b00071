-------------------------- MODULE JeedomBridgeProof --------------------------
(***************************************************************************)
(* Theorems about JeedomBridge for any slugs, ids, goroutines, catalogs,   *)
(* caches and messages: the gates are taken without a deadlock, a command  *)
(* has one owner, what is owned does not wait to be removed, everything    *)
(* has its type and no two devices a revision in common, what Home         *)
(* Assistant shows never goes back, and what it has of a command nobody    *)
(* owns any more is going to be removed.                                   *)
(***************************************************************************)
EXTENDS JeedomBridge, FiniteSetTheorems, WellFoundedInduction, TLAPS

(* Least and greatest elements                                             *)

LEMMA LeastOf == ASSUME NEW W \in SUBSET Nat, W # {} PROVE Min(W) \in W /\ \A k \in W : Min(W) <= k
<1>1. PICK m \in W : \A k \in W : ~(<<k, m>> \in OpToRel(<, Nat))
  BY NatLessThanWellFounded, WFMin
<1>2. \A k \in W : m <= k
  <2> TAKE k \in W
  <2>1. k \in Nat /\ m \in Nat
    OBVIOUS
  <2>2. ~(<<k, m>> \in OpToRel(<, Nat))
    BY <1>1
  <2>3. ~(k < m)
    BY <2>1, <2>2 DEF OpToRel
  <2> QED
    BY <2>1, <2>3
<1> QED
  BY <1>2 DEF Min

\* A finite set of numbers has a largest one: the least number that bounds it.
LEMMA GreatestOf ==
    ASSUME NEW W \in SUBSET Nat, W # {}, IsFiniteSet(W)
    PROVE  Max(W) \in W /\ \A k \in W : Max(W) >= k
<1> DEFINE Bounds == {n \in Nat : \A k \in W : k <= n}
           Heights == {n \in Nat : \E V \in SUBSET W : Cardinality(V) = n /\ V # {} /\ ~\E n2 \in V : \A k \in V : k <= n2}
<1>1. ASSUME NEW V \in SUBSET W, V # {} PROVE \E m \in V : \A k \in V : k <= m
  <2> SUFFICES ASSUME Heights # {} PROVE FALSE
    <3>1. IsFiniteSet(V)
      BY FS_Subset
    <3>2. Cardinality(V) \in Nat
      BY <3>1, FS_CardinalityType
    <3> QED
      BY <1>1, <3>2
  <2>1. PICK n \in Heights : \A k \in Heights : n <= k
    BY LeastOf
  <2>2. PICK U \in SUBSET W : Cardinality(U) = n /\ U # {} /\ ~\E n2 \in U : \A k \in U : k <= n2
    BY <2>1
  <2>3. PICK x \in U : TRUE
    BY <2>2
  <2>4. IsFiniteSet(U)
    BY FS_Subset
  <2>5. Cardinality(U \ {x}) = n - 1 /\ IsFiniteSet(U \ {x}) /\ Cardinality(U \ {x}) \in Nat
    BY <2>2, <2>3, <2>4, FS_RemoveElement, FS_CardinalityType
  <2>6. U \ {x} # {}
    BY <2>2, <2>3
  <2>7. n - 1 \notin Heights
    BY <2>1, <2>5
  <2>8. PICK m \in U \ {x} : \A k \in U \ {x} : k <= m
    BY <2>5, <2>6, <2>7
  <2>9. x \in Nat /\ m \in Nat /\ \A k \in U : k \in Nat
    OBVIOUS
  <2>10. CASE x <= m
    BY <2>2, <2>3, <2>8, <2>9, <2>10
  <2>11. CASE m <= x
    BY <2>2, <2>3, <2>8, <2>9, <2>11
  <2> QED
    BY <2>9, <2>10, <2>11
<1>2. PICK m \in W : \A k \in W : k <= m
  BY <1>1
<1> QED
  BY <1>2 DEF Max

-----------------------------------------------------------------------------
(* Loops over a set, in an order                                           *)

\* last[V] is the element of V that is visited last.
LastOf(last, S) == \A V \in SUBSET S : V # {} => last[V] \in V

\* The stages of a loop over S whose step is F: one for every subset.
StagesBy(g, S, x, F, last) ==
    g = [V \in SUBSET S |-> IF V = {} THEN x ELSE F[<<g[V \ {last[V]}], last[V]>>]]

LEMMA LoopExistsBy ==
    ASSUME NEW S, IsFiniteSet(S), NEW X, NEW x \in X, NEW F \in [X \X S -> X], NEW last, LastOf(last, S)
    PROVE  \E g \in [SUBSET S -> X] : StagesBy(g, S, x, F, last)
<1> DEFINE Upto(n) == {V \in SUBSET S : Cardinality(V) <= n}
           Loop(g, n) == \A V \in Upto(n) : g[V] = IF V = {} THEN x ELSE F[<<g[V \ {last[V]}], last[V]>>]
           Missing == {n \in Nat : ~\E g \in [Upto(n) -> X] : Loop(g, n)}
<1>1. ASSUME NEW V \in SUBSET S
      PROVE  /\ IsFiniteSet(V) /\ Cardinality(V) \in Nat /\ Cardinality(V) <= Cardinality(S)
             /\ V = {} <=> Cardinality(V) = 0
             /\ V # {} => last[V] \in V /\ Cardinality(V \ {last[V]}) = Cardinality(V) - 1
  <2>1. IsFiniteSet(V) /\ Cardinality(V) <= Cardinality(S)
    BY FS_Subset
  <2>2. Cardinality(V) \in Nat /\ (V = {} <=> Cardinality(V) = 0)
    BY <2>1, FS_CardinalityType, FS_EmptySet
  <2>3. V # {} => last[V] \in V
    BY DEF LastOf
  <2>4. V # {} => Cardinality(V \ {last[V]}) = Cardinality(V) - 1
    BY <2>1, <2>3, FS_RemoveElement
  <2> QED
    BY <2>1, <2>2, <2>3, <2>4
<1>2. Missing = {}
  <2> SUFFICES ASSUME Missing # {} PROVE FALSE
    OBVIOUS
  <2>1. PICK n \in Missing : \A k \in Missing : n <= k
    BY LeastOf
  <2>2. CASE n = 0
    <3> DEFINE g == [V \in Upto(0) |-> x]
    <3>1. ASSUME NEW V \in Upto(0) PROVE V = {}
      <4>1. Cardinality(V) \in Nat /\ Cardinality(V) <= 0 /\ (V = {} <=> Cardinality(V) = 0)
        BY <1>1
      <4> QED
        BY <4>1
    <3>2. g \in [Upto(0) -> X] /\ Loop(g, 0)
      BY <3>1
    <3> QED
      BY <2>1, <2>2, <3>2
  <2>3. CASE n > 0
    <3>1. n - 1 \in Nat /\ n - 1 \notin Missing
      <4>1. n \in Nat
        BY <2>1
      <4> HIDE DEF Missing
      <4> QED
        BY <2>1, <2>3, <4>1
    <3>2. PICK g \in [Upto(n - 1) -> X] : Loop(g, n - 1)
      BY <3>1
    <3> DEFINE h == [V \in Upto(n) |-> IF V = {} THEN x ELSE F[<<g[V \ {last[V]}], last[V]>>]]
    <3>3. ASSUME NEW V \in Upto(n), V # {} PROVE V \ {last[V]} \in Upto(n - 1) /\ last[V] \in S
      <4>1. last[V] \in V /\ Cardinality(V \ {last[V]}) = Cardinality(V) - 1 /\ Cardinality(V) <= n /\ Cardinality(V) \in Nat
        BY <1>1, <3>3
      <4>2. Cardinality(V) - 1 <= n - 1
        BY <3>1, <4>1
      <4> QED
        BY <4>1, <4>2
    <3>4. h \in [Upto(n) -> X]
      <4> SUFFICES ASSUME NEW V \in Upto(n), V # {} PROVE F[<<g[V \ {last[V]}], last[V]>>] \in X
        OBVIOUS
      <4>1. g[V \ {last[V]}] \in X /\ last[V] \in S
        BY <3>2, <3>3
      <4> QED
        BY <4>1
    <3>5. ASSUME NEW V \in Upto(n - 1) PROVE V \in Upto(n) /\ h[V] = g[V]
      <4>1. Cardinality(V) \in Nat /\ Cardinality(V) <= n - 1
        BY <1>1
      <4>2. Cardinality(V) <= n
        BY <3>1, <4>1
      <4> QED
        BY <3>2, <4>2
    <3>6. Loop(h, n)
      <4> SUFFICES ASSUME NEW V \in Upto(n), V # {} PROVE h[V] = F[<<h[V \ {last[V]}], last[V]>>]
        OBVIOUS
      <4>1. h[V \ {last[V]}] = g[V \ {last[V]}]
        BY <3>3, <3>5
      <4> QED
        BY <4>1
    <3> QED
      BY <2>1, <3>4, <3>6
  <2> QED
    BY <2>2, <2>3
<1>3. Cardinality(S) \in Nat /\ Upto(Cardinality(S)) = SUBSET S
  BY <1>1
<1>4. PICK g \in [Upto(Cardinality(S)) -> X] : Loop(g, Cardinality(S))
  BY <1>2, <1>3
<1>5. StagesBy(g, S, x, F, last)
  <2> HIDE DEF Upto
  <2>1. g \in [SUBSET S -> X] /\ \A V \in SUBSET S : g[V] = IF V = {} THEN x ELSE F[<<g[V \ {last[V]}], last[V]>>]
    BY <1>3, <1>4
  <2> QED
    BY <2>1 DEF StagesBy
<1> QED
  BY <1>3, <1>4, <1>5

\* What holds before the first step and is kept by every step holds at the end.
LEMMA LoopKeepsBy ==
    ASSUME NEW S, IsFiniteSet(S), NEW Y, NEW g, NEW last, LastOf(last, S),
           <<{}, g[{}]>> \in Y,
           \A V \in SUBSET S : /\ V # {} /\ last[V] \in V
                               /\ <<V \ {last[V]}, g[V \ {last[V]}]>> \in Y
                               => <<V, g[V]>> \in Y
    PROVE  <<S, g[S]>> \in Y
<1> DEFINE Bad == {V \in SUBSET S : <<V, g[V]>> \notin Y}
           Sizes == {n \in Nat : \E V \in Bad : Cardinality(V) = n}
<1> SUFFICES ASSUME S \in Bad PROVE FALSE
  OBVIOUS
<1>1. \A V \in SUBSET S : IsFiniteSet(V) /\ Cardinality(V) \in Nat
  BY FS_Subset, FS_CardinalityType
<1>2. Sizes # {}
  BY <1>1
<1>3. PICK n \in Sizes : \A k \in Sizes : n <= k
  BY <1>2, LeastOf
<1>4. PICK V \in Bad : Cardinality(V) = n
  BY <1>3
<1>5. V # {} /\ last[V] \in V
  BY DEF LastOf
<1>6. Cardinality(V \ {last[V]}) = n - 1 /\ Cardinality(V \ {last[V]}) \in Nat
  BY <1>1, <1>4, <1>5, FS_RemoveElement
<1>7. V \ {last[V]} \notin Bad
  <2>1. V \ {last[V]} \in Bad => n - 1 \in Sizes
    BY <1>6
  <2>2. n \in Nat /\ (n - 1 \in Sizes => n <= n - 1)
    BY <1>3
  <2> QED
    BY <2>1, <2>2
<1> QED
  BY <1>5, <1>7

\* The same of a set that no step leaves.
LEMMA LoopStaysBy ==
    ASSUME NEW S, IsFiniteSet(S), NEW X, NEW g, NEW last, LastOf(last, S),
           g[{}] \in X,
           \A V \in SUBSET S : V # {} /\ last[V] \in S /\ g[V \ {last[V]}] \in X => g[V] \in X
    PROVE  g[S] \in X
<1> DEFINE Y == (SUBSET S) \X X
<1>1. <<{}, g[{}]>> \in Y
  OBVIOUS
<1>2. ASSUME NEW V \in SUBSET S, V # {}, last[V] \in V, <<V \ {last[V]}, g[V \ {last[V]}]>> \in Y
      PROVE  <<V, g[V]>> \in Y
  <2>1. g[V \ {last[V]}] \in X /\ last[V] \in S
    BY <1>2
  <2>2. g[V] \in X
    BY <1>2, <2>1
  <2> QED
    BY <2>2
<1>3. <<S, g[S]>> \in Y
  <2> HIDE DEF Y
  <2> QED
    BY <1>1, <1>2, LoopKeepsBy
<1> QED
  BY <1>3

\* Loops over a sorted set of numbers: the largest is visited last.
Sorted(S) == [V \in SUBSET S |-> Max(V)]
Stages(g, S, x, F) ==
    g = [V \in SUBSET S |-> IF V = {} THEN x ELSE F[<<g[V \ {Max(V)}], Max(V)>>]]

LEMMA LastInside ==
    ASSUME NEW S \in SUBSET Nat, IsFiniteSet(S)
    PROVE  \A V \in SUBSET S : V # {} => Max(V) \in V
BY GreatestOf, FS_Subset

LEMMA SortedLast ==
    ASSUME NEW S \in SUBSET Nat, IsFiniteSet(S)
    PROVE  LastOf(Sorted(S), S) /\ \A V \in SUBSET S : Sorted(S)[V] = Max(V)
BY LastInside DEF LastOf, Sorted

LEMMA LoopExists ==
    ASSUME NEW S \in SUBSET Nat, IsFiniteSet(S), NEW X, NEW x \in X, NEW F \in [X \X S -> X]
    PROVE  \E g \in [SUBSET S -> X] : Stages(g, S, x, F)
<1>1. LastOf(Sorted(S), S) /\ \A V \in SUBSET S : Sorted(S)[V] = Max(V)
  BY SortedLast
<1>2. PICK g \in [SUBSET S -> X] : StagesBy(g, S, x, F, Sorted(S))
  BY <1>1, LoopExistsBy
<1> QED
  BY <1>1, <1>2 DEF Stages, StagesBy

LEMMA LoopKeeps ==
    ASSUME NEW S \in SUBSET Nat, IsFiniteSet(S), NEW Y, NEW g,
           <<{}, g[{}]>> \in Y,
           \A V \in SUBSET S : /\ V # {} /\ Max(V) \in V
                               /\ <<V \ {Max(V)}, g[V \ {Max(V)}]>> \in Y
                               => <<V, g[V]>> \in Y
    PROVE  <<S, g[S]>> \in Y
<1>1. LastOf(Sorted(S), S) /\ \A V \in SUBSET S : Sorted(S)[V] = Max(V)
  BY SortedLast
<1>2. ASSUME NEW V \in SUBSET S, V # {}, Sorted(S)[V] \in V,
             <<V \ {Sorted(S)[V]}, g[V \ {Sorted(S)[V]}]>> \in Y
      PROVE  <<V, g[V]>> \in Y
  BY <1>1, <1>2
<1> QED
  BY <1>1, <1>2, LoopKeepsBy

LEMMA LoopStays ==
    ASSUME NEW S \in SUBSET Nat, IsFiniteSet(S), NEW X, NEW g,
           g[{}] \in X,
           \A V \in SUBSET S : V # {} /\ Max(V) \in S /\ g[V \ {Max(V)}] \in X => g[V] \in X
    PROVE  g[S] \in X
<1>1. LastOf(Sorted(S), S) /\ \A V \in SUBSET S : Sorted(S)[V] = Max(V)
  BY SortedLast
<1>2. ASSUME NEW V \in SUBSET S, V # {}, Sorted(S)[V] \in S, g[V \ {Sorted(S)[V]}] \in X
      PROVE  g[V] \in X
  BY <1>1, <1>2
<1> QED
  BY <1>1, <1>2, LoopStaysBy

-----------------------------------------------------------------------------
(* The gates                                                               *)

Holding == {"gates", "tombstones", "aliases", "discovery", "state"}

IsThread(x) == x = [pc |-> x.pc, todo |-> x.todo, want |-> x.want, dirty |-> x.dirty]

GatesTypes == /\ owner \in [Slugs -> Threads \cup {None}]
              /\ th = [t \in Threads |-> th[t]] /\ \A t \in Threads : IsThread(th[t])

\* The gates a goroutine has are smaller than those it still wants.
Ascending(t) ==
    th[t].pc = "gates" => /\ th[t].want \subseteq Slugs
                          /\ \A s \in Slugs : owner[s] = t => \A k \in th[t].want : s < k

\* Only a goroutine that publishes a device has gates.
Needed(t) == (\E s \in Slugs : owner[s] = t) => th[t].pc \in Holding

\* It sends no group of messages the device does not have.
HasGroup(sn, pc) == /\ pc = "tombstones" => Gone(sn)
                    /\ pc = "aliases" => AliasesOf(sn) # {}
Grouped(t) == HasGroup(Head(th[t].todo), th[t].pc)

GatesInv == GatesTypes /\ \A t \in Threads : Ascending(t) /\ Needed(t) /\ Grouped(t)
-----------------------------------------------------------------------------
(* The groups of a device                                                  *)

LEMMA AfterFacts ==
    ASSUME NEW sn, NEW pc \in {"gates", "tombstones", "aliases", "discovery"}, HasGroup(sn, pc)
    PROVE  After(sn, pc) \in Holding \ {"gates"} /\ HasGroup(sn, After(sn, pc))
BY DEF After, HasGroup, Holding

LEMMA BeginFacts ==
    ASSUME NEW t, NEW todo, NEW dirty
    PROVE  /\ IsThread(Begin(t, todo, dirty)) /\ Begin(t, todo, dirty).pc \in {"gates", "save", "idle"}
           /\ Begin(t, todo, dirty).pc = "gates" => Begin(t, todo, dirty).want \subseteq Slugs
BY DEF Begin, Idle, IsThread, Keys

\* A goroutine stops publishing, or begins to publish without a gate.
LEMMA Moves ==
    ASSUME GatesInv, NEW t \in Threads,
           th' = [u \in Threads |-> th'[u]], \A u \in Threads \ {t} : th'[u] = th[u],
           IsThread(th'[t]), th'[t].pc \notin {"tombstones", "aliases"},
           th'[t].pc = "gates" => th'[t].want \subseteq Slugs,
           owner' \in [Slugs -> Threads \cup {None}],
           \A s \in Slugs : owner'[s] # t /\ (owner'[s] \in Threads => owner'[s] = owner[s])
    PROVE  GatesInv'
<1>1. GatesTypes'
  BY DEF GatesInv, GatesTypes, IsThread
<1>2. ASSUME NEW u \in Threads PROVE (Ascending(u) /\ Needed(u) /\ Grouped(u))'
  <2>1. CASE u = t
    <3>1. \A s \in Slugs : owner'[s] # u
      BY <2>1
    <3> QED
      BY <2>1, <3>1 DEF Ascending, Needed, Grouped, HasGroup
  <2>2. CASE u # t
    <3>1. th'[u] = th[u] /\ Ascending(u) /\ Needed(u) /\ Grouped(u)
      BY <2>2 DEF GatesInv
    <3>2. \A s \in Slugs : owner'[s] = u => owner[s] = u
      OBVIOUS
    <3> QED
      BY <3>1, <3>2 DEF Ascending, Needed, Grouped, HasGroup, Gone, AliasesOf
  <2> QED
    BY <2>1, <2>2
<1> QED
  BY <1>1, <1>2 DEF GatesInv

\* A goroutine with its gates goes from one group of messages to the next.
LEMMA Sends ==
    ASSUME GatesInv, NEW t \in Threads, NEW pc \in {"tombstones", "aliases", "discovery"}, Sent(t, pc)
    PROVE  GatesInv'
<1>1. /\ owner' = owner /\ th = [u \in Threads |-> th[u]] /\ IsThread(th[t])
      /\ th[t].pc = pc /\ HasGroup(Head(th[t].todo), pc)
  BY DEF GatesInv, GatesTypes, Sent, Grouped, gates
<1>2. After(Head(th[t].todo), pc) \in Holding \ {"gates"}
      /\ HasGroup(Head(th[t].todo), After(Head(th[t].todo), pc))
  BY <1>1, AfterFacts
<1>3. /\ th' = [u \in Threads |-> th'[u]] /\ \A u \in Threads \ {t} : th'[u] = th[u]
      /\ IsThread(th'[t]) /\ th'[t].pc = After(Head(th[t].todo), pc) /\ th'[t].todo = th[t].todo
  <2> HIDE DEF After
  <2> QED
    BY <1>1 DEF Sent, IsThread
<1>4. GatesTypes'
  BY <1>1, <1>3 DEF GatesInv, GatesTypes
<1>5. ASSUME NEW u \in Threads PROVE (Ascending(u) /\ Needed(u) /\ Grouped(u))'
  <2>1. CASE u = t
    BY <1>1, <1>2, <1>3, <2>1 DEF Ascending, Needed, Grouped, HasGroup, Gone, AliasesOf
  <2>2. CASE u # t
    BY <1>1, <1>3, <2>2 DEF GatesInv, Ascending, Needed, Grouped, HasGroup, Gone, AliasesOf
  <2> QED
    BY <2>1, <2>2
<1> QED
  BY <1>4, <1>5 DEF GatesInv

\* A goroutine releases its gates and turns to the next device, or to the save.
LEMMA Gives ==
    ASSUME GatesInv, NEW t \in Threads, Release(t), NEW todo, NEW dirty,
           th' = [th EXCEPT ![t] = Begin(t, todo, dirty)]
    PROVE  GatesInv'
<1>1. /\ th' = [u \in Threads |-> th'[u]] /\ \A u \in Threads \ {t} : th'[u] = th[u]
      /\ th'[t] = Begin(t, todo, dirty)
  BY DEF GatesInv, GatesTypes
<1>2. /\ owner' \in [Slugs -> Threads \cup {None}]
      /\ \A s \in Slugs : owner'[s] # t /\ (owner'[s] \in Threads => owner'[s] = owner[s])
  BY NobodyIsNone DEF Release, GatesInv, GatesTypes
<1> QED
  BY <1>1, <1>2, Moves, BeginFacts

LEMMA Locks == ASSUME GatesInv, NEW t \in Threads, LockGate(t) PROVE GatesInv'
<1> DEFINE sn == Head(th[t].todo)
<1>1. /\ th = [u \in Threads |-> th[u]] /\ IsThread(th[t]) /\ th[t].pc = "gates"
      /\ owner \in [Slugs -> Threads \cup {None}]
      /\ th[t].want \subseteq Slugs /\ \A s \in Slugs : owner[s] = t => \A k \in th[t].want : s < k
  BY DEF GatesInv, GatesTypes, LockGate, Ascending
<1>2. PICK s \in NextGate(t) :
        /\ owner[s] = None
        /\ \/ /\ th[t].want # {s}
              /\ owner' = [owner EXCEPT ![s] = t]
              /\ th' = [th EXCEPT ![t].want = @ \ {s}]
           \/ th[t].want = {s} /\ Release(t) /\ Skip(t)
           \/ /\ th[t].want = {s}
              /\ owner' = [owner EXCEPT ![s] = t]
              /\ th' = [th EXCEPT ![t].want = {}, ![t].pc = After(sn, "gates")]
  BY DEF LockGate
<1>3. ASSUME NEW k \in th[t].want \ {s} PROVE s \in Nat /\ s < k
  <2>1. th[t].want \in SUBSET Nat /\ th[t].want # {} /\ s = Min(th[t].want)
    BY <1>1, <1>3, SlugsAreNumbers DEF NextGate
  <2>2. s \in th[t].want /\ s <= k
    BY <2>1, <1>3, LeastOf
  <2> QED
    BY <2>1, <2>2, <1>3
<1>4. ASSUME NEW u \in Threads \ {t}, owner' = [owner EXCEPT ![s] = t], th'[u] = th[u]
      PROVE  (Ascending(u) /\ Needed(u) /\ Grouped(u))'
  <2>1. \A k \in Slugs : owner'[k] = u => owner[k] = u
    BY <1>1, <1>4
  <2> QED
    BY <1>4, <2>1 DEF GatesInv, Ascending, Needed, Grouped, HasGroup, Gone, AliasesOf
<1>5. CASE th[t].want # {s} /\ owner' = [owner EXCEPT ![s] = t]
           /\ th' = [th EXCEPT ![t].want = @ \ {s}]
  <2>1. /\ th' = [u \in Threads |-> th'[u]] /\ \A u \in Threads \ {t} : th'[u] = th[u]
        /\ IsThread(th'[t]) /\ th'[t].pc = "gates" /\ th'[t].want = th[t].want \ {s}
    BY <1>1, <1>5 DEF IsThread
  <2>2. GatesTypes'
    BY <1>1, <1>5, <2>1 DEF GatesInv, GatesTypes
  <2>3. Ascending(t)'
    <3> SUFFICES ASSUME NEW k \in Slugs, owner'[k] = t, NEW w \in th[t].want \ {s} PROVE k < w
      BY <1>1, <2>1 DEF Ascending
    <3>1. CASE k = s
      BY <3>1, <1>3
    <3>2. CASE k # s
      BY <3>2, <1>1, <1>5
    <3> QED
      BY <3>1, <3>2
  <2>4. Needed(t)' /\ Grouped(t)'
    BY <2>1 DEF Needed, Grouped, HasGroup, Holding
  <2> QED
    BY <1>4, <1>5, <2>1, <2>2, <2>3, <2>4 DEF GatesInv
<1>6. CASE Release(t) /\ Skip(t)
  BY <1>6, Gives DEF Skip
<1>7. CASE owner' = [owner EXCEPT ![s] = t]
           /\ th' = [th EXCEPT ![t].want = {}, ![t].pc = After(sn, "gates")]
  <2>1. After(sn, "gates") \in Holding \ {"gates"} /\ HasGroup(sn, After(sn, "gates"))
    BY AfterFacts DEF HasGroup
  <2>2. /\ th' = [u \in Threads |-> th'[u]] /\ \A u \in Threads \ {t} : th'[u] = th[u]
        /\ IsThread(th'[t]) /\ th'[t].pc = After(sn, "gates") /\ th'[t].todo = th[t].todo
    <3> HIDE DEF sn
    <3> QED
      BY <1>1, <1>7 DEF IsThread
  <2>3. GatesTypes'
    BY <1>1, <1>7, <2>2 DEF GatesInv, GatesTypes
  <2>4. (Ascending(t) /\ Needed(t) /\ Grouped(t))'
    BY <2>1, <2>2 DEF Ascending, Needed, Grouped, HasGroup, Gone, AliasesOf
  <2> QED
    BY <1>4, <1>7, <2>2, <2>3, <2>4 DEF GatesInv
<1> QED
  BY <1>2, <1>5, <1>6, <1>7

\* A goroutine without gates goes on to something else.
LEMMA Turns ==
    ASSUME GatesInv, NEW t \in Threads, th[t].pc \notin Holding, UNCHANGED owner,
           \E x : /\ th' = [th EXCEPT ![t] = x]
                  /\ IsThread(x) /\ x.pc \notin {"tombstones", "aliases"}
                  /\ x.pc = "gates" => x.want \subseteq Slugs
    PROVE  GatesInv'
<1>1. PICK x : /\ th' = [th EXCEPT ![t] = x]
               /\ IsThread(x) /\ x.pc \notin {"tombstones", "aliases"}
               /\ x.pc = "gates" => x.want \subseteq Slugs
  OBVIOUS
<1>2. /\ th' = [u \in Threads |-> th'[u]] /\ \A u \in Threads \ {t} : th'[u] = th[u]
      /\ th'[t] = x
  BY <1>1 DEF GatesInv, GatesTypes
<1>3. /\ owner' \in [Slugs -> Threads \cup {None}]
      /\ \A s \in Slugs : owner'[s] # t /\ (owner'[s] \in Threads => owner'[s] = owner[s])
  BY DEF GatesInv, GatesTypes, Needed
<1> QED
  BY <1>1, <1>2, <1>3, Moves

LEMMA Publishes == ASSUME GatesInv, NEW t \in Threads, Publishing(t) PROVE GatesInv'
<1>1. CASE LockGate(t)
  BY <1>1, Locks
<1>2. CASE SendTombstones(t)
  BY <1>2, Sends DEF SendTombstones
<1>3. CASE SendAliases(t)
  BY <1>3, Sends DEF SendAliases
<1>4. CASE SendDiscovery(t)
  BY <1>4, Sends DEF SendDiscovery
<1>5. CASE SendState(t)
  <2>1. CASE Skip(t)
    BY <1>5, <2>1, Gives DEF SendState, Skip
  <2>2. CASE th' = [th EXCEPT ![t].pc = "acknowledge"]
    <3>1. /\ th' = [u \in Threads |-> th'[u]] /\ \A u \in Threads \ {t} : th'[u] = th[u]
          /\ IsThread(th'[t]) /\ th'[t].pc = "acknowledge"
      BY <2>2 DEF GatesInv, GatesTypes, IsThread
    <3>2. /\ owner' \in [Slugs -> Threads \cup {None}]
          /\ \A s \in Slugs : owner'[s] # t /\ (owner'[s] \in Threads => owner'[s] = owner[s])
      BY <1>5, NobodyIsNone DEF SendState, Release, GatesInv, GatesTypes
    <3> QED
      BY <3>1, <3>2, Moves
  <2> QED
    BY <1>5, <2>1, <2>2 DEF SendState
<1>6. CASE SendFails(t)
  BY <1>6, Gives DEF SendFails, Skip
<1>7. CASE Acknowledge(t)
  <2>1. PICK dirty, todo :
          th' = [th EXCEPT ![t] = IF t \in Messages /\ dirty
                                  THEN [pc |-> "save", todo |-> todo, want |-> {}, dirty |-> TRUE]
                                  ELSE Begin(t, todo, dirty)]
    BY <1>7 DEF Acknowledge, GatesInv, GatesTypes
  <2> DEFINE saves == [pc |-> "save", todo |-> todo, want |-> {}, dirty |-> TRUE]
  <2>2. th' = [th EXCEPT ![t] = saves] \/ th' = [th EXCEPT ![t] = Begin(t, todo, dirty)]
    BY <2>1
  <2>3. IsThread(saves) /\ saves.pc = "save"
    BY DEF IsThread
  <2>4. th[t].pc \notin Holding /\ UNCHANGED owner
    BY <1>7 DEF Acknowledge, gates, Holding
  <2> HIDE DEF saves
  <2> QED
    BY <2>2, <2>3, <2>4, BeginFacts, Turns
<1>8. CASE Save(t)
  <2>1. th' = [th EXCEPT ![t] = Begin(t, th[t].todo, FALSE)]
    BY <1>8 DEF Save, GatesInv, GatesTypes
  <2>2. th[t].pc \notin Holding /\ UNCHANGED owner
    BY <1>8 DEF Save, gates, Holding
  <2> QED
    BY <2>1, <2>2, BeginFacts, Turns
<1> QED
  BY <1>1, <1>2, <1>3, <1>4, <1>5, <1>6, <1>7, <1>8 DEF Publishing

\* What a goroutine becomes that has first to write the cache.
Saving(todo) == [pc |-> "save", todo |-> todo, want |-> {}, dirty |-> TRUE]
Takes(t) == \E todo : \/ th' = [th EXCEPT ![t] = Saving(todo)]
                     \/ th' = [th EXCEPT ![t] = Begin(t, todo, FALSE)]

LEMMA Receives == ASSUME GatesInv, NEW t \in Threads, Receive(t) PROVE GatesInv'
<1>1. th[t].pc = "idle" /\ UNCHANGED owner
  BY DEF Receive, Event, Discovery, MayBegin, gates
<1>2. Takes(t)
  <2>1. ASSUME NEW c \in Cmds, NEW valued \in Valued, Event(t, c, valued) PROVE Takes(t)
    <3> DEFINE changes == valued \/ OwnershipChanges(Store, resolver, c, NameOf[EqOf[c]])
               s == EventIdentity(Store, resolver, c, NameOf[EqOf[c]]).slug
               T == Apply(Store, resolver, c, NameOf[EqOf[c]])
               batch == Append(SnapshotsBySlug(T, T.touched \ {s}), Snapshot(T, s))
    <3>1. th' = [th EXCEPT ![t] = IF changes THEN Saving(batch) ELSE Begin(t, batch, FALSE)]
      BY <2>1 DEF Event, Saving
    <3> HIDE DEF batch, changes
    <3> QED
      BY <3>1 DEF Takes
  <2>2. ASSUME NEW e \in Eqs, NEW cs, NEW as, Discovery(t, e, cs, as) PROVE Takes(t)
    <3>1. \E todo : th' = [th EXCEPT ![t] = [pc |-> "save", want |-> {}, dirty |-> TRUE, todo |-> todo]]
      BY <2>2 DEF Discovery
    <3>2. PICK todo : th' = [th EXCEPT ![t] = [pc |-> "save", want |-> {}, dirty |-> TRUE, todo |-> todo]]
      BY <3>1
    <3>3. Saving(todo) = [pc |-> "save", want |-> {}, dirty |-> TRUE, todo |-> todo]
      BY DEF Saving
    <3> QED
      BY <3>2, <3>3 DEF Takes
  <2> QED
    BY <2>1, <2>2 DEF Receive
<1>3. PICK todo : \/ th' = [th EXCEPT ![t] = Saving(todo)]
                  \/ th' = [th EXCEPT ![t] = Begin(t, todo, FALSE)]
  BY <1>2 DEF Takes
<1>4. IsThread(Saving(todo)) /\ Saving(todo).pc = "save" /\ th[t].pc \notin Holding
  BY <1>1 DEF IsThread, Holding, Saving
<1> QED
  BY <1>1, <1>3, <1>4, BeginFacts, Turns

LEMMA StartedFacts ==
    ASSUME NEW T
    PROVE  /\ Started(T) = [t \in Threads |-> Started(T)[t]]
           /\ \A t \in Threads : /\ IsThread(Started(T)[t])
                                 /\ Started(T)[t].pc \notin {"tombstones", "aliases"}
                                 /\ Started(T)[t].pc = "gates" => Started(T)[t].want \subseteq Slugs
<1>1. Started(T) = [t \in Threads |-> Started(T)[t]]
  BY DEF Started
<1>2. IsThread(Idle) /\ Idle.pc = "idle"
  BY DEF Idle, IsThread
<1>3. ASSUME NEW t \in Threads
      PROVE  /\ IsThread(Started(T)[t])
             /\ Started(T)[t].pc \notin {"tombstones", "aliases"}
             /\ Started(T)[t].pc = "gates" => Started(T)[t].want \subseteq Slugs
  <2>1. CASE t = "replay"
    <3>1. Started(T)[t] = Begin(t, SnapshotsBySlug(T, Live(T)), FALSE)
      BY <2>1 DEF Started
    <3> QED
      BY <3>1, BeginFacts
  <2>2. CASE t # "replay"
    <3>1. Started(T)[t] = Idle
      BY <2>2 DEF Started
    <3> QED
      BY <1>2, <3>1
  <2> QED
    BY <2>1, <2>2
<1> QED
  BY <1>1, <1>3

LEMMA GatesStep == ASSUME GatesInv, [Next]_vars PROVE GatesInv'
<1>1. /\ {"queue", "replay", "admin"} \subseteq Threads /\ Messages \subseteq Threads
      /\ \A t \in Threads : th[t].pc \notin Holding => \A s \in Slugs : owner[s] # t
  BY DEF Threads, GatesInv, Needed
<1>2. ASSUME NEW t \in Threads, Publishing(t) PROVE GatesInv'
  BY <1>2, Publishes
<1>3. ASSUME NEW t \in Messages, Receive(t) PROVE GatesInv'
  BY <1>1, <1>3, Receives
<1>4. ASSUME NEW r \in Catalogs, SaveCatalog(r) PROVE GatesInv'
  <2>1. /\ th["admin"].pc \notin Holding /\ UNCHANGED owner
        /\ th' = [th EXCEPT !["admin"] = [th["admin"] EXCEPT !.pc = "reconcile"]]
    BY <1>4 DEF SaveCatalog, MayBegin, gates, Holding
  <2> DEFINE x == [th["admin"] EXCEPT !.pc = "reconcile"]
  <2>2. th' = [th EXCEPT !["admin"] = x] /\ IsThread(x) /\ x.pc = "reconcile"
    BY <1>1, <2>1 DEF GatesInv, GatesTypes, IsThread
  <2> HIDE DEF x
  <2> QED
    BY <1>1, <2>1, <2>2, Turns
<1>5. CASE Reconcile
  <2>1. th["admin"].pc \notin Holding /\ UNCHANGED owner
    BY <1>5 DEF Reconcile, gates, Holding
  <2>2. PICK todo : th' = [th EXCEPT !["admin"] = [pc |-> "persist", todo |-> todo, want |-> {}, dirty |-> FALSE]]
    BY <1>5 DEF Reconcile
  <2> DEFINE x == [pc |-> "persist", todo |-> todo, want |-> {}, dirty |-> FALSE]
  <2>3. IsThread(x) /\ x.pc = "persist"
    BY DEF IsThread
  <2>4. th' = [th EXCEPT !["admin"] = x]
    BY <2>2
  <2> HIDE DEF x
  <2> QED
    BY <1>1, <2>1, <2>3, <2>4, Turns
<1>6. CASE Enqueue
  <2>1. th["admin"].pc \notin Holding /\ UNCHANGED owner /\ th' = [th EXCEPT !["admin"] = Idle]
    BY <1>6 DEF Enqueue, gates, Holding
  <2>2. IsThread(Idle) /\ Idle.pc = "idle"
    BY DEF Idle, IsThread
  <2> QED
    BY <1>1, <2>1, <2>2, Turns
<1>7. CASE TakeBatch
  <2>1. th["queue"].pc \notin Holding /\ UNCHANGED owner
    BY <1>7 DEF TakeBatch, MayBegin, gates, Holding
  <2>2. th' = [th EXCEPT !["queue"] = Begin("queue", Head(queue), FALSE)]
    BY <1>7 DEF TakeBatch
  <2> QED
    BY <1>1, <2>1, <2>2, BeginFacts, Turns
<1>8. CASE Replay
  <2>1. th["replay"].pc \notin Holding /\ UNCHANGED owner
    BY <1>8 DEF Replay, MayBegin, gates, Holding
  <2>2. th' = [th EXCEPT !["replay"] = Begin("replay", Devices, FALSE)]
    BY <1>8 DEF Replay
  <2> QED
    BY <1>1, <2>1, <2>2, BeginFacts, Turns
<1>9. CASE Crash
  <2>1. PICK T : th' = Started(T)
    BY <1>9 DEF Crash
  <2>2. owner' = [s \in Slugs |-> None]
    BY <1>9 DEF Crash
  <2>3. owner' \in [Slugs -> Threads \cup {None}] /\ \A s \in Slugs, t \in Threads : owner'[s] # t
    BY <2>2, NobodyIsNone
  <2>4. /\ th' = [t \in Threads |-> th'[t]]
        /\ \A t \in Threads : /\ IsThread(th'[t]) /\ th'[t].pc \notin {"tombstones", "aliases"}
                              /\ th'[t].pc = "gates" => th'[t].want \subseteq Slugs
    BY <2>1, StartedFacts
  <2>5. GatesTypes'
    BY <2>3, <2>4 DEF GatesTypes
  <2>6. ASSUME NEW t \in Threads PROVE (Ascending(t) /\ Needed(t) /\ Grouped(t))'
    <3>1. /\ \A s \in Slugs : owner'[s] # t
          /\ th'[t].pc # "tombstones" /\ th'[t].pc # "aliases"
          /\ th'[t].pc = "gates" => th'[t].want \subseteq Slugs
      BY <2>3, <2>4
    <3> QED
      BY <3>1 DEF Ascending, Needed, Grouped, HasGroup
  <2> QED
    BY <2>5, <2>6 DEF GatesInv
<1>10. CASE UNCHANGED vars
  <2>1. UNCHANGED <<th, owner>>
    BY <1>10 DEF vars, gates
  <2> QED
    BY <2>1 DEF GatesInv, GatesTypes, IsThread, Ascending, Needed, Grouped, HasGroup, Gone, AliasesOf
<1> QED
  BY <1>2, <1>3, <1>4, <1>5, <1>6, <1>7, <1>8, <1>9, <1>10 DEF Next

LEMMA Free ==
    ASSUME NEW S \in SUBSET Threads, S # {}, GatesInv PROVE \E t \in S : \A u \in S : ~Waits(t, u)
<1> SUFFICES ASSUME \A t \in S : \E u \in S : Waits(t, u) PROVE FALSE
  OBVIOUS
<1> DEFINE Wanted == {s \in Slugs : \E t \in S : th[t].pc = "gates" /\ s \in th[t].want /\ owner[s] \in S}
           Above(s) == {k \in Slugs : s < k}
           Counts == {Cardinality(Above(s)) : s \in Wanted}
<1>1. \A t \in S : \E s \in Wanted : th[t].pc = "gates" /\ s \in th[t].want
  BY DEF Waits, GatesInv, Ascending
<1>2. \A s \in Slugs : Above(s) \in SUBSET Slugs /\ IsFiniteSet(Above(s)) /\ Cardinality(Above(s)) \in Nat
  BY SlugsAreNumbers, FS_Subset, FS_CardinalityType
<1>3. Counts \in SUBSET Nat /\ Counts # {}
  <2> HIDE DEF Above
  <2> QED
    BY <1>1, <1>2
<1>4. PICK s \in Wanted : \A k \in Wanted : Cardinality(Above(s)) <= Cardinality(Above(k))
  <2>1. Min(Counts) \in Counts /\ \A n \in Counts : Min(Counts) <= n
    <3> HIDE DEF Counts
    <3> QED
      BY <1>3, LeastOf
  <2>2. PICK s \in Wanted : Min(Counts) = Cardinality(Above(s))
    BY <2>1
  <2> HIDE DEF Above, Wanted
  <2> QED
    BY <2>1, <2>2
<1>5. PICK t \in S : owner[s] = t
  BY <1>4
<1>6. PICK k \in Wanted : th[t].pc = "gates" /\ k \in th[t].want
  BY <1>1
<1>7. s \in Nat /\ k \in Nat /\ s < k
  BY <1>4, <1>5, <1>6, SlugsAreNumbers DEF GatesInv, Ascending
<1>8. Above(k) \subseteq Above(s) /\ k \in Above(s) /\ k \notin Above(k)
  <2>1. ASSUME NEW j \in Above(k) PROVE j \in Above(s)
    <3>1. j \in Nat /\ k < j
      BY SlugsAreNumbers
    <3> QED
      BY <1>7, <3>1
  <2>2. k \in Slugs
    BY <1>6
  <2>3. k \in Above(s)
    BY <1>7, <2>2
  <2>4. k \notin Above(k)
    BY <1>7
  <2> HIDE DEF Above
  <2> QED
    BY <2>1, <2>3, <2>4
<1>9. Cardinality(Above(k)) < Cardinality(Above(s))
  <2>1. s \in Slugs /\ k \in Slugs
    BY <1>4, <1>6
  <2>2. /\ Cardinality(Above(k)) <= Cardinality(Above(s))
        /\ Cardinality(Above(s)) = Cardinality(Above(k)) => Above(s) = Above(k)
    <3> HIDE DEF Above
    <3> QED
      BY <1>2, <1>8, <2>1, FS_Subset
  <2> HIDE DEF Above
  <2> QED
    BY <1>2, <1>8, <2>1, <2>2
<1>10. Cardinality(Above(s)) \in Nat /\ Cardinality(Above(k)) \in Nat
  BY <1>2, <1>4, <1>6
<1> HIDE DEF Above, Wanted
<1> QED
  BY <1>4, <1>6, <1>9, <1>10

LEMMA GatesInit == ASSUME Init PROVE GatesInv
<1>1. PICK T : th = Started(T)
  BY DEF Init
<1>2. owner = [s \in Slugs |-> None]
  BY DEF Init
<1>3. owner \in [Slugs -> Threads \cup {None}] /\ \A s \in Slugs, t \in Threads : owner[s] # t
  BY <1>2, NobodyIsNone
<1>4. /\ th = [t \in Threads |-> th[t]]
      /\ \A t \in Threads : /\ IsThread(th[t]) /\ th[t].pc \notin {"tombstones", "aliases"}
                            /\ th[t].pc = "gates" => th[t].want \subseteq Slugs
  BY <1>1, StartedFacts
<1>5. GatesTypes
  BY <1>3, <1>4 DEF GatesTypes
<1>6. ASSUME NEW t \in Threads PROVE (Ascending(t) /\ Needed(t) /\ Grouped(t))
  <2>1. /\ \A s \in Slugs : owner[s] # t
        /\ th[t].pc # "tombstones" /\ th[t].pc # "aliases"
        /\ th[t].pc = "gates" => th[t].want \subseteq Slugs
    BY <1>3, <1>4
  <2> QED
    BY <2>1 DEF Ascending, Needed, Grouped, HasGroup
<1> QED
  BY <1>5, <1>6 DEF GatesInv

\* Goroutines that publish devices with common slugs never all wait for each
\* other, whatever the aliases of the devices are (beginDevicePublish).
THEOREM GatesNeverDeadlock == Spec => []NoGateDeadlock
<1>1. Init => GatesInv
  BY GatesInit
<1>2. GatesInv /\ [Next]_vars => GatesInv'
  BY GatesStep
<1>3. GatesInv => NoGateDeadlock
  BY Free DEF NoGateDeadlock
<1> QED
  BY <1>1, <1>2, <1>3, PTL DEF Spec
-----------------------------------------------------------------------------
(* The store                                                               *)

Stores == [dev : [Slugs -> Device \cup {NoDevice}], index : [Cmds -> Slugs \cup {0}],
           eqs : [Eqs -> Slugs \cup {0}], next : Nat, log : Seq(Slugs), touched : SUBSET Slugs]

\* What a device of a store waits to remove.
Pend(T, s) == IF T.dev[s] = NoDevice THEN {} ELSE T.dev[s].pend

\* U is a store with the ownership of T: it may have more devices, without commands.
Alike(T, U) ==
    /\ U \in Stores /\ U.index = T.index /\ Live(T) \subseteq Live(U)
    /\ \A s \in Slugs : Pend(U, s) = Pend(T, s) /\ \A c \in Cmds : Has(U, s, c) <=> Has(T, s, c)

\* The revisions are still to be counted: U has those of T, its new devices have
\* none, and what T waits to number U does.
Counted(T, U) ==
    /\ U.next = T.next /\ Live(T) \subseteq Live(U) /\ ToSet(T.log) \subseteq ToSet(U.log)
    /\ \A s \in Live(U) : U.dev[s].rev = IF s \in Live(T) THEN T.dev[s].rev ELSE 0

Same(T, U) == Alike(T, U) /\ Counted(T, U)

\* No two devices have a revision in common, and none has one still to come.
Ranked(T) == \A s \in Live(T) : /\ T.dev[s].rev \in 0..T.next
                                /\ \A k \in Live(T) : T.dev[s].rev # 0 /\ T.dev[k].rev = T.dev[s].rev => k = s
\* Every device has one, or gets it when the call ends; every device has one.
Settled(T) == \A s \in Live(T) : T.dev[s].rev # 0 \/ s \in ToSet(T.log)
Distinct(T) == Ranked(T) /\ \A s \in Live(T) : T.dev[s].rev # 0

LEMMA CountedFacts ==
    /\ \A T : Counted(T, T)
    /\ \A T, U, V : Counted(T, U) /\ Counted(U, V) => Counted(T, V)
BY DEF Counted

LEMMA CountedRanked ==
    ASSUME NEW T \in Stores, NEW U, Counted(T, U)
    PROVE  /\ Ranked(T) => Ranked(U)
           /\ Live(U) = Live(T) /\ Settled(T) => Settled(U)
<1>1. T.next \in Nat
  BY DEF Stores
<1>2. Ranked(T) => Ranked(U)
  <2> SUFFICES ASSUME Ranked(T), NEW s \in Live(U)
               PROVE  /\ U.dev[s].rev \in 0..U.next
                      /\ \A k \in Live(U) : U.dev[s].rev # 0 /\ U.dev[k].rev = U.dev[s].rev => k = s
    BY DEF Ranked
  <2>1. U.next = T.next /\ \A k \in Live(U) : U.dev[k].rev = IF k \in Live(T) THEN T.dev[k].rev ELSE 0
    BY DEF Counted
  <2>2. CASE s \in Live(T)
    BY <2>1, <2>2 DEF Ranked
  <2>3. CASE s \notin Live(T)
    BY <1>1, <2>1, <2>3
  <2> QED
    BY <2>2, <2>3
<1>3. Live(U) = Live(T) /\ Settled(T) => Settled(U)
  BY DEF Counted, Settled
<1> QED
  BY <1>2, <1>3

LEMMA SameTrans ==
    ASSUME NEW T, NEW U, NEW V, Same(T, U), Same(U, V)
    PROVE  Same(T, V)
BY CountedFacts DEF Same, Alike

LEMMA SameSelf ==
    ASSUME NEW T \in Stores
    PROVE  Same(T, T)
BY CountedFacts DEF Same, Alike

LEMMA LiveDevice ==
    ASSUME NEW T \in Stores, NEW s \in Live(T)
    PROVE  s \in Slugs /\ T.dev[s] \in Device /\ T.dev[s] # NoDevice
BY DEF Stores, Live

LEMMA DeviceIsLive == \A d \in Device : d # NoDevice
BY CachesHoldDevices

\* Changes to a device that are not about info commands leave their ownership alone.
LEMMA AlikeDevices ==
    ASSUME NEW T \in Stores, NEW U \in Stores, U.index = T.index,
           \A s \in Slugs : T.dev[s] = NoDevice => U.dev[s] = NoDevice,
           \A s \in Live(T) : /\ U.dev[s] # NoDevice /\ U.dev[s].cmds = T.dev[s].cmds
                              /\ U.dev[s].pend = T.dev[s].pend
    PROVE  Alike(T, U) /\ Live(U) = Live(T)
BY DEF Alike, Live, Has, Pend

LEMMA SameDevices ==
    ASSUME NEW T \in Stores, NEW U \in Stores, U.index = T.index,
           U.next = T.next, ToSet(T.log) \subseteq ToSet(U.log),
           \A s \in Slugs : T.dev[s] = NoDevice => U.dev[s] = NoDevice,
           \A s \in Live(T) : /\ U.dev[s] # NoDevice /\ U.dev[s].cmds = T.dev[s].cmds
                              /\ U.dev[s].pend = T.dev[s].pend /\ U.dev[s].rev = T.dev[s].rev
    PROVE  Same(T, U) /\ Live(U) = Live(T)
BY AlikeDevices DEF Same, Counted

\* A store with another device under a slug.
With(T, s, d) == [dev |-> [T.dev EXCEPT ![s] = d], index |-> T.index, eqs |-> T.eqs,
                  next |-> T.next, log |-> T.log, touched |-> T.touched]

LEMMA WithFacts ==
    ASSUME NEW T \in Stores, NEW s \in Slugs, NEW d \in Device
    PROVE  /\ [T EXCEPT !.dev = [T.dev EXCEPT ![s] = d]] = With(T, s, d)
           /\ With(T, s, d) \in Stores /\ With(T, s, d).dev[s] = d
           /\ \A k \in Slugs \ {s} : With(T, s, d).dev[k] = T.dev[k]
           /\ With(T, s, d).index = T.index /\ With(T, s, d).next = T.next /\ With(T, s, d).log = T.log
<1> DEFINE f == [T.dev EXCEPT ![s] = d]
<1>1. f \in [Slugs -> Device \cup {NoDevice}] /\ f[s] = d /\ \A k \in Slugs \ {s} : f[k] = T.dev[k]
  BY DEF Stores
<1>2. With(T, s, d) = [dev |-> f, index |-> T.index, eqs |-> T.eqs, next |-> T.next,
                       log |-> T.log, touched |-> T.touched]
  BY DEF With
<1> HIDE DEF f
<1>3. [T EXCEPT !.dev = f] = With(T, s, d) /\ With(T, s, d) \in Stores
  BY <1>1, <1>2 DEF Stores
<1> QED
  BY <1>1, <1>2, <1>3 DEF f

LEMMA WithSame ==
    ASSUME NEW T \in Stores, NEW s \in Live(T), NEW d \in Device,
           d.cmds = T.dev[s].cmds, d.pend = T.dev[s].pend, d.rev = T.dev[s].rev
    PROVE  Same(T, With(T, s, d)) /\ Live(With(T, s, d)) = Live(T)
<1>1. d # NoDevice /\ s \in Slugs /\ T.dev[s] # NoDevice
  BY DeviceIsLive, LiveDevice
<1>2. \A k \in Slugs : k # s => With(T, s, d).dev[k] = T.dev[k]
  BY WithFacts, <1>1
<1>3. /\ With(T, s, d) \in Stores /\ With(T, s, d).dev[s] = d /\ With(T, s, d).index = T.index
      /\ With(T, s, d).next = T.next /\ With(T, s, d).log = T.log
  BY WithFacts, <1>1
<1> HIDE DEF With
<1> QED
  BY <1>1, <1>2, <1>3, SameDevices DEF Live

\* A store with what it does not tell of ownership changed too.
Noted(T, number, log, touched) == [dev |-> T.dev, index |-> T.index, eqs |-> T.eqs,
                                 next |-> number, log |-> log, touched |-> touched]

LEMMA NotedSame ==
    ASSUME NEW T \in Stores, NEW number \in Nat, NEW log \in Seq(Slugs), NEW touched \in SUBSET Slugs
    PROVE  LET U == Noted(T, number, log, touched) IN
           /\ U \in Stores /\ Alike(T, U) /\ Live(U) = Live(T)
           /\ number = T.next /\ ToSet(T.log) \subseteq ToSet(log) => Same(T, U)
<1> DEFINE U == Noted(T, number, log, touched)
<1>1. U \in Stores /\ U.dev = T.dev /\ U.index = T.index /\ U.next = number /\ U.log = log
  BY DEF Stores, Noted
<1> HIDE DEF U
<1>2. Alike(T, U) /\ Live(U) = Live(T)
  BY <1>1, AlikeDevices DEF Live
<1>3. number = T.next /\ ToSet(T.log) \subseteq ToSet(log) => Same(T, U)
  BY <1>1, <1>2 DEF Same, Counted
<1> QED
  BY <1>1, <1>2, <1>3 DEF U

LEMMA TouchSame ==
    ASSUME NEW T \in Stores, NEW S \in SUBSET Slugs
    PROVE  Same(T, Touch(T, S)) /\ Live(Touch(T, S)) = Live(T) /\ Touch(T, S) \in Stores
<1>1. Touch(T, S) = Noted(T, T.next, T.log, T.touched \cup S)
  <2> DEFINE M == T.touched \cup S
  <2>1. Touch(T, S) = [T EXCEPT !.touched = M]
    BY DEF Touch
  <2> HIDE DEF M
  <2>2. Touch(T, S) = Noted(T, T.next, T.log, M)
    BY <2>1 DEF Noted, Stores
  <2> QED
    BY <2>2 DEF M
<1>2. T.next \in Nat /\ T.log \in Seq(Slugs) /\ T.touched \cup S \in SUBSET Slugs
  BY DEF Stores
<1> QED
  BY <1>1, <1>2, NotedSame

LEMMA AliasesTypes ==
    ASSUME NEW T \in Stores, NEW s \in Live(T)
    PROVE  Aliases(T, s) \in SUBSET Slugs
<1> DEFINE step(S) == S \cup UNION {T.dev[l].legacy : l \in {l \in S : T.dev[l] # NoDevice}}
           X == SUBSET Slugs
           x == T.dev[s].legacy
           F == [p \in X \X Slugs |-> step(p[1])]
           iter == CHOOSE g : g = [V \in SUBSET Slugs |-> IF V = {} THEN x ELSE step(g[V \ {Max(V)}])]
<1>1. Aliases(T, s) = iter[Slugs] \ {s}
  BY DEF Aliases, InOrder, MapThenFoldSet
<1>2. x \in X
  BY LiveDevice DEF Device
<1>3. \A S \in X : step(S) \in X
  BY DEF Stores, Device
<1>4. F \in [X \X Slugs -> X]
  BY <1>3
<1>5. PICK g \in [SUBSET Slugs -> X] : Stages(g, Slugs, x, F)
  <2> HIDE DEF F, X, x
  <2> QED
    BY <1>2, <1>4, SlugsAreNumbers, LoopExists
<1>6. \A V \in SUBSET Slugs : V # {} => Max(V) \in V
  BY SlugsAreNumbers, GreatestOf, FS_Subset
<1>7. g = [V \in SUBSET Slugs |-> IF V = {} THEN x ELSE step(g[V \ {Max(V)}])]
  BY <1>5, <1>6 DEF Stages
<1>8. iter = [V \in SUBSET Slugs |-> IF V = {} THEN x ELSE step(iter[V \ {Max(V)}])]
  <2> HIDE DEF step, x
  <2> QED
    BY <1>7
<1>9. iter[Slugs] \in X
  <2> HIDE DEF iter, X, step, x
  <2>1. iter[{}] \in X
    BY <1>2, <1>8
  <2>2. ASSUME NEW V \in SUBSET Slugs, V # {}, iter[V \ {Max(V)}] \in X
        PROVE  iter[V] \in X
    BY <1>3, <1>8, <2>2
  <2> QED
    BY <2>1, <2>2, SlugsAreNumbers, LoopStays
<1> QED
  BY <1>1, <1>9

LEMMA EndOf ==
    ASSUME NEW X, NEW q \in Seq(X), q # <<>>
    PROVE  /\ Last(q) \in X /\ Front(q) \in Seq(X)
           /\ ToSet(q) = ToSet(Front(q)) \cup {Last(q)}
<1>1. Len(q) \in Nat /\ Len(q) # 0 /\ DOMAIN q = 1..Len(q)
  OBVIOUS
<1>2. Front(q) \in Seq(X) /\ Len(Front(q)) = Len(q) - 1 /\ \A i \in 1..(Len(q) - 1) : Front(q)[i] = q[i]
  BY <1>1 DEF Front
<1>3. Last(q) = q[Len(q)]
  BY DEF Last
<1>4. DOMAIN Front(q) = 1..(Len(q) - 1)
  BY <1>2
<1>5. 1..Len(q) = (1..(Len(q) - 1)) \cup {Len(q)}
  BY <1>1
<1> QED
  BY <1>1, <1>2, <1>3, <1>4, <1>5 DEF ToSet

LEMMA EndAppended ==
    ASSUME NEW X, NEW q \in Seq(X), NEW x \in X
    PROVE  Append(q, x) \in Seq(X) /\ ToSet(Append(q, x)) = ToSet(q) \cup {x}
<1>1. Len(q) \in Nat /\ DOMAIN q = 1..Len(q) /\ DOMAIN Append(q, x) = 1..(Len(q) + 1)
  OBVIOUS
<1>2. 1..(Len(q) + 1) = (1..Len(q)) \cup {Len(q) + 1}
  BY <1>1
<1>3. Append(q, x)[Len(q) + 1] = x /\ \A i \in 1..Len(q) : Append(q, x)[i] = q[i]
  OBVIOUS
<1> QED
  BY <1>1, <1>2, <1>3 DEF ToSet

LEMMA BumpSame ==
    ASSUME NEW T \in Stores, NEW s \in Live(T)
    PROVE  /\ Same(T, Bump(T, s)) /\ Live(Bump(T, s)) = Live(T) /\ Bump(T, s) \in Stores
           /\ s \in ToSet(Bump(T, s).log)
<1> DEFINE d == [T.dev[s] EXCEPT !.legacy = Aliases(T, s)]
           U == With(T, s, d)
           L == Append(T.log, s)
<1>1. s \in Slugs /\ T.dev[s] \in Device /\ L \in Seq(Slugs) /\ T.next \in Nat /\ T.touched \in SUBSET Slugs
  <2>1. s \in Slugs /\ T.dev[s] \in Device
    BY LiveDevice
  <2>2. T.log \in Seq(Slugs) /\ T.next \in Nat /\ T.touched \in SUBSET Slugs
    BY DEF Stores
  <2> QED
    BY <2>1, <2>2
<1>2. d \in Device /\ d.cmds = T.dev[s].cmds /\ d.pend = T.dev[s].pend /\ d.rev = T.dev[s].rev
  BY <1>1, AliasesTypes DEF Device
<1>3. Bump(T, s) = Noted(U, T.next, L, T.touched)
  <2>1. Bump(T, s) = [T EXCEPT !.dev = [T.dev EXCEPT ![s] = d], !.log = L]
    BY DEF Bump
  <2> HIDE DEF d, L
  <2> QED
    BY <2>1 DEF Stores, With, Noted
<1>4. Same(T, U) /\ Live(U) = Live(T) /\ U \in Stores /\ U.next = T.next /\ U.log = T.log
  <2> HIDE DEF d
  <2> QED
    BY <1>1, <1>2, WithSame, WithFacts
<1>5. ToSet(L) = ToSet(T.log) \cup {s}
  <2>1. T.log \in Seq(Slugs)
    BY DEF Stores
  <2> QED
    BY <1>1, <2>1, EndAppended
<1> HIDE DEF U, L
<1>6. /\ Same(U, Noted(U, T.next, L, T.touched)) /\ Noted(U, T.next, L, T.touched) \in Stores
      /\ Live(Noted(U, T.next, L, T.touched)) = Live(U)
  BY <1>1, <1>4, <1>5, NotedSame
<1>7. Bump(T, s).log = L
  BY <1>3 DEF Noted
<1> QED
  BY <1>3, <1>4, <1>5, <1>6, <1>7, SameTrans

-----------------------------------------------------------------------------
(* Operations that leave the ownership of info commands alone              *)

\* The stores with the devices and the ownership of T.
Frame(T) == {U \in Stores : Same(T, U) /\ Live(U) = Live(T)}

LEMMA FrameTrans ==
    ASSUME NEW T, NEW U \in Frame(T), NEW V \in Frame(U)
    PROVE  V \in Frame(T)
BY SameTrans DEF Frame

LEMMA FrameFacts ==
    /\ \A T \in Stores : T \in Frame(T)
    /\ \A T \in Stores : \A s \in Live(T) : Bump(T, s) \in Frame(T)
    /\ \A T \in Stores : \A S \in SUBSET Slugs : Touch(T, S) \in Frame(T)
BY SameSelf, BumpSame, TouchSame DEF Frame

LEMMA BumpEachFrame ==
    ASSUME NEW T \in Stores, NEW S \in SUBSET Live(T)
    PROVE  BumpEach(T, S) \in Frame(T)
<1> DEFINE X == Frame(T)
           F == [p \in X \X S |-> Bump(p[1], p[2])]
           iter == CHOOSE g : g = [V \in SUBSET S |-> IF V = {} THEN T ELSE Bump(g[V \ {Max(V)}], Max(V))]
<1>1. BumpEach(T, S) = iter[S]
  BY DEF BumpEach, InOrder, MapThenFoldSet
<1>2. S \in SUBSET Nat /\ IsFiniteSet(S) /\ T \in X
  BY SlugsAreNumbers, FS_Subset, FrameFacts DEF Live
<1>3. \A U \in X, s \in S : Bump(U, s) \in X
  BY FrameFacts, FrameTrans DEF Frame
<1>4. iter = [V \in SUBSET S |-> IF V = {} THEN T ELSE Bump(iter[V \ {Max(V)}], Max(V))]
  <2>1. F \in [X \X S -> X]
    BY <1>3
  <2>2. PICK g \in [SUBSET S -> X] : Stages(g, S, T, F)
    <3> HIDE DEF F, X
    <3> QED
      BY <1>2, <2>1, LoopExists
  <2>3. g = [V \in SUBSET S |-> IF V = {} THEN T ELSE Bump(g[V \ {Max(V)}], Max(V))]
    BY <1>2, <2>2, LastInside DEF Stages
  <2> QED
    BY <2>3
<1> HIDE DEF iter, X
<1>5. iter[{}] \in X
  BY <1>2, <1>4
<1>6. ASSUME NEW V \in SUBSET S, V # {}, Max(V) \in S, iter[V \ {Max(V)}] \in X PROVE iter[V] \in X
  BY <1>3, <1>4, <1>6
<1>7. iter[S] \in X
  BY <1>2, <1>5, <1>6, LoopStays
<1> QED
  BY <1>1, <1>7 DEF X

\* A device with other actions.
LEMMA ActsFrame ==
    ASSUME NEW T \in Stores, NEW s \in Live(T), NEW A \in SUBSET Acts
    PROVE  [T EXCEPT !.dev[s].acts = A] \in Frame(T)
<1> DEFINE d == [T.dev[s] EXCEPT !.acts = A]
<1>1. s \in Slugs /\ T.dev[s] \in Device
  BY LiveDevice
<1>2. d \in Device /\ d.cmds = T.dev[s].cmds /\ d.pend = T.dev[s].pend /\ d.rev = T.dev[s].rev
  BY <1>1 DEF Device
<1>3. [T EXCEPT !.dev[s].acts = A] = [T EXCEPT !.dev = [T.dev EXCEPT ![s] = d]]
  OBVIOUS
<1> HIDE DEF d
<1>4. [T EXCEPT !.dev = [T.dev EXCEPT ![s] = d]] = With(T, s, d)
  BY <1>1, <1>2, WithFacts
<1>5. With(T, s, d) \in Stores /\ Same(T, With(T, s, d)) /\ Live(With(T, s, d)) = Live(T)
  BY <1>1, <1>2, WithFacts, WithSame
<1>6. With(T, s, d) \in Frame(T)
  BY <1>5 DEF Frame
<1> QED
  BY <1>3, <1>4, <1>6

LEMMA PendActsFrame ==
    ASSUME NEW T \in Stores, NEW s \in Live(T), NEW A \in SUBSET (Acts \X Slugs)
    PROVE  [T EXCEPT !.dev[s].pendActs = A] \in Frame(T)
<1> DEFINE d == [T.dev[s] EXCEPT !.pendActs = A]
<1>1. s \in Slugs /\ T.dev[s] \in Device
  BY LiveDevice
<1>2. d \in Device /\ d.cmds = T.dev[s].cmds /\ d.pend = T.dev[s].pend /\ d.rev = T.dev[s].rev
  BY <1>1 DEF Device
<1>3. [T EXCEPT !.dev[s].pendActs = A] = [T EXCEPT !.dev = [T.dev EXCEPT ![s] = d]]
  OBVIOUS
<1> HIDE DEF d
<1>4. [T EXCEPT !.dev = [T.dev EXCEPT ![s] = d]] = With(T, s, d)
  BY <1>1, <1>2, WithFacts
<1>5. With(T, s, d) \in Stores /\ Same(T, With(T, s, d)) /\ Live(With(T, s, d)) = Live(T)
  BY <1>1, <1>2, WithFacts, WithSame
<1>6. With(T, s, d) \in Frame(T)
  BY <1>5 DEF Frame
<1> QED
  BY <1>3, <1>4, <1>6

LEMMA JidFrame ==
    ASSUME NEW T \in Stores, NEW s \in Live(T), NEW e \in Eqs \cup {0}
    PROVE  [T EXCEPT !.dev[s].jid = e] \in Frame(T)
<1> DEFINE d == [T.dev[s] EXCEPT !.jid = e]
<1>1. s \in Slugs /\ T.dev[s] \in Device
  BY LiveDevice
<1>2. d \in Device /\ d.cmds = T.dev[s].cmds /\ d.pend = T.dev[s].pend /\ d.rev = T.dev[s].rev
  BY <1>1 DEF Device
<1>3. [T EXCEPT !.dev[s].jid = e] = [T EXCEPT !.dev = [T.dev EXCEPT ![s] = d]]
  OBVIOUS
<1> HIDE DEF d
<1>4. [T EXCEPT !.dev = [T.dev EXCEPT ![s] = d]] = With(T, s, d)
  BY <1>1, <1>2, WithFacts
<1>5. With(T, s, d) \in Stores /\ Same(T, With(T, s, d)) /\ Live(With(T, s, d)) = Live(T)
  BY <1>1, <1>2, WithFacts, WithSame
<1>6. With(T, s, d) \in Frame(T)
  BY <1>5 DEF Frame
<1> QED
  BY <1>3, <1>4, <1>6

\* What an identity of the catalog or of Jeedom is.
Identities == [slug : Slugs, legacy : SUBSET Slugs, linked : BOOLEAN, disabled : BOOLEAN]

LEMMA NewDeviceTypes ==
    NewDevice \in Device /\ NewDevice.rev = 0 /\ NewDevice.pend = {} /\ NewDevice.acts = {} /\ \A c \in Cmds : NewDevice.cmds[c] = "none"
BY DEF NewDevice, Device

\* An adopted device is there; a new one owns nothing and waits for nothing.
LEMMA AdoptSame ==
    ASSUME NEW T \in Stores, NEW id \in Identities
    PROVE  /\ Adopt(T, id) \in Stores /\ Same(T, Adopt(T, id))
           /\ Live(Adopt(T, id)) = Live(T) \cup {id.slug}
           /\ Adopt(T, id).dev[id.slug].acts = IF id.slug \in Live(T) THEN T.dev[id.slug].acts ELSE {}
<1> DEFINE s == id.slug
           b == IF T.dev[s] = NoDevice THEN NewDevice ELSE T.dev[s]
           d == [b EXCEPT !.legacy = (@ \cup id.legacy) \ {s}, !.linked = id.linked, !.disabled = id.disabled]
<1>1. s \in Slugs /\ id.legacy \in SUBSET Slugs /\ id.linked \in BOOLEAN /\ id.disabled \in BOOLEAN
  BY DEF Identities
<1>2. b \in Device
  BY <1>1, NewDeviceTypes DEF Stores
<1>3. d \in Device /\ d.cmds = b.cmds /\ d.pend = b.pend /\ d.acts = b.acts /\ d.rev = b.rev
  <2> HIDE DEF b
  <2> QED
    BY <1>1, <1>2 DEF Device
<1>4. Adopt(T, id) = [T EXCEPT !.dev = [T.dev EXCEPT ![s] = d]]
  BY DEF Adopt
<1>5. Adopt(T, id) = With(T, s, d) /\ d # NoDevice
  <2> HIDE DEF d
  <2> QED
    BY <1>1, <1>3, <1>4, WithFacts, DeviceIsLive
<1>6. /\ With(T, s, d) \in Stores /\ With(T, s, d).dev[s] = d /\ With(T, s, d).index = T.index
      /\ With(T, s, d).next = T.next /\ With(T, s, d).log = T.log
      /\ \A k \in Slugs : k # s => With(T, s, d).dev[k] = T.dev[k]
  <2> HIDE DEF d
  <2> QED
    BY <1>1, <1>3, WithFacts
<1>7. CASE T.dev[s] = NoDevice
  <2>1. d.rev = 0 /\ d.pend = {} /\ d.acts = {} /\ \A c \in Cmds : d.cmds[c] = "none"
    BY <1>3, <1>7, NewDeviceTypes
  <2> HIDE DEF d
  <2>2. Live(With(T, s, d)) = Live(T) \cup {s} /\ s \notin Live(T)
    BY <1>1, <1>5, <1>6, <1>7 DEF Live
  <2>3. Alike(T, With(T, s, d))
    BY <1>5, <1>6, <1>7, <2>1, <2>2 DEF Alike, Has, Pend
  <2>4. Counted(T, With(T, s, d))
    BY <1>6, <2>1, <2>2 DEF Counted, Live
  <2> QED
    BY <1>5, <1>7, <2>1, <2>2, <2>3, <2>4, <1>6 DEF Same
<1>8. CASE T.dev[s] # NoDevice
  <2>1. d.rev = T.dev[s].rev /\ d.pend = T.dev[s].pend /\ d.cmds = T.dev[s].cmds /\ d.acts = T.dev[s].acts
    BY <1>3, <1>8
  <2> HIDE DEF d
  <2> QED
    BY <1>1, <1>5, <1>6, <1>8, <2>1 DEF Same, Alike, Counted, Live, Has, Pend
<1> QED
  BY <1>7, <1>8

LEMMA LiveIsFinite ==
    ASSUME NEW S \in SUBSET Slugs
    PROVE  S \in SUBSET Nat /\ IsFiniteSet(S)
BY SlugsAreNumbers, FS_Subset

\* Bump and Touch one after the other.
LEMMA BumpTouchFrame ==
    ASSUME NEW T \in Stores, NEW U \in Frame(T), NEW s \in Live(T), NEW S \in SUBSET Slugs
    PROVE  Bump(U, s) \in Frame(T) /\ Touch(U, S) \in Frame(T) /\ Touch(Bump(U, s), S) \in Frame(T)
<1>1. U \in Stores /\ s \in Live(U)
  BY DEF Frame
<1>2. Bump(U, s) \in Frame(U) /\ Bump(U, s) \in Stores
  BY <1>1, FrameFacts DEF Frame
<1>3. Bump(U, s) \in Frame(T)
  BY <1>2, FrameTrans
<1>4. Touch(Bump(U, s), S) \in Frame(Bump(U, s)) /\ Touch(U, S) \in Frame(U)
  BY <1>1, <1>2, FrameFacts
<1> QED
  BY <1>3, <1>4, FrameTrans

LEMMA CopyActionsFrame ==
    ASSUME NEW T \in Stores, NEW target \in Live(T), NEW source \in Live(T)
    PROVE  CopyActions(T, target, source) \in Frame(T)
<1> DEFINE free == {a \in T.dev[source].acts : \A b \in T.dev[target].acts : ActName[a] # ActName[b]}
           A == T.dev[target].acts \cup free
<1>1. T.dev[source].acts \in SUBSET Acts /\ T.dev[target].acts \in SUBSET Acts
  BY LiveDevice DEF Device
<1>2. A \in SUBSET Acts
  BY <1>1
<1>3. CopyActions(T, target, source) = [T EXCEPT !.dev[target].acts = A]
  BY DEF CopyActions
<1> HIDE DEF A
<1> QED
  BY <1>2, <1>3, ActsFrame

LEMMA MergeLegacyActionsFrame ==
    ASSUME NEW T \in Stores, NEW s \in Live(T)
    PROVE  MergeLegacyActions(T, s) \in Frame(T)
<1> DEFINE X == Frame(T)
           S == (T.dev[s].legacy \cap Live(T)) \ {s}
           F == [p \in X \X S |-> CopyActions(p[1], s, p[2])]
           iter == CHOOSE g : g = [V \in SUBSET S |-> IF V = {} THEN T ELSE CopyActions(g[V \ {Max(V)}], s, Max(V))]
<1>1. MergeLegacyActions(T, s) = iter[S]
  BY DEF MergeLegacyActions, InOrder, MapThenFoldSet
<1>2. S \in SUBSET Nat /\ IsFiniteSet(S) /\ T \in X
  BY LiveIsFinite, FrameFacts DEF Live
<1>3. \A U \in X, l \in S : CopyActions(U, s, l) \in X
  <2> TAKE U \in X, l \in S
  <2>1. U \in Stores /\ s \in Live(U) /\ l \in Live(U)
    BY DEF Frame
  <2> QED
    BY <2>1, CopyActionsFrame, FrameTrans
<1>4. iter = [V \in SUBSET S |-> IF V = {} THEN T ELSE CopyActions(iter[V \ {Max(V)}], s, Max(V))]
  <2>1. F \in [X \X S -> X]
    BY <1>3
  <2>2. PICK g \in [SUBSET S -> X] : Stages(g, S, T, F)
    <3> HIDE DEF F, X, S
    <3> QED
      BY <1>2, <2>1, LoopExists
  <2>3. g = [V \in SUBSET S |-> IF V = {} THEN T ELSE CopyActions(g[V \ {Max(V)}], s, Max(V))]
    <3>1. ASSUME NEW V \in SUBSET S, V # {}
          PROVE  F[<<g[V \ {Max(V)}], Max(V)>>] = CopyActions(g[V \ {Max(V)}], s, Max(V))
      <4> HIDE DEF X, S
      <4>1. g[V \ {Max(V)}] \in X /\ Max(V) \in S
        BY <1>2, <3>1, LastInside
      <4> QED
        BY <4>1
    <3> HIDE DEF F, X, S
    <3> QED
      BY <2>2, <3>1 DEF Stages
  <2> QED
    BY <2>3
<1> HIDE DEF iter, X, S
<1>5. iter[{}] \in X
  BY <1>2, <1>4
<1>6. ASSUME NEW V \in SUBSET S, V # {}, Max(V) \in S, iter[V \ {Max(V)}] \in X PROVE iter[V] \in X
  BY <1>3, <1>4, <1>6
<1>7. iter[S] \in X
  BY <1>2, <1>5, <1>6, LoopStays
<1> QED
  BY <1>1, <1>7 DEF X

LEMMA TakeActionFromFrame ==
    ASSUME NEW T \in Stores, NEW a \in Acts, NEW target \in Slugs, NEW s \in Live(T)
    PROVE  TakeActionFrom(T, a, target, s) \in Frame(T)
<1> DEFINE P == T.dev[s].pendActs \ {<<a, target>>}
           U == [T EXCEPT !.dev[s].pendActs = P]
           A == U.dev[s].acts \ {a}
           W == [U EXCEPT !.dev[s].acts = A]
           Q == W.dev[s].pendActs \cup {<<a, s>>}
           V == [W EXCEPT !.dev[s].pendActs = Q]
<1>1. s \in Slugs
  BY LiveDevice
<1>2. P \in SUBSET (Acts \X Slugs)
  BY LiveDevice DEF Device
<1>3. U \in Frame(T) /\ U \in Stores /\ s \in Live(U)
  <2> HIDE DEF P
  <2> QED
    BY <1>2, PendActsFrame DEF Frame
<1>4. A \in SUBSET Acts
  <2> HIDE DEF U
  <2> QED
    BY <1>3, LiveDevice DEF Device
<1>5. W \in Frame(T) /\ W \in Stores /\ s \in Live(W)
  <2> HIDE DEF U, A
  <2>1. W \in Frame(U)
    BY <1>3, <1>4, ActsFrame
  <2> HIDE DEF W
  <2> QED
    BY <1>3, <2>1, FrameTrans DEF Frame
<1>6. Q \in SUBSET (Acts \X Slugs)
  <2> HIDE DEF W
  <2> QED
    BY <1>1, <1>5, LiveDevice DEF Device
<1>7. V \in Frame(T)
  <2> HIDE DEF W, Q
  <2>1. V \in Frame(W)
    BY <1>5, <1>6, PendActsFrame
  <2> QED
    BY <1>5, <2>1, FrameTrans
<1>8. [U EXCEPT !.dev[s].acts = @ \ {a}, !.dev[s].pendActs = @ \cup {<<a, s>>}] = V
  <2> HIDE DEF U
  <2> QED
    OBVIOUS
<1>9. TakeActionFrom(T, a, target, s) \in {V, Touch(Bump(V, s), {s} \ {target}), U, Touch(Bump(U, s), {s} \ {target})}
  <2>1. U = [T EXCEPT !.dev[s].pendActs = @ \ {<<a, target>>}]
    OBVIOUS
  <2> HIDE DEF V, U
  <2> QED
    BY <1>8, <2>1 DEF TakeActionFrom
<1> HIDE DEF V, U
<1> QED
  BY <1>1, <1>3, <1>7, <1>9, BumpTouchFrame

LEMMA TakeActionFrame ==
    ASSUME NEW T \in Stores, NEW a \in Acts, NEW target \in Slugs
    PROVE  TakeAction(T, a, target) \in Frame(T)
<1> DEFINE X == Frame(T)
           S == Live(T)
           F == [p \in X \X S |-> TakeActionFrom(p[1], a, target, p[2])]
           iter == CHOOSE g : g = [V \in SUBSET S |->
                      IF V = {} THEN T ELSE TakeActionFrom(g[V \ {Max(V)}], a, target, Max(V))]
<1>1. TakeAction(T, a, target) = iter[S]
  BY DEF TakeAction, InOrder, MapThenFoldSet
<1>2. S \in SUBSET Nat /\ IsFiniteSet(S) /\ T \in X
  BY LiveIsFinite, FrameFacts DEF Live
<1>3. \A U \in X, s \in S : TakeActionFrom(U, a, target, s) \in X
  <2> TAKE U \in X, s \in S
  <2>1. U \in Stores /\ s \in Live(U)
    BY DEF Frame
  <2> QED
    BY <2>1, TakeActionFromFrame, FrameTrans
<1>4. iter = [V \in SUBSET S |-> IF V = {} THEN T ELSE TakeActionFrom(iter[V \ {Max(V)}], a, target, Max(V))]
  <2>1. F \in [X \X S -> X]
    BY <1>3
  <2>2. PICK g \in [SUBSET S -> X] : Stages(g, S, T, F)
    <3> HIDE DEF F, X, S
    <3> QED
      BY <1>2, <2>1, LoopExists
  <2>3. g = [V \in SUBSET S |-> IF V = {} THEN T ELSE TakeActionFrom(g[V \ {Max(V)}], a, target, Max(V))]
    <3>1. ASSUME NEW V \in SUBSET S, V # {}
          PROVE  F[<<g[V \ {Max(V)}], Max(V)>>] = TakeActionFrom(g[V \ {Max(V)}], a, target, Max(V))
      <4> HIDE DEF X, S
      <4>1. g[V \ {Max(V)}] \in X /\ Max(V) \in S
        BY <1>2, <3>1, LastInside
      <4> QED
        BY <4>1
    <3> HIDE DEF F, X, S
    <3> QED
      BY <2>2, <3>1 DEF Stages
  <2> QED
    BY <2>3
<1> HIDE DEF iter, X, S
<1>5. iter[{}] \in X
  BY <1>2, <1>4
<1>6. ASSUME NEW V \in SUBSET S, V # {}, Max(V) \in S, iter[V \ {Max(V)}] \in X PROVE iter[V] \in X
  BY <1>3, <1>4, <1>6
<1>7. iter[S] \in X
  BY <1>2, <1>5, <1>6, LoopStays
<1> QED
  BY <1>1, <1>7 DEF X

\* The stores with the ownership of T, and perhaps more devices.
Grown(T) == {U \in Stores : Same(T, U)}

LEMMA GrownFacts ==
    /\ \A T \in Stores : T \in Grown(T)
    /\ \A T : Frame(T) \subseteq Grown(T)
    /\ \A T, U, V : U \in Grown(T) /\ V \in Grown(U) => V \in Grown(T)
    /\ \A T, U : U \in Grown(T) => U \in Stores /\ Live(T) \subseteq Live(U)
BY SameSelf, SameTrans DEF Grown, Frame, Same, Counted

LEMMA EnsureGrown ==
    ASSUME NEW T \in Stores, NEW s \in Slugs
    PROVE  EnsureIdentityDevice(T, s) \in Grown(T) /\ s \in Live(EnsureIdentityDevice(T, s))
<1> DEFINE id == [slug |-> s, legacy |-> {}, linked |-> TRUE, disabled |-> FALSE]
<1>1. id \in Identities /\ id.slug = s
  BY DEF Identities
<1>2. EnsureIdentityDevice(T, s) = Adopt(T, id)
  BY DEF EnsureIdentityDevice
<1> HIDE DEF id
<1> QED
  BY <1>1, <1>2, AdoptSame DEF Grown

\* The catalogs the bridge knows, resolved.
Resolvers == [cmd : [Cmds \cup Acts -> Slugs \cup {0}], name : [Slugs -> Slugs \cup {0}]]

LEMMA ResolveTypes ==
    ASSUME NEW r \in Resolvers, NEW id \in Cmds \cup Acts, NEW s \in Slugs
    PROVE  Resolve(r, id, s) \in Slugs \cup {0}
BY SlugsOfNames DEF Resolvers, Resolve, ResolveName

\* What is to be published does not matter to the ownership.
LEMMA TouchedFrame ==
    ASSUME NEW T \in Stores, NEW S \in SUBSET Slugs
    PROVE  [T EXCEPT !.touched = S] \in Frame(T)
<1>1. [T EXCEPT !.touched = S] = Noted(T, T.next, T.log, S)
  BY DEF Stores, Noted
<1>2. T.next \in Nat /\ T.log \in Seq(Slugs)
  BY DEF Stores
<1> QED
  BY <1>1, <1>2, NotedSame DEF Frame

LEMMA RehomeActionGrown ==
    ASSUME NEW T \in Stores, NEW r \in Resolvers, NEW s \in Live(T), NEW a \in Acts,
           Resolve(r, a, s) # 0
    PROVE  RehomeAction(T, r, s, a) \in Grown(T)
<1> DEFINE target == Resolve(r, a, s)
           U == EnsureIdentityDevice(T, target)
           V == TakeAction(U, a, target)
           A == {b \in V.dev[target].acts : ActName[b] # ActName[a]} \cup {a}
           W == [V EXCEPT !.dev[target].acts = A]
<1>1. s \in Slugs /\ target \in Slugs
  BY LiveDevice, ResolveTypes
<1>2. U \in Grown(T) /\ U \in Stores /\ target \in Live(U)
  BY <1>1, EnsureGrown, GrownFacts
<1>3. V \in Frame(U) /\ V \in Stores /\ target \in Live(V)
  <2> HIDE DEF U
  <2>1. V \in Frame(U)
    BY <1>1, <1>2, TakeActionFrame
  <2> QED
    BY <1>2, <2>1 DEF Frame
<1> HIDE DEF U, V, target
<1>4. A \in SUBSET Acts
  BY <1>3, LiveDevice DEF Device
<1>5. W \in Frame(U)
  <2> HIDE DEF A
  <2>1. W \in Frame(V)
    BY <1>3, <1>4, ActsFrame
  <2> QED
    BY <1>3, <2>1, FrameTrans
<1>6. Touch(Bump(W, target), {s, target}) \in Frame(U)
  <2> HIDE DEF W
  <2> QED
    BY <1>1, <1>2, <1>5, BumpTouchFrame
<1>7. [V EXCEPT !.touched = T.touched] \in Frame(U)
  <2>1. T.touched \in SUBSET Slugs
    BY DEF Stores
  <2> QED
    BY <1>3, <2>1, TouchedFrame, FrameTrans
<1>8. RehomeAction(T, r, s, a) \in {T, [V EXCEPT !.touched = T.touched], Touch(Bump(W, target), {s, target})}
  <2>1. W = [V EXCEPT !.dev[target].acts = {b \in @ : ActName[b] # ActName[a]} \cup {a}]
    OBVIOUS
  <2> HIDE DEF W
  <2> QED
    BY <2>1 DEF RehomeAction, U, V, target
<1> HIDE DEF W
<1> QED
  BY <1>2, <1>6, <1>7, <1>8, GrownFacts

\* The loop over the actions of one device.
RehomeActionsOf(T, r, s, U) ==
    InOrder(LAMBDA W, a : RehomeAction(W, r, s, a), U,
            {a \in T.dev[s].acts : Resolve(r, a, s) \notin {0, s}})

LEMMA ActsAreFinite ==
    ASSUME NEW S \in SUBSET Acts
    PROVE  S \in SUBSET Nat /\ IsFiniteSet(S)
BY IdsAreNumbers, FS_Subset

LEMMA RehomeActionsOfGrown ==
    ASSUME NEW T \in Stores, NEW r \in Resolvers, NEW s \in Live(T), NEW U \in Grown(T)
    PROVE  RehomeActionsOf(T, r, s, U) \in Grown(T)
<1> DEFINE X == Grown(T)
           S == {a \in T.dev[s].acts : Resolve(r, a, s) \notin {0, s}}
           F == [p \in X \X S |-> RehomeAction(p[1], r, s, p[2])]
           iter == CHOOSE g : g = [V \in SUBSET S |->
                      IF V = {} THEN U ELSE RehomeAction(g[V \ {Max(V)}], r, s, Max(V))]
<1>1. RehomeActionsOf(T, r, s, U) = iter[S]
  BY DEF RehomeActionsOf, InOrder, MapThenFoldSet
<1>2. S \in SUBSET Nat /\ IsFiniteSet(S) /\ U \in X
  <2>1. S \in SUBSET Acts
    BY LiveDevice DEF Device
  <2> QED
    BY <2>1, ActsAreFinite
<1>3. \A W \in X, a \in S : RehomeAction(W, r, s, a) \in X
  <2> TAKE W \in X, a \in S
  <2>1. W \in Stores /\ s \in Live(W)
    BY GrownFacts
  <2>2. a \in Acts /\ Resolve(r, a, s) # 0
    BY LiveDevice DEF Device
  <2> QED
    BY <2>1, <2>2, RehomeActionGrown, GrownFacts
<1>4. iter = [V \in SUBSET S |-> IF V = {} THEN U ELSE RehomeAction(iter[V \ {Max(V)}], r, s, Max(V))]
  <2>1. F \in [X \X S -> X]
    BY <1>3
  <2>2. PICK g \in [SUBSET S -> X] : Stages(g, S, U, F)
    <3> HIDE DEF F, X, S
    <3> QED
      BY <1>2, <2>1, LoopExists
  <2>3. g = [V \in SUBSET S |-> IF V = {} THEN U ELSE RehomeAction(g[V \ {Max(V)}], r, s, Max(V))]
    <3>1. ASSUME NEW V \in SUBSET S, V # {}
          PROVE  F[<<g[V \ {Max(V)}], Max(V)>>] = RehomeAction(g[V \ {Max(V)}], r, s, Max(V))
      <4> HIDE DEF X, S
      <4>1. g[V \ {Max(V)}] \in X /\ Max(V) \in S
        BY <1>2, <3>1, LastInside
      <4> QED
        BY <4>1
    <3> HIDE DEF F, X, S
    <3> QED
      BY <2>2, <3>1 DEF Stages
  <2> QED
    BY <2>3
<1> HIDE DEF iter, X, S
<1>5. iter[{}] \in X
  BY <1>2, <1>4
<1>6. ASSUME NEW V \in SUBSET S, V # {}, Max(V) \in S, iter[V \ {Max(V)}] \in X PROVE iter[V] \in X
  BY <1>3, <1>4, <1>6
<1>7. iter[S] \in X
  BY <1>2, <1>5, <1>6, LoopStays
<1> QED
  BY <1>1, <1>7 DEF X

LEMMA RehomeActionsGrown ==
    ASSUME NEW T \in Stores, NEW r \in Resolvers
    PROVE  RehomeActions(T, r) \in Grown(T)
<1> DEFINE X == Grown(T)
           S == Live(T)
           F == [p \in X \X S |-> RehomeActionsOf(T, r, p[2], p[1])]
           iter == CHOOSE g : g = [V \in SUBSET S |->
                      IF V = {} THEN T ELSE RehomeActionsOf(T, r, Max(V), g[V \ {Max(V)}])]
<1>1. RehomeActions(T, r) = iter[S]
  BY DEF RehomeActions, RehomeActionsOf, InOrder, MapThenFoldSet
<1>2. S \in SUBSET Nat /\ IsFiniteSet(S) /\ T \in X
  BY LiveIsFinite, GrownFacts DEF Live
<1>3. \A U \in X, s \in S : RehomeActionsOf(T, r, s, U) \in X
  BY RehomeActionsOfGrown
<1>4. iter = [V \in SUBSET S |-> IF V = {} THEN T ELSE RehomeActionsOf(T, r, Max(V), iter[V \ {Max(V)}])]
  <2>1. F \in [X \X S -> X]
    BY <1>3
  <2>2. PICK g \in [SUBSET S -> X] : Stages(g, S, T, F)
    <3> HIDE DEF F, X, S
    <3> QED
      BY <1>2, <2>1, LoopExists
  <2>3. g = [V \in SUBSET S |-> IF V = {} THEN T ELSE RehomeActionsOf(T, r, Max(V), g[V \ {Max(V)}])]
    <3>1. ASSUME NEW V \in SUBSET S, V # {}
          PROVE  F[<<g[V \ {Max(V)}], Max(V)>>] = RehomeActionsOf(T, r, Max(V), g[V \ {Max(V)}])
      <4> HIDE DEF X, S
      <4>1. g[V \ {Max(V)}] \in X /\ Max(V) \in S
        BY <1>2, <3>1, LastInside
      <4> QED
        BY <4>1
    <3> HIDE DEF F, X, S
    <3> QED
      BY <2>2, <3>1 DEF Stages
  <2> QED
    BY <2>3
<1> HIDE DEF iter, X, S
<1>5. iter[{}] \in X
  BY <1>2, <1>4
<1>6. ASSUME NEW V \in SUBSET S, V # {}, Max(V) \in S, iter[V \ {Max(V)}] \in X PROVE iter[V] \in X
  BY <1>3, <1>4, <1>6
<1>7. iter[S] \in X
  BY <1>2, <1>5, <1>6, LoopStays
<1> QED
  BY <1>1, <1>7 DEF X

\* Other devices, with the info commands and the tombstones they had.
LEMMA DevicesFrame ==
    ASSUME NEW T \in Stores, NEW f \in [Slugs -> Device \cup {NoDevice}],
           \A s \in Slugs : T.dev[s] = NoDevice => f[s] = NoDevice,
           \A s \in Live(T) : /\ f[s] # NoDevice /\ f[s].cmds = T.dev[s].cmds
                              /\ f[s].pend = T.dev[s].pend /\ f[s].rev = T.dev[s].rev
    PROVE  [T EXCEPT !.dev = f] \in Frame(T)
<1>1. /\ [T EXCEPT !.dev = f] \in Stores /\ [T EXCEPT !.dev = f].dev = f /\ [T EXCEPT !.dev = f].index = T.index
      /\ [T EXCEPT !.dev = f].next = T.next /\ [T EXCEPT !.dev = f].log = T.log
  BY DEF Stores
<1> DEFINE U == [T EXCEPT !.dev = f]
<1> HIDE DEF U
<1>2. U \in Stores /\ U.dev = f /\ U.index = T.index /\ U.next = T.next /\ U.log = T.log
  BY <1>1 DEF U
<1>3. Same(T, U) /\ Live(U) = Live(T)
  BY <1>2, SameDevices
<1> QED
  BY <1>2, <1>3 DEF Frame, U

LEMMA ResolveActionCollisionsFrame ==
    ASSUME NEW T \in Stores, NEW r
    PROVE  ResolveActionCollisions(T, r) \in Frame(T)
<1> DEFINE better(s, a, b) ==
               LET rank(x) == <<Resolve(r, x, s) = s, EqOf[x] = T.dev[s].jid>>
               IN  \/ rank(a)[1] /\ ~rank(b)[1]
                   \/ rank(a)[1] = rank(b)[1] /\ rank(a)[2] /\ ~rank(b)[2]
                   \/ rank(a) = rank(b) /\ a < b
           loses(s, a) == \E b \in T.dev[s].acts : ActName[b] = ActName[a] /\ better(s, b, a)
           changed == {s \in Live(T) : \E a \in T.dev[s].acts : loses(s, a)}
           f == [s \in Slugs |-> IF s \in changed THEN [T.dev[s] EXCEPT !.acts = {a \in T.dev[s].acts : ~loses(s, a)}]
                              ELSE T.dev[s]]
<1>1. ResolveActionCollisions(T, r) = Touch(BumpEach([T EXCEPT !.dev = f], changed), changed)
  BY DEF ResolveActionCollisions
<1> HIDE DEF better, loses
<1>2. changed \in SUBSET Live(T) /\ Live(T) \in SUBSET Slugs
  BY DEF Live
<1>3. ASSUME NEW s \in Live(T)
      PROVE  /\ f[s] \in Device /\ f[s].cmds = T.dev[s].cmds
             /\ f[s].pend = T.dev[s].pend /\ f[s].rev = T.dev[s].rev
  <2> DEFINE A == {a \in T.dev[s].acts : ~loses(s, a)}
  <2>1. T.dev[s] \in Device /\ s \in Slugs
    BY <1>3, LiveDevice
  <2>2. A \in SUBSET Acts
    BY <2>1 DEF Device
  <2> HIDE DEF A
  <2>3. [T.dev[s] EXCEPT !.acts = A] \in Device
    BY <2>1, <2>2 DEF Device
  <2> QED
    BY <2>1, <2>3 DEF A
<1>4. f \in [Slugs -> Device \cup {NoDevice}]
  <2>1. ASSUME NEW s \in Slugs PROVE f[s] \in Device \cup {NoDevice}
    <3> HIDE DEF f
    <3>1. CASE s \in Live(T)
      BY <1>3, <3>1
    <3>2. CASE s \notin Live(T)
      BY <3>2 DEF f, Live
    <3> QED
      BY <3>1, <3>2
  <2> QED
    BY <2>1
<1>5. \A s \in Slugs : T.dev[s] = NoDevice => f[s] = NoDevice
  BY DEF Live
<1> HIDE DEF f, changed
<1>6. [T EXCEPT !.dev = f] \in Frame(T)
  BY <1>3, <1>4, <1>5, DeviceIsLive, DevicesFrame
<1> DEFINE K == [T EXCEPT !.dev = f]
<1> HIDE DEF K
<1>7. K \in Frame(T) /\ K \in Stores /\ changed \in SUBSET Live(K) /\ changed \in SUBSET Slugs
  BY <1>2, <1>6 DEF K, Frame
<1>8. BumpEach(K, changed) \in Frame(T) /\ BumpEach(K, changed) \in Stores
  BY <1>7, BumpEachFrame, FrameTrans DEF Frame
<1>9. Touch(BumpEach(K, changed), changed) \in Frame(T)
  BY <1>7, <1>8, FrameFacts, FrameTrans
<1> QED
  BY <1>1, <1>9 DEF K

\* The walk of PublishOrder: its step, and all that is visited from one device.
WalkStep(T, w, i) ==
    IF w.stack = <<>> THEN w
    ELSE LET s == Last(w.stack)
             below == (T.dev[s].legacy \cap Live(T)) \ (ToSet(w.out) \cup ToSet(w.stack))
         IN  IF below = {} THEN [stack |-> Front(w.stack), out |-> Append(w.out, s)]
                           ELSE [w EXCEPT !.stack = Append(@, Min(below))]
Walk(T, w, s) == IF s \in ToSet(w.out) THEN w
                 ELSE InOrder(LAMBDA v, i : WalkStep(T, v, i), [w EXCEPT !.stack = <<s>>],
                              1..(2 * Cardinality(Slugs)))
Walks(T) == [stack : Seq(Live(T)), out : Seq(Live(T))]

\* The walk visits a device once; what it has left to do gets less every step.
Once(q) == \A i, j \in DOMAIN q : q[i] = q[j] => i = j
Apart(w) == Once(w.stack) /\ ToSet(w.stack) \cap ToSet(w.out) = {}
Reached(w) == ToSet(w.out) \cup ToSet(w.stack)
Progress(w) == Cardinality(ToSet(w.out)) + Cardinality(Reached(w))

LEMMA TopOfWalk ==
    ASSUME NEW T, NEW v \in Walks(T), v.stack # <<>>
    PROVE  Last(v.stack) \in Live(T) /\ Last(v.stack) \in ToSet(v.stack)
<1> DEFINE q == v.stack
           X == Live(T)
<1>1. q \in Seq(X) /\ q # <<>>
  BY DEF Walks
<1> HIDE DEF q, X
<1>2. Last(q) \in X /\ ToSet(q) = ToSet(Front(q)) \cup {Last(q)}
  BY <1>1, EndOf
<1> QED
  BY <1>2 DEF q, X

LEMMA OneLess ==
    ASSUME NEW S, IsFiniteSet(S), NEW V \in SUBSET S, NEW i \in V
    PROVE  IsFiniteSet(V) /\ Cardinality(V) \in Nat /\ Cardinality(V \ {i}) = Cardinality(V) - 1
<1>1. IsFiniteSet(V)
  BY FS_Subset
<1> QED
  BY <1>1, FS_CardinalityType, FS_RemoveElement

LEMMA OnceFacts ==
    ASSUME NEW X, NEW q \in Seq(X), Once(q)
    PROVE  /\ \A x \in X \ ToSet(q) : Once(Append(q, x))
           /\ q # <<>> => Once(Front(q)) /\ Last(q) \notin ToSet(Front(q))
<1>1. Len(q) \in Nat /\ DOMAIN q = 1..Len(q)
  OBVIOUS
<1>2. ASSUME NEW x \in X \ ToSet(q) PROVE Once(Append(q, x))
  <2>1. DOMAIN Append(q, x) = 1..(Len(q) + 1) /\ Append(q, x)[Len(q) + 1] = x
        /\ \A i \in 1..Len(q) : Append(q, x)[i] = q[i] /\ q[i] # x
    BY <1>1 DEF ToSet
  <2>2. 1..(Len(q) + 1) = (1..Len(q)) \cup {Len(q) + 1}
    BY <1>1
  <2>3. \A i, j \in 1..Len(q) : q[i] = q[j] => i = j
    BY <1>1 DEF Once
  <2> QED
    BY <2>1, <2>2, <2>3 DEF Once
<1>3. ASSUME q # <<>> PROVE Once(Front(q)) /\ Last(q) \notin ToSet(Front(q))
  <2>1. Len(q) # 0 /\ Last(q) = q[Len(q)] /\ Len(q) \in 1..Len(q)
    BY <1>1, <1>3 DEF Last
  <2>2. DOMAIN Front(q) = 1..(Len(q) - 1) /\ \A i \in 1..(Len(q) - 1) : Front(q)[i] = q[i]
    BY <1>1, <2>1 DEF Front
  <2>3. 1..(Len(q) - 1) = (1..Len(q)) \ {Len(q)}
    BY <1>1
  <2> QED
    BY <1>1, <2>1, <2>2, <2>3 DEF Once, ToSet
<1> QED
  BY <1>2, <1>3

LEMMA WalkStepTypes ==
    ASSUME NEW T \in Stores, NEW w \in Walks(T), Apart(w), NEW i
    PROVE  LET v == WalkStep(T, w, i) IN
           /\ v \in Walks(T) /\ Apart(v)
           /\ ToSet(w.out) \subseteq ToSet(v.out) /\ Reached(w) \subseteq Reached(v)
           /\ v.stack = <<>> \/ Progress(v) = Progress(w) + 1
<1> DEFINE s == Last(w.stack)
           below == (T.dev[s].legacy \cap Live(T)) \ (ToSet(w.out) \cup ToSet(w.stack))
           v == WalkStep(T, w, i)
<1>1. w.stack \in Seq(Live(T)) /\ w.out \in Seq(Live(T)) /\ w = [stack |-> w.stack, out |-> w.out]
  BY DEF Walks
<1>2. /\ IsFiniteSet(ToSet(w.out)) /\ Cardinality(ToSet(w.out)) \in Nat
      /\ IsFiniteSet(Reached(w)) /\ Cardinality(Reached(w)) \in Nat
  <2>1. ToSet(w.out) \in SUBSET Slugs /\ Reached(w) \in SUBSET Slugs
    BY <1>1 DEF ToSet, Reached, Live
  <2> QED
    BY <2>1, LiveIsFinite, FS_CardinalityType
<1>3. CASE w.stack = <<>>
  <2>1. v = w
    BY <1>3 DEF WalkStep
  <2> QED
    BY <1>3, <2>1
<1>4. CASE w.stack # <<>>
  <2>1. s \in Live(T) /\ Front(w.stack) \in Seq(Live(T)) /\ ToSet(w.stack) = ToSet(Front(w.stack)) \cup {s}
        /\ Once(Front(w.stack)) /\ s \notin ToSet(Front(w.stack))
    BY <1>1, <1>4, EndOf, OnceFacts DEF Apart
  <2>2. CASE below = {}
    <3>1. v = [stack |-> Front(w.stack), out |-> Append(w.out, s)]
      BY <1>4, <2>2 DEF WalkStep
    <3> HIDE DEF s, v
    <3>2. Append(w.out, s) \in Seq(Live(T)) /\ ToSet(Append(w.out, s)) = ToSet(w.out) \cup {s}
      BY <1>1, <2>1, EndAppended
    <3>3. /\ v.stack = Front(w.stack) /\ v \in Walks(T)
          /\ ToSet(v.out) = ToSet(w.out) \cup {s} /\ s \notin ToSet(w.out)
      BY <2>1, <3>1, <3>2 DEF Walks, Apart
    <3>4. Apart(v)
      BY <2>1, <3>3 DEF Apart
    <3>5. Reached(v) = Reached(w)
      BY <2>1, <3>3 DEF Reached
    <3>6. Cardinality(ToSet(v.out)) = Cardinality(ToSet(w.out)) + 1
      BY <1>2, <3>3, FS_AddElement
    <3>7. Progress(v) = Progress(w) + 1
      BY <1>2, <3>5, <3>6 DEF Progress
    <3> QED
      BY <3>3, <3>4, <3>5, <3>7 DEF v
  <2>3. CASE below # {}
    <3> DEFINE m == Min(below)
    <3>1. v = [w EXCEPT !.stack = Append(w.stack, m)]
      BY <1>4, <2>3 DEF WalkStep
    <3>2. m \in Live(T) /\ m \notin ToSet(w.out) /\ m \notin ToSet(w.stack)
      <4>1. below \in SUBSET Nat
        BY SlugsAreNumbers DEF Live
      <4>2. m \in below
        <5> HIDE DEF below
        <5> QED
          BY <2>3, <4>1, LeastOf
      <4> HIDE DEF m
      <4> QED
        BY <4>2
    <3> HIDE DEF m, v
    <3>3. Append(w.stack, m) \in Seq(Live(T)) /\ ToSet(Append(w.stack, m)) = ToSet(w.stack) \cup {m}
          /\ Once(Append(w.stack, m))
      BY <1>1, <3>2, EndAppended, OnceFacts DEF Apart
    <3>4. v.stack = Append(w.stack, m) /\ v.out = w.out /\ v \in Walks(T)
      BY <1>1, <3>1, <3>3 DEF Walks
    <3>5. Apart(v)
      BY <3>2, <3>3, <3>4 DEF Apart
    <3>6. Reached(v) = Reached(w) \cup {m} /\ m \notin Reached(w)
      BY <3>2, <3>3, <3>4 DEF Reached
    <3>7. Cardinality(Reached(v)) = Cardinality(Reached(w)) + 1
      BY <1>2, <3>6, FS_AddElement
    <3>8. Progress(v) = Progress(w) + 1
      BY <1>2, <3>4, <3>7 DEF Progress
    <3> QED
      BY <3>4, <3>5, <3>6, <3>8 DEF v
  <2> QED
    BY <2>2, <2>3
<1> QED
  BY <1>3, <1>4

\* A walk from s visits s and forgets nothing; its steps suffice for all devices.
LEMMA WalkTypes ==
    ASSUME NEW T \in Stores, NEW w \in Walks(T), NEW s \in Live(T)
    PROVE  /\ Walk(T, w, s) \in Walks(T)
           /\ ToSet(w.out) \cup {s} \subseteq ToSet(Walk(T, w, s).out)
<1> DEFINE start == [w EXCEPT !.stack = <<s>>]
           n == Cardinality(Slugs)
           S == 1..(2 * n)
           X == {v \in Walks(T) : Apart(v) /\ ToSet(w.out) \subseteq ToSet(v.out) /\ s \in Reached(v)}
           F == [p \in X \X S |-> WalkStep(T, p[1], p[2])]
           iter == CHOOSE g : g = [V \in SUBSET S |->
                      IF V = {} THEN start ELSE WalkStep(T, g[V \ {Max(V)}], Max(V))]
           Y == {p \in (SUBSET S) \X X : p[2].stack = <<>> \/ Progress(p[2]) >= Cardinality(p[1]) + 1}
<1> SUFFICES ASSUME s \notin ToSet(w.out)
             PROVE  iter[S] \in X /\ iter[S].stack = <<>>
  <2>1. Walk(T, w, s) = IF s \in ToSet(w.out) THEN w ELSE iter[S]
    BY DEF Walk, InOrder, MapThenFoldSet
  <2> HIDE DEF iter, S
  <2>2. \A v \in X : v.stack = <<>> => s \in ToSet(v.out)
    BY DEF Reached, ToSet
  <2> QED
    BY <2>1, <2>2
<1>1. n \in Nat /\ S \in SUBSET Nat /\ IsFiniteSet(S) /\ Cardinality(S) = 2 * n
  <2>1. n \in Nat
    BY SlugsAreNumbers, FS_CardinalityType
  <2> HIDE DEF n
  <2>2. 2 * n \in Int /\ 2 * n \in Nat /\ 1 \in Int
    BY <2>1
  <2>3. IsFiniteSet(1..(2 * n)) /\ Cardinality(1..(2 * n)) = IF 1 > 2 * n THEN 0 ELSE 2 * n - 1 + 1
    BY <2>2, FS_Interval
  <2> QED
    BY <2>1, <2>2, <2>3
<1>2. \A v \in Walks(T) : /\ Cardinality(ToSet(v.out)) \in Nat /\ Cardinality(ToSet(v.out)) <= n
                          /\ Cardinality(Reached(v)) \in Nat /\ Cardinality(Reached(v)) <= n
                          /\ v.stack # <<>> /\ Apart(v) => Cardinality(ToSet(v.out)) < n
  <2> TAKE v \in Walks(T)
  <2>1. v.stack \in Seq(Live(T)) /\ v.out \in Seq(Live(T))
    BY DEF Walks
  <2>2. ToSet(v.out) \in SUBSET Slugs /\ Reached(v) \in SUBSET Slugs
    BY <2>1 DEF ToSet, Reached, Live
  <2>3. /\ IsFiniteSet(Slugs) /\ n \in Nat
        /\ Cardinality(ToSet(v.out)) \in Nat /\ Cardinality(ToSet(v.out)) <= n
        /\ Cardinality(Reached(v)) \in Nat /\ Cardinality(Reached(v)) <= n
        /\ (Cardinality(ToSet(v.out)) = n => ToSet(v.out) = Slugs)
    BY <1>1, <2>2, SlugsAreNumbers, LiveIsFinite, FS_CardinalityType, FS_Subset
  <2>4. ASSUME v.stack # <<>>, Apart(v) PROVE ToSet(v.out) # Slugs
    <3>1. Last(v.stack) \in Live(T) /\ Last(v.stack) \in ToSet(v.stack)
      BY <2>4, TopOfWalk
    <3> QED
      BY <2>4, <3>1 DEF Apart, Live
  <2> HIDE DEF n
  <2> QED
    BY <2>3, <2>4
<1> HIDE DEF n
<1>3. start \in X /\ start.stack # <<>> /\ Progress(start) >= 1
  <2> DEFINE q == <<s>>
  <2>1. q \in Seq(Live(T)) /\ q # <<>> /\ ToSet(q) = {s} /\ Once(q)
    BY DEF ToSet, Once
  <2>2. start = [w EXCEPT !.stack = q]
    OBVIOUS
  <2> HIDE DEF q, start
  <2>3. start \in Walks(T) /\ start.stack = q /\ start.out = w.out
    BY <2>1, <2>2 DEF Walks
  <2>4. Apart(start) /\ s \in Reached(start)
    BY <2>1, <2>3 DEF Apart, Reached
  <2>5. Reached(start) # {} /\ IsFiniteSet(Reached(start)) /\ Cardinality(Reached(start)) # 0
    <3>1. Reached(start) \in SUBSET Slugs
      BY <2>3 DEF Walks, ToSet, Reached, Live
    <3>2. IsFiniteSet(Reached(start))
      BY <3>1, LiveIsFinite
    <3> QED
      BY <2>4, <3>2, FS_EmptySet
  <2>6. Progress(start) >= 1
    BY <1>2, <2>3, <2>5 DEF Progress
  <2> QED
    BY <2>1, <2>3, <2>4, <2>6
<1> HIDE DEF start
<1>4. \A v \in X, i \in S : WalkStep(T, v, i) \in X
  BY WalkStepTypes
<1>5. iter = [V \in SUBSET S |-> IF V = {} THEN start ELSE WalkStep(T, iter[V \ {Max(V)}], Max(V))]
  <2>1. F \in [X \X S -> X]
    BY <1>4
  <2>2. PICK g \in [SUBSET S -> X] : Stages(g, S, start, F)
    <3> HIDE DEF F, X, S
    <3> QED
      BY <1>1, <1>3, <2>1, LoopExists
  <2>3. g = [V \in SUBSET S |-> IF V = {} THEN start ELSE WalkStep(T, g[V \ {Max(V)}], Max(V))]
    <3>1. ASSUME NEW V \in SUBSET S, V # {}
          PROVE  F[<<g[V \ {Max(V)}], Max(V)>>] = WalkStep(T, g[V \ {Max(V)}], Max(V))
      <4> HIDE DEF X, S
      <4>1. g[V \ {Max(V)}] \in X /\ Max(V) \in S
        BY <1>1, <3>1, LastInside
      <4> QED
        BY <4>1
    <3> HIDE DEF F, X, S
    <3> QED
      BY <2>2, <3>1 DEF Stages
  <2> QED
    BY <2>3
<1> HIDE DEF iter
<1>6. <<{}, iter[{}]>> \in Y
  <2>1. iter[{}] = start
    BY <1>5
  <2>2. Cardinality({}) = 0
    BY FS_EmptySet
  <2>3. Progress(iter[{}]) >= Cardinality({}) + 1
    BY <1>3, <2>1, <2>2
  <2> HIDE DEF X, S
  <2> QED
    BY <1>3, <2>1, <2>3
<1>7. ASSUME NEW V \in SUBSET S, V # {}, Max(V) \in V, <<V \ {Max(V)}, iter[V \ {Max(V)}]>> \in Y
      PROVE  <<V, iter[V]>> \in Y
  <2> DEFINE v == iter[V \ {Max(V)}]
             i == Max(V)
  <2>1. v \in X /\ i \in S /\ (v.stack = <<>> \/ Progress(v) >= Cardinality(V \ {i}) + 1)
    BY <1>7
  <2>2. iter[V] = WalkStep(T, v, i)
    BY <1>5, <1>7
  <2>3. IsFiniteSet(V) /\ Cardinality(V) \in Nat /\ Cardinality(V \ {i}) = Cardinality(V) - 1
    <3> HIDE DEF S
    <3> QED
      BY <1>1, <1>7, OneLess
  <2> HIDE DEF v, i, S
  <2>4. v \in Walks(T) /\ Apart(v) /\ Progress(v) \in Nat
    BY <1>2, <2>1 DEF Progress
  <2>5. iter[V].stack = <<>> \/ Progress(iter[V]) = Progress(v) + 1
    BY <2>2, <2>4, WalkStepTypes
  <2>6. v.stack = <<>> => iter[V].stack = <<>>
    BY <2>2 DEF WalkStep
  <2>7. iter[V].stack = <<>> \/ Progress(iter[V]) >= Cardinality(V) + 1
    BY <2>1, <2>3, <2>4, <2>5, <2>6
  <2>8. iter[V] \in X
    BY <1>4, <2>1, <2>2
  <2> HIDE DEF X
  <2> QED
    BY <2>7, <2>8
<1>8. <<S, iter[S]>> \in Y
  <2> HIDE DEF X, S, Y
  <2> QED
    BY <1>1, <1>6, <1>7, LoopKeeps
<1>9. iter[S] \in X /\ (iter[S].stack = <<>> \/ Progress(iter[S]) >= 2 * n + 1)
  <2> HIDE DEF X, S
  <2> QED
    BY <1>1, <1>8
<1>10. iter[S].stack # <<>> => Progress(iter[S]) < 2 * n
  <2> HIDE DEF S
  <2>1. iter[S] \in Walks(T) /\ Apart(iter[S])
    BY <1>9
  <2> QED
    BY <1>1, <1>2, <2>1 DEF Progress
<1>11. Progress(iter[S]) \in Nat
  <2> HIDE DEF S
  <2> QED
    BY <1>2, <1>9 DEF Progress
<1> HIDE DEF X, S
<1> QED
  BY <1>1, <1>9, <1>10, <1>11

\* The publish order has every device.
LEMMA PublishOrderTypes ==
    ASSUME NEW T \in Stores
    PROVE  PublishOrder(T) \in Seq(Live(T)) /\ ToSet(PublishOrder(T)) = Live(T)
<1> DEFINE start == [stack |-> <<>>, out |-> <<>>]
<1>0. start \in Walks(T)
  BY DEF Walks
<1> HIDE DEF start
<1>a. LET w == InOrder(LAMBDA w, s : Walk(T, w, s), start, Live(T))
      IN  w \in Walks(T) /\ Live(T) \subseteq ToSet(w.out)
  <2> DEFINE X == Walks(T)
             S == Live(T)
             F == [p \in X \X S |-> Walk(T, p[1], p[2])]
             iter == CHOOSE g : g = [V \in SUBSET S |->
                        IF V = {} THEN start ELSE Walk(T, g[V \ {Max(V)}], Max(V))]
  <2>1. InOrder(LAMBDA w, s : Walk(T, w, s), start, Live(T)) = iter[S]
    BY DEF InOrder, MapThenFoldSet
  <2>2. S \in SUBSET Nat /\ IsFiniteSet(S) /\ start \in X
    BY <1>0, LiveIsFinite DEF Live
  <2>3. \A w \in X, s \in S : Walk(T, w, s) \in X
    BY WalkTypes
  <2>4. iter = [V \in SUBSET S |-> IF V = {} THEN start ELSE Walk(T, iter[V \ {Max(V)}], Max(V))]
    <3>1. F \in [X \X S -> X]
      BY <2>3
    <3>2. PICK g \in [SUBSET S -> X] : Stages(g, S, start, F)
      <4> HIDE DEF F, X, S
      <4> QED
        BY <2>2, <3>1, LoopExists
    <3>3. g = [V \in SUBSET S |-> IF V = {} THEN start ELSE Walk(T, g[V \ {Max(V)}], Max(V))]
      <4>1. ASSUME NEW V \in SUBSET S, V # {}
            PROVE  F[<<g[V \ {Max(V)}], Max(V)>>] = Walk(T, g[V \ {Max(V)}], Max(V))
        <5> HIDE DEF X, S
        <5>1. g[V \ {Max(V)}] \in X /\ Max(V) \in S
          BY <2>2, <4>1, LastInside
        <5> QED
          BY <5>1
      <4> HIDE DEF F, X, S
      <4> QED
        BY <3>2, <4>1 DEF Stages
    <3> QED
      BY <3>3
  <2> DEFINE Y == {p \in (SUBSET S) \X X : p[1] \subseteq ToSet(p[2].out)}
  <2> HIDE DEF iter, X, S
  <2>5. <<{}, iter[{}]>> \in Y
    BY <2>2, <2>4
  <2>6. ASSUME NEW V \in SUBSET S, V # {}, Max(V) \in V, <<V \ {Max(V)}, iter[V \ {Max(V)}]>> \in Y
        PROVE  <<V, iter[V]>> \in Y
    <3> DEFINE w == iter[V \ {Max(V)}]
               s == Max(V)
    <3>1. w \in X /\ s \in V /\ s \in S /\ V \ {s} \subseteq ToSet(w.out) /\ iter[V] = Walk(T, w, s)
      BY <2>4, <2>6
    <3> HIDE DEF w, s
    <3>2. Walk(T, w, s) \in X /\ ToSet(w.out) \cup {s} \subseteq ToSet(Walk(T, w, s).out)
      BY <3>1, WalkTypes DEF X, S
    <3> QED
      BY <3>1, <3>2
  <2>7. <<S, iter[S]>> \in Y
    <3> HIDE DEF Y
    <3> QED
      BY <2>2, <2>5, <2>6, LoopKeeps
  <2> QED
    BY <2>1, <2>7 DEF X, S
<1>b. PublishOrder(T) = InOrder(LAMBDA w, s : Walk(T, w, s), start, Live(T)).out
  BY DEF PublishOrder, Walk, WalkStep, start
<1>c. PublishOrder(T) \in Seq(Live(T)) /\ Live(T) \subseteq ToSet(PublishOrder(T))
  BY <1>a, <1>b DEF Walks
<1> HIDE DEF PublishOrder
<1> QED
  BY <1>c DEF ToSet

\* Bumping along the publish order: every device, or those that need a revision.
EnsureRevision(T, U, s) == IF T.dev[s].rev = 0 /\ s \notin ToSet(T.log) THEN Bump(U, s) ELSE U

LEMMA OrderFacts ==
    ASSUME NEW T \in Stores
    PROVE  /\ DOMAIN PublishOrder(T) \in SUBSET Nat /\ IsFiniteSet(DOMAIN PublishOrder(T))
           /\ \A i \in DOMAIN PublishOrder(T) : PublishOrder(T)[i] \in Live(T)
<1>1. PublishOrder(T) \in Seq(Live(T))
  BY PublishOrderTypes
<1> HIDE DEF PublishOrder
<1>2. DOMAIN PublishOrder(T) = 1..Len(PublishOrder(T)) /\ Len(PublishOrder(T)) \in Nat
  BY <1>1
<1>3. IsFiniteSet(1..Len(PublishOrder(T)))
  BY <1>2, FS_Interval
<1>4. \A i \in DOMAIN PublishOrder(T) : PublishOrder(T)[i] \in Live(T)
  BY <1>1
<1> QED
  BY <1>2, <1>3, <1>4

LEMMA BumpAllFrame ==
    ASSUME NEW T \in Stores
    PROVE  BumpAll(T) \in Frame(T)
<1> DEFINE order == PublishOrder(T)
<1> DEFINE X == Frame(T)
           S == DOMAIN order
           F == [p \in X \X S |-> Bump(p[1], order[p[2]])]
           iter == CHOOSE g : g = [V \in SUBSET S |->
                      IF V = {} THEN T ELSE Bump(g[V \ {Max(V)}], order[Max(V)])]
<1>1. BumpAll(T) = iter[S]
  BY DEF BumpAll, FoldLeft, MapThenFoldSet
<1>2. S \in SUBSET Nat /\ IsFiniteSet(S) /\ T \in X
  BY OrderFacts, FrameFacts
<1>3. \A U \in X, i \in S : Bump(U, order[i]) \in X
  <2> TAKE U \in X, i \in S
  <2>1. U \in Stores /\ order[i] \in Live(U)
    BY OrderFacts DEF Frame
  <2> QED
    BY <2>1, FrameFacts, FrameTrans
<1>4. iter = [V \in SUBSET S |-> IF V = {} THEN T ELSE Bump(iter[V \ {Max(V)}], order[Max(V)])]
  <2>1. F \in [X \X S -> X]
    BY <1>3
  <2>2. PICK g \in [SUBSET S -> X] : Stages(g, S, T, F)
    <3> HIDE DEF F, X, S
    <3> QED
      BY <1>2, <2>1, LoopExists
  <2>3. g = [V \in SUBSET S |-> IF V = {} THEN T ELSE Bump(g[V \ {Max(V)}], order[Max(V)])]
    <3>1. ASSUME NEW V \in SUBSET S, V # {}
          PROVE  F[<<g[V \ {Max(V)}], Max(V)>>] = Bump(g[V \ {Max(V)}], order[Max(V)])
      <4> HIDE DEF X, S
      <4>1. g[V \ {Max(V)}] \in X /\ Max(V) \in S
        BY <1>2, <3>1, LastInside
      <4> QED
        BY <4>1
    <3> HIDE DEF F, X, S
    <3> QED
      BY <2>2, <3>1 DEF Stages
  <2> QED
    BY <2>3
<1> HIDE DEF iter, X, S
<1>5. iter[{}] \in X
  BY <1>2, <1>4
<1>6. ASSUME NEW V \in SUBSET S, V # {}, Max(V) \in S, iter[V \ {Max(V)}] \in X PROVE iter[V] \in X
  BY <1>3, <1>4, <1>6
<1>7. iter[S] \in X
  BY <1>2, <1>5, <1>6, LoopStays
<1> QED
  BY <1>1, <1>7 DEF X

LEMMA EnsureRevisionsFrame ==
    ASSUME NEW T \in Stores
    PROVE  EnsureRevisions(T) \in Frame(T) /\ Settled(EnsureRevisions(T))
<1> DEFINE order == PublishOrder(T)
<1> DEFINE X == Frame(T)
           S == DOMAIN order
           F == [p \in X \X S |-> EnsureRevision(T, p[1], order[p[2]])]
           iter == CHOOSE g : g = [V \in SUBSET S |->
                      IF V = {} THEN T ELSE EnsureRevision(T, g[V \ {Max(V)}], order[Max(V)])]
<1>1. EnsureRevisions(T) = iter[S]
  BY DEF EnsureRevisions, EnsureRevision, FoldLeft, MapThenFoldSet
<1>2. S \in SUBSET Nat /\ IsFiniteSet(S) /\ T \in X
  BY OrderFacts, FrameFacts
<1>3. \A U \in X, i \in S : EnsureRevision(T, U, order[i]) \in X
  <2> TAKE U \in X, i \in S
  <2>1. U \in Stores /\ order[i] \in Live(U)
    BY OrderFacts DEF Frame
  <2> QED
    BY <2>1, FrameFacts, FrameTrans DEF EnsureRevision
<1>4. iter = [V \in SUBSET S |-> IF V = {} THEN T ELSE EnsureRevision(T, iter[V \ {Max(V)}], order[Max(V)])]
  <2>1. F \in [X \X S -> X]
    BY <1>3
  <2>2. PICK g \in [SUBSET S -> X] : Stages(g, S, T, F)
    <3> HIDE DEF F, X, S
    <3> QED
      BY <1>2, <2>1, LoopExists
  <2>3. g = [V \in SUBSET S |-> IF V = {} THEN T ELSE EnsureRevision(T, g[V \ {Max(V)}], order[Max(V)])]
    <3>1. ASSUME NEW V \in SUBSET S, V # {}
          PROVE  F[<<g[V \ {Max(V)}], Max(V)>>] = EnsureRevision(T, g[V \ {Max(V)}], order[Max(V)])
      <4> HIDE DEF X, S
      <4>1. g[V \ {Max(V)}] \in X /\ Max(V) \in S
        BY <1>2, <3>1, LastInside
      <4> QED
        BY <4>1
    <3> HIDE DEF F, X, S
    <3> QED
      BY <2>2, <3>1 DEF Stages
  <2> QED
    BY <2>3
<1> DEFINE Bare == {s \in Live(T) : T.dev[s].rev = 0 /\ s \notin ToSet(T.log)}
           Y == {p \in (SUBSET S) \X X : \A i \in p[1] : order[i] \in Bare => order[i] \in ToSet(p[2].log)}
<1>5. ASSUME NEW U \in X, NEW i \in S
      PROVE  LET U2 == EnsureRevision(T, U, order[i]) IN
             ToSet(U.log) \subseteq ToSet(U2.log) /\ (order[i] \in Bare => order[i] \in ToSet(U2.log))
  <2>1. U \in Stores /\ order[i] \in Live(U)
    BY OrderFacts DEF Frame
  <2>2. ToSet(U.log) \subseteq ToSet(Bump(U, order[i]).log) /\ order[i] \in ToSet(Bump(U, order[i]).log)
    BY <2>1, BumpSame DEF Same, Counted
  <2> QED
    BY <2>2 DEF EnsureRevision
<1> HIDE DEF iter, X, S, Bare, order
<1>6. <<{}, iter[{}]>> \in Y
  BY <1>2, <1>4
<1>7. ASSUME NEW V \in SUBSET S, V # {}, Max(V) \in V, <<V \ {Max(V)}, iter[V \ {Max(V)}]>> \in Y
      PROVE  <<V, iter[V]>> \in Y
  <2> DEFINE U == iter[V \ {Max(V)}]
             m == Max(V)
  <2>1. U \in X /\ m \in S /\ \A i \in V \ {m} : order[i] \in Bare => order[i] \in ToSet(U.log)
    BY <1>7
  <2>2. iter[V] = EnsureRevision(T, U, order[m])
    BY <1>4, <1>7
  <2> HIDE DEF U, m
  <2>3. iter[V] \in X
    BY <1>3, <2>1, <2>2
  <2>4. ToSet(U.log) \subseteq ToSet(iter[V].log) /\ (order[m] \in Bare => order[m] \in ToSet(iter[V].log))
    BY <1>5, <2>1, <2>2
  <2>5. \A i \in V : order[i] \in Bare => order[i] \in ToSet(iter[V].log)
    BY <2>1, <2>4
  <2> QED
    BY <2>3, <2>5
<1>8. <<S, iter[S]>> \in Y
  <2> HIDE DEF Y
  <2> QED
    BY <1>2, <1>6, <1>7, LoopKeeps
<1> DEFINE E == iter[S]
<1>9. E \in Frame(T) /\ \A i \in S : order[i] \in Bare => order[i] \in ToSet(E.log)
  BY <1>8 DEF X
<1> HIDE DEF E
<1>10. Counted(T, E) /\ Live(E) = Live(T)
  BY <1>9 DEF Frame, Same
<1>11. \A s \in Live(T) : s \in Bare => s \in ToSet(E.log)
  <2> TAKE s \in Live(T)
  <2>1. PICK i \in S : order[i] = s
    BY PublishOrderTypes DEF ToSet, S, order
  <2> QED
    BY <1>9, <2>1
<1>12. Settled(E)
  BY <1>10, <1>11 DEF Settled, Counted, Bare
<1> QED
  BY <1>1, <1>9, <1>12 DEF E

LEMMA RemoveCanonicalFrame ==
    ASSUME NEW T \in Stores
    PROVE  RemoveCanonicalLegacyAliases(T) \in Frame(T)
<1> DEFINE canonical == {s \in Live(T) : T.dev[s].linked}
           changed == {s \in Live(T) : T.dev[s].legacy \cap canonical # {}}
           f == [s \in Slugs |-> IF s \in changed THEN [T.dev[s] EXCEPT !.legacy = T.dev[s].legacy \ canonical]
                                 ELSE T.dev[s]]
           K == [T EXCEPT !.dev = f]
           B == BumpEach(K, changed)
<1>1. RemoveCanonicalLegacyAliases(T) = Touch(B, changed)
  BY DEF RemoveCanonicalLegacyAliases
<1>2. changed \in SUBSET Live(T) /\ Live(T) \in SUBSET Slugs
  BY DEF Live
<1>3. ASSUME NEW s \in Live(T)
      PROVE  /\ f[s] \in Device /\ f[s].cmds = T.dev[s].cmds
             /\ f[s].pend = T.dev[s].pend /\ f[s].rev = T.dev[s].rev
  <2> DEFINE A == T.dev[s].legacy \ canonical
  <2>1. T.dev[s] \in Device /\ s \in Slugs
    BY <1>3, LiveDevice
  <2>2. A \in SUBSET Slugs
    BY <2>1 DEF Device
  <2> HIDE DEF A
  <2>3. [T.dev[s] EXCEPT !.legacy = A] \in Device
    BY <2>1, <2>2 DEF Device
  <2> QED
    BY <2>1, <2>3 DEF A
<1>4. f \in [Slugs -> Device \cup {NoDevice}]
  <2>1. ASSUME NEW s \in Slugs PROVE f[s] \in Device \cup {NoDevice}
    <3> HIDE DEF f
    <3>1. CASE s \in Live(T)
      BY <1>3, <3>1
    <3>2. CASE s \notin Live(T)
      BY <3>2 DEF f, Live
    <3> QED
      BY <3>1, <3>2
  <2> QED
    BY <2>1
<1>5. \A s \in Slugs : T.dev[s] = NoDevice => f[s] = NoDevice
  BY DEF Live
<1> HIDE DEF f, changed
<1>6. K \in Frame(T) /\ K \in Stores
  BY <1>3, <1>4, <1>5, DeviceIsLive, DevicesFrame DEF Frame
<1>7. Live(K) = Live(T)
  BY <1>6 DEF Frame, Same
<1> HIDE DEF K
<1>8. B \in Frame(K) /\ B \in Stores
  BY <1>2, <1>6, <1>7, BumpEachFrame DEF Frame
<1> HIDE DEF B
<1>9. Touch(B, changed) \in Frame(B)
  BY <1>2, <1>8, FrameFacts
<1> QED
  BY <1>1, <1>6, <1>8, <1>9, FrameTrans

-----------------------------------------------------------------------------
(* Operations that change the ownership of info commands                   *)

\* No command waits to be removed that some device owns; none has two owners;
\* the index has the owner of each.
Clean(T) == \A c \in Cmds, s \in Slugs : c \in Pend(T, s) => Owners(T, c) = {}
Single(T) == \A c \in Cmds : \A s, k \in Owners(T, c) : s = k
Indexed(T) == \A c \in Cmds : T.index[c] = IF Owners(T, c) = {} THEN 0 ELSE Min(Owners(T, c))

\* The commands the store has not forgotten: owned, or still to be removed.
Known(T) == {c \in Cmds : Owners(T, c) # {} \/ \E s \in Slugs : c \in Pend(T, s)}

LEMMA SameOwners ==
    ASSUME NEW T, NEW U, Alike(T, U)
    PROVE  /\ \A c \in Cmds : Owners(U, c) = Owners(T, c)
           /\ Clean(T) => Clean(U)
           /\ Single(T) => Single(U)
           /\ Indexed(T) => Indexed(U)
           /\ Known(U) = Known(T)
<1>1. \A c \in Cmds : Owners(U, c) = Owners(T, c)
  BY DEF Alike, Owners
<1>2. U.index = T.index /\ \A s \in Slugs : Pend(U, s) = Pend(T, s)
  BY DEF Alike
<1>3. Known(U) = Known(T)
  BY <1>1, <1>2 DEF Known
<1> QED
  BY <1>1, <1>2, <1>3 DEF Clean, Single, Indexed

LEMMA LeastSlug ==
    ASSUME NEW S \in SUBSET Slugs, S # {}
    PROVE  Min(S) \in S
BY LeastOf, SlugsAreNumbers

LEMMA OnlyOne == ASSUME NEW i \in Nat PROVE Min({i}) = i
BY DEF Min

LEMMA RebuildFacts ==
    ASSUME NEW T \in Stores
    PROVE  /\ RebuildIndexes(T) \in Stores /\ Live(RebuildIndexes(T)) = Live(T) /\ Indexed(RebuildIndexes(T))
           /\ Clean(T) => Clean(RebuildIndexes(T))
           /\ Single(T) => Single(RebuildIndexes(T))
           /\ Known(RebuildIndexes(T)) = Known(T)
           /\ Counted(T, RebuildIndexes(T)) /\ Settled(RebuildIndexes(T))
<1> DEFINE I == [c \in Cmds |-> IF Owners(T, c) = {} THEN 0 ELSE Min(Owners(T, c))]
           E == [e \in DOMAIN T.eqs |-> LET of == {s \in Live(T) : T.dev[s].jid = e}
                                        IN  IF of = {} THEN 0 ELSE Min(of)]
           R == [T EXCEPT !.index = I, !.eqs = E]
<1>1. RebuildIndexes(T) = EnsureRevisions(R)
  BY DEF RebuildIndexes
<1>2. I \in [Cmds -> Slugs \cup {0}]
  <2> SUFFICES ASSUME NEW c \in Cmds, Owners(T, c) # {} PROVE Min(Owners(T, c)) \in Slugs
    OBVIOUS
  <2>1. Owners(T, c) \in SUBSET Slugs
    BY DEF Owners
  <2> QED
    BY <2>1, LeastSlug
<1>3. E \in [Eqs -> Slugs \cup {0}]
  <2>1. DOMAIN T.eqs = Eqs
    BY DEF Stores
  <2> SUFFICES ASSUME NEW e \in Eqs, {s \in Live(T) : T.dev[s].jid = e} # {}
               PROVE  Min({s \in Live(T) : T.dev[s].jid = e}) \in Slugs
    BY <2>1
  <2> DEFINE of == {s \in Live(T) : T.dev[s].jid = e}
  <2>2. of \in SUBSET Slugs /\ of # {}
    BY DEF Live
  <2> HIDE DEF of
  <2>3. Min(of) \in Slugs
    BY <2>2, LeastSlug
  <2> QED
    BY <2>3 DEF of
<1> HIDE DEF I, E
<1>4. R \in Stores /\ R.dev = T.dev /\ R.index = I /\ R.next = T.next /\ R.log = T.log
  BY <1>2, <1>3 DEF Stores
<1> HIDE DEF R
<1>5. /\ Live(R) = Live(T) /\ \A c \in Cmds : Owners(R, c) = Owners(T, c)
      /\ \A s \in Slugs : Pend(R, s) = Pend(T, s)
  BY <1>4 DEF Live, Owners, Has, Pend
<1>6. Indexed(R) /\ (Clean(T) => Clean(R)) /\ (Single(T) => Single(R)) /\ Known(R) = Known(T)
  <2>1. Indexed(R)
    BY <1>4, <1>5 DEF Indexed, I
  <2>2. Known(R) = Known(T)
    BY <1>5 DEF Known
  <2> QED
    BY <1>5, <2>1, <2>2 DEF Clean, Single
<1>7. EnsureRevisions(R) \in Frame(R) /\ Settled(EnsureRevisions(R))
  BY <1>4, EnsureRevisionsFrame
<1>8. Counted(T, R)
  BY <1>4, <1>5 DEF Counted, Live
<1> DEFINE N == EnsureRevisions(R)
<1> HIDE DEF N
<1>9. N \in Stores /\ Live(N) = Live(R) /\ Alike(R, N) /\ Counted(R, N) /\ Settled(N)
  BY <1>7 DEF Frame, Same, N
<1>10. Counted(T, N)
  BY <1>8, <1>9, CountedFacts
<1>11. Indexed(N) /\ (Clean(T) => Clean(N)) /\ (Single(T) => Single(N)) /\ Known(N) = Known(T)
  BY <1>6, <1>9, SameOwners
<1> QED
  BY <1>1, <1>5, <1>9, <1>10, <1>11 DEF N

\* After target has taken c, nobody else has it and nobody waits to remove it.
LEMMA TakeCommandFacts ==
    ASSUME NEW T \in Stores, NEW c \in Cmds, NEW target \in Slugs
    PROVE  LET U == TakeCommand(T, c, target) IN
           /\ U \in Stores /\ Live(U) = Live(T)
           /\ \A s \in Slugs : /\ Pend(U, s) = Pend(T, s) \ {c}
                               /\ \A d \in Cmds : Has(U, s, d) <=> Has(T, s, d) /\ (d # c \/ s = target)
           /\ \A d \in Cmds \ {c} : U.index[d] = T.index[d]
           /\ Counted(T, U)
<1> DEFINE waiting == {s \in Live(T) : c \in T.dev[s].pend}
           moved == (waiting \cup Owners(T, c)) \ {target}
           dv(s) == [T.dev[s] EXCEPT !.pend = T.dev[s].pend \ {c},
                                     !.cmds[c] = IF s = target THEN T.dev[s].cmds[c] ELSE "none"]
           f == [s \in Slugs |-> IF T.dev[s] = NoDevice THEN NoDevice ELSE dv(s)]
           ix == IF T.index[c] = target THEN target ELSE 0
           K == [T EXCEPT !.dev = f, !.index[c] = ix]
<1>1. TakeCommand(T, c, target) = Touch(BumpEach(K, moved), moved)
  BY DEF TakeCommand
<1>2. moved \in SUBSET Live(T) /\ moved \in SUBSET Slugs
  BY DEF Live, Owners, Has
<1>3. ASSUME NEW s \in Live(T)
      PROVE  /\ dv(s) \in Device /\ dv(s).pend = T.dev[s].pend \ {c} /\ dv(s).rev = T.dev[s].rev
             /\ \A d \in Cmds : dv(s).cmds[d] = IF d # c \/ s = target THEN T.dev[s].cmds[d] ELSE "none"
  <2>1. T.dev[s] \in Device /\ s \in Slugs
    BY <1>3, LiveDevice
  <2> DEFINE P == T.dev[s].pend \ {c}
             how == IF s = target THEN T.dev[s].cmds[c] ELSE "none"
             C == [T.dev[s].cmds EXCEPT ![c] = how]
  <2>2. P \in SUBSET Cmds /\ how \in {"none", "event", "discovered"}
    BY <2>1 DEF Device
  <2>3. C \in [Cmds -> {"none", "event", "discovered"}] /\ \A d \in Cmds : C[d] = IF d = c THEN how ELSE T.dev[s].cmds[d]
    <3> HIDE DEF how
    <3> QED
      BY <2>1, <2>2 DEF Device
  <2>4. dv(s) = [T.dev[s] EXCEPT !.pend = P, !.cmds = C]
    OBVIOUS
  <2> HIDE DEF P, C
  <2>5. [T.dev[s] EXCEPT !.pend = P, !.cmds = C] \in Device
        /\ [T.dev[s] EXCEPT !.pend = P, !.cmds = C].pend = P
        /\ [T.dev[s] EXCEPT !.pend = P, !.cmds = C].cmds = C
        /\ [T.dev[s] EXCEPT !.pend = P, !.cmds = C].rev = T.dev[s].rev
    BY <2>1, <2>2, <2>3 DEF Device
  <2> HIDE DEF dv
  <2> QED
    BY <2>3, <2>4, <2>5 DEF P
<1> HIDE DEF dv
<1>4. f \in [Slugs -> Device \cup {NoDevice}]
  BY <1>3 DEF Live
<1>5. ix \in Slugs \cup {0}
  OBVIOUS
<1> HIDE DEF ix
<1>6. K \in Stores /\ K.dev = f /\ K.next = T.next /\ K.log = T.log /\ \A d \in Cmds \ {c} : K.index[d] = T.index[d]
  <2> HIDE DEF f
  <2> QED
    BY <1>4, <1>5 DEF Stores
<1> HIDE DEF K
<1>7. /\ Live(K) = Live(T)
      /\ \A s \in Slugs : /\ Pend(K, s) = Pend(T, s) \ {c}
                          /\ \A d \in Cmds : Has(K, s, d) <=> Has(T, s, d) /\ (d # c \/ s = target)
  BY <1>3, <1>6, DeviceIsLive DEF Live, Pend, Has
<1>8. BumpEach(K, moved) \in Frame(K) /\ BumpEach(K, moved) \in Stores
  BY <1>2, <1>6, <1>7, BumpEachFrame DEF Frame
<1>9. Touch(BumpEach(K, moved), moved) \in Frame(K)
  BY <1>2, <1>8, FrameFacts, FrameTrans
<1>10. Counted(T, K)
  BY <1>3, <1>6, <1>7 DEF Counted, Live
<1> DEFINE U == Touch(BumpEach(K, moved), moved)
<1> HIDE DEF U
<1>11. U \in Stores /\ Live(U) = Live(K) /\ Alike(K, U) /\ Counted(K, U)
  BY <1>9 DEF Frame, Same, U
<1>12. Counted(T, U)
  BY <1>10, <1>11, CountedFacts
<1>13. TakeCommand(T, c, target) = U
  BY <1>1 DEF U
<1> QED
  BY <1>6, <1>7, <1>11, <1>12, <1>13 DEF Alike

\* G is T after target was given c.
GivenTo(T, c, target, G) ==
    /\ G \in Stores /\ Live(G) = Live(T) /\ Counted(T, G) /\ G.index[c] = target
    /\ \A s \in Slugs : /\ Pend(G, s) = Pend(T, s) \ {c}
                        /\ \A d \in Cmds : Has(G, s, d) <=> IF d = c THEN s = target ELSE Has(T, s, d)
    /\ \A d \in Cmds \ {c} : G.index[d] = T.index[d]

LEMMA GiveFacts ==
    ASSUME NEW T \in Stores, NEW c \in Cmds, NEW target \in Live(T), NEW how \in {"event", "discovered"}
    PROVE  GivenTo(T, c, target, Give(T, c, target, how))
<1> DEFINE U == TakeCommand(T, c, target)
           d == [U.dev[target] EXCEPT !.cmds[c] = how]
           f == [U.dev EXCEPT ![target] = d]
           ix == [U.index EXCEPT ![c] = target]
           G == Give(T, c, target, how)
<1>1. target \in Slugs
  BY LiveDevice
<1>2. /\ U \in Stores /\ Live(U) = Live(T) /\ target \in Live(U) /\ Counted(T, U)
      /\ \A s \in Slugs : /\ Pend(U, s) = Pend(T, s) \ {c}
                          /\ \A k \in Cmds : Has(U, s, k) <=> Has(T, s, k) /\ (k # c \/ s = target)
      /\ \A k \in Cmds \ {c} : U.index[k] = T.index[k]
  BY <1>1, TakeCommandFacts
<1>3. G = [U EXCEPT !.dev = f, !.index = ix]
  BY DEF Give
<1> HIDE DEF U
<1>4. /\ d \in Device /\ d.pend = U.dev[target].pend /\ d.rev = U.dev[target].rev
      /\ \A k \in Cmds : d.cmds[k] = IF k = c THEN how ELSE U.dev[target].cmds[k]
  <2> DEFINE C == [U.dev[target].cmds EXCEPT ![c] = how]
  <2>1. U.dev[target] \in Device
    BY <1>2, LiveDevice
  <2>2. C \in [Cmds -> {"none", "event", "discovered"}] /\ \A k \in Cmds : C[k] = IF k = c THEN how ELSE U.dev[target].cmds[k]
    BY <2>1 DEF Device
  <2>3. d = [U.dev[target] EXCEPT !.cmds = C]
    OBVIOUS
  <2> HIDE DEF C
  <2>4. [U.dev[target] EXCEPT !.cmds = C] \in Device /\ [U.dev[target] EXCEPT !.cmds = C].cmds = C
        /\ [U.dev[target] EXCEPT !.cmds = C].pend = U.dev[target].pend
        /\ [U.dev[target] EXCEPT !.cmds = C].rev = U.dev[target].rev
    BY <2>1, <2>2 DEF Device
  <2> HIDE DEF d
  <2> QED
    BY <2>2, <2>3, <2>4
<1> HIDE DEF d
<1>5. f \in [Slugs -> Device \cup {NoDevice}] /\ ix \in [Cmds -> Slugs \cup {0}] /\ U.dev \in [Slugs -> Device \cup {NoDevice}]
      /\ U.index \in [Cmds -> Slugs \cup {0}]
  BY <1>1, <1>2, <1>4 DEF Stores
<1>6. /\ \A s \in Slugs : f[s] = IF s = target THEN d ELSE U.dev[s]
      /\ \A k \in Cmds : ix[k] = IF k = c THEN target ELSE U.index[k]
  BY <1>1, <1>5
<1> HIDE DEF f, ix
<1>7. G \in Stores /\ G.dev = f /\ G.index = ix /\ G.next = U.next /\ G.log = U.log
  <2> HIDE DEF G
  <2> QED
    BY <1>2, <1>3, <1>5 DEF Stores
<1> HIDE DEF G
<1>8. d # NoDevice /\ U.dev[target] # NoDevice
  BY <1>2, <1>4, DeviceIsLive, LiveDevice
<1>9. Live(G) = Live(U)
  BY <1>1, <1>6, <1>7, <1>8 DEF Live
<1>10. ASSUME NEW s \in Slugs
       PROVE  /\ Pend(G, s) = Pend(U, s)
              /\ \A k \in Cmds : Has(G, s, k) <=> IF k = c /\ s = target THEN TRUE ELSE Has(U, s, k)
  <2>1. CASE s = target
    BY <1>4, <1>6, <1>7, <1>8, <2>1 DEF Pend, Has
  <2>2. CASE s # target
    BY <1>6, <1>7, <2>2 DEF Pend, Has
  <2> QED
    BY <2>1, <2>2
<1>11. \A s \in Slugs : /\ Pend(G, s) = Pend(T, s) \ {c}
                        /\ \A k \in Cmds : Has(G, s, k) <=> IF k = c THEN s = target ELSE Has(T, s, k)
  BY <1>2, <1>10
<1>12. G.index[c] = target /\ \A k \in Cmds \ {c} : G.index[k] = T.index[k]
  BY <1>2, <1>6, <1>7
<1>13. Counted(T, G)
  <2>1. Counted(U, G)
    BY <1>4, <1>6, <1>7, <1>9 DEF Counted, Live
  <2> QED
    BY <1>2, <2>1, CountedFacts
<1> QED
  BY <1>2, <1>7, <1>9, <1>11, <1>12, <1>13 DEF GivenTo, G

LEMMA GivenKeeps ==
    ASSUME NEW T, NEW c \in Cmds, NEW target \in Slugs, NEW G, GivenTo(T, c, target, G)
    PROVE  /\ Owners(G, c) = {target} /\ \A d \in Cmds \ {c} : Owners(G, d) = Owners(T, d)
           /\ Clean(T) => Clean(G)
           /\ Single(T) => Single(G)
           /\ Indexed(T) => Indexed(G)
           /\ Known(T) \subseteq Known(G)
<1>1. Owners(G, c) = {target} /\ \A d \in Cmds \ {c} : Owners(G, d) = Owners(T, d)
  BY DEF GivenTo, Owners
<1>2. Clean(T) => Clean(G)
  BY <1>1 DEF Clean, GivenTo
<1>3. Single(T) => Single(G)
  BY <1>1 DEF Single
<1>4. Indexed(T) => Indexed(G)
  <2>1. Min({target}) = target
    BY OnlyOne, SlugsAreNumbers
  <2> QED
    BY <1>1, <2>1 DEF Indexed, GivenTo
<1>5. Known(T) \subseteq Known(G)
  BY <1>1 DEF Known, GivenTo
<1> QED
  BY <1>1, <1>2, <1>3, <1>4, <1>5

\* The stores an operation may lead to from T: as well owned, with T's devices,
\* and without forgetting a command; and those of them still to be numbered.
Keeping(T) == {U \in Stores : /\ Live(T) \subseteq Live(U)
                              /\ Clean(T) => Clean(U)
                              /\ Single(T) => Single(U)
                              /\ Indexed(T) => Indexed(U)
                              /\ Known(T) \subseteq Known(U)}
Owning(T) == {U \in Keeping(T) : Counted(T, U)}

LEMMA KeepingFacts ==
    /\ \A T, U : Alike(T, U) => U \in Keeping(T)
    /\ \A T, U, V : U \in Keeping(T) /\ V \in Keeping(U) => V \in Keeping(T)
<1>1. ASSUME NEW T, NEW U, Alike(T, U) PROVE U \in Keeping(T)
  <2>1. U \in Stores /\ Live(T) \subseteq Live(U)
    BY <1>1 DEF Alike
  <2> QED
    BY <1>1, <2>1, SameOwners DEF Keeping
<1>2. \A T, U, V : U \in Keeping(T) /\ V \in Keeping(U) => V \in Keeping(T)
  BY DEF Keeping
<1> QED
  BY <1>1, <1>2

LEMMA OwningFacts ==
    /\ \A T \in Stores : T \in Owning(T)
    /\ \A T : Grown(T) \subseteq Owning(T) /\ Frame(T) \subseteq Owning(T)
    /\ \A T, U, V : U \in Owning(T) /\ V \in Owning(U) => V \in Owning(T)
    /\ \A T, U : U \in Owning(T) => U \in Stores /\ Live(T) \subseteq Live(U) /\ Counted(T, U)
<1>1. \A T : Grown(T) \subseteq Owning(T)
  BY KeepingFacts DEF Grown, Owning, Same
<1>2. \A T : Frame(T) \subseteq Grown(T)
  BY GrownFacts
<1>3. \A T, U, V : U \in Owning(T) /\ V \in Owning(U) => V \in Owning(T)
  BY KeepingFacts, CountedFacts DEF Owning
<1>4. \A T \in Stores : T \in Owning(T)
  BY <1>1, GrownFacts
<1> QED
  BY <1>1, <1>2, <1>3, <1>4 DEF Owning, Keeping

LEMMA GiveOwning ==
    ASSUME NEW T \in Stores, NEW c \in Cmds, NEW target \in Live(T), NEW how \in {"event", "discovered"}
    PROVE  Give(T, c, target, how) \in Owning(T)
<1>1. target \in Slugs
  BY LiveDevice
<1>2. GivenTo(T, c, target, Give(T, c, target, how))
  BY GiveFacts
<1> DEFINE G == Give(T, c, target, how)
<1> HIDE DEF G
<1>3. GivenTo(T, c, target, G)
  BY <1>2 DEF G
<1>4. G \in Owning(T)
  BY <1>1, <1>3, GivenKeeps DEF Owning, Keeping, GivenTo
<1> QED
  BY <1>4 DEF G

LEMMA RehomeCommandOwning ==
    ASSUME NEW T \in Stores, NEW r \in Resolvers, NEW s \in Live(T), NEW c \in Cmds,
           Resolve(r, c, s) # 0
    PROVE  RehomeCommand(T, r, s, c) \in Owning(T)
<1> DEFINE target == Resolve(r, c, s)
           how == Provenance(T, c)
           A == EnsureIdentityDevice(T, target)
           U == Give(A, c, target, how)
           e == IF U.dev[target].jid = 0 /\ how = "discovered" THEN EqOf[c] ELSE U.dev[target].jid
           V == [U EXCEPT !.dev[target].jid = e]
<1>1. s \in Slugs /\ target \in Slugs /\ how \in {"event", "discovered"}
  BY LiveDevice, ResolveTypes DEF Provenance
<1>2. RehomeCommand(T, r, s, c) \in {T, Touch(Bump(V, target), {s, target})}
  BY DEF RehomeCommand
<1> HIDE DEF target, how
<1>3. A \in Owning(T) /\ A \in Stores /\ target \in Live(A)
  BY <1>1, EnsureGrown, OwningFacts, GrownFacts
<1> HIDE DEF A
<1>4. U \in Owning(T) /\ U \in Stores /\ target \in Live(U)
  <2>1. U \in Owning(A)
    BY <1>1, <1>3, GiveOwning
  <2> HIDE DEF U
  <2> QED
    BY <1>3, <2>1, OwningFacts
<1> HIDE DEF U
<1>5. e \in Eqs \cup {0}
  BY <1>4, LiveDevice, IdsHaveEquipment DEF Device
<1> HIDE DEF e
<1>6. V \in Frame(U)
  BY <1>4, <1>5, JidFrame
<1> HIDE DEF V
<1>7. Touch(Bump(V, target), {s, target}) \in Frame(U)
  BY <1>1, <1>4, <1>6, BumpTouchFrame
<1> QED
  BY <1>2, <1>4, <1>7, OwningFacts

\* The loop over the info commands of one device.
RehomeCommandsOf(T, r, s, U) ==
    InOrder(LAMBDA W, c : RehomeCommand(W, r, s, c), U,
            {c \in Cmds : Has(T, s, c) /\ Resolve(r, c, s) \notin {0, s}})

LEMMA CmdsAreFinite ==
    ASSUME NEW S \in SUBSET Cmds
    PROVE  S \in SUBSET Nat /\ IsFiniteSet(S)
BY IdsAreNumbers, FS_Subset

LEMMA RehomeCommandsOfOwning ==
    ASSUME NEW T \in Stores, NEW r \in Resolvers, NEW s \in Live(T), NEW U \in Owning(T)
    PROVE  RehomeCommandsOf(T, r, s, U) \in Owning(T)
<1> DEFINE X == Owning(T)
           S == {c \in Cmds : Has(T, s, c) /\ Resolve(r, c, s) \notin {0, s}}
           F == [p \in X \X S |-> RehomeCommand(p[1], r, s, p[2])]
           iter == CHOOSE g : g = [V \in SUBSET S |->
                      IF V = {} THEN U ELSE RehomeCommand(g[V \ {Max(V)}], r, s, Max(V))]
<1>1. RehomeCommandsOf(T, r, s, U) = iter[S]
  BY DEF RehomeCommandsOf, InOrder, MapThenFoldSet
<1>2. S \in SUBSET Nat /\ IsFiniteSet(S) /\ U \in X
  <2>1. S \in SUBSET Cmds
    OBVIOUS
  <2> QED
    BY <2>1, CmdsAreFinite
<1>3. \A W \in X, c \in S : RehomeCommand(W, r, s, c) \in X
  <2> TAKE W \in X, c \in S
  <2>1. W \in Stores /\ s \in Live(W)
    BY OwningFacts
  <2>2. c \in Cmds /\ Resolve(r, c, s) # 0
    OBVIOUS
  <2>3. RehomeCommand(W, r, s, c) \in Owning(W)
    BY <2>1, <2>2, RehomeCommandOwning
  <2> QED
    BY <2>3, OwningFacts
<1>4. iter = [V \in SUBSET S |-> IF V = {} THEN U ELSE RehomeCommand(iter[V \ {Max(V)}], r, s, Max(V))]
  <2>1. F \in [X \X S -> X]
    BY <1>3
  <2>2. PICK g \in [SUBSET S -> X] : Stages(g, S, U, F)
    <3> HIDE DEF F, X, S
    <3> QED
      BY <1>2, <2>1, LoopExists
  <2>3. g = [V \in SUBSET S |-> IF V = {} THEN U ELSE RehomeCommand(g[V \ {Max(V)}], r, s, Max(V))]
    <3>1. ASSUME NEW V \in SUBSET S, V # {}
          PROVE  F[<<g[V \ {Max(V)}], Max(V)>>] = RehomeCommand(g[V \ {Max(V)}], r, s, Max(V))
      <4> HIDE DEF X, S
      <4>1. g[V \ {Max(V)}] \in X /\ Max(V) \in S
        BY <1>2, <3>1, LastInside
      <4> QED
        BY <4>1
    <3> HIDE DEF F, X, S
    <3> QED
      BY <2>2, <3>1 DEF Stages
  <2> QED
    BY <2>3
<1> HIDE DEF iter, X, S
<1>5. iter[{}] \in X
  BY <1>2, <1>4
<1>6. ASSUME NEW V \in SUBSET S, V # {}, Max(V) \in S, iter[V \ {Max(V)}] \in X PROVE iter[V] \in X
  BY <1>3, <1>4, <1>6
<1>7. iter[S] \in X
  BY <1>2, <1>5, <1>6, LoopStays
<1> QED
  BY <1>1, <1>7 DEF X

LEMMA RehomeCommandsOwning ==
    ASSUME NEW T \in Stores, NEW r \in Resolvers
    PROVE  RehomeCommands(T, r) \in Owning(T)
<1> DEFINE X == Owning(T)
           S == Live(T)
           F == [p \in X \X S |-> RehomeCommandsOf(T, r, p[2], p[1])]
           iter == CHOOSE g : g = [V \in SUBSET S |->
                      IF V = {} THEN T ELSE RehomeCommandsOf(T, r, Max(V), g[V \ {Max(V)}])]
<1>1. RehomeCommands(T, r) = iter[S]
  BY DEF RehomeCommands, RehomeCommandsOf, InOrder, MapThenFoldSet
<1>2. S \in SUBSET Nat /\ IsFiniteSet(S) /\ T \in X
  BY LiveIsFinite, OwningFacts DEF Live
<1>3. \A U \in X, s \in S : RehomeCommandsOf(T, r, s, U) \in X
  BY RehomeCommandsOfOwning
<1>4. iter = [V \in SUBSET S |-> IF V = {} THEN T ELSE RehomeCommandsOf(T, r, Max(V), iter[V \ {Max(V)}])]
  <2>1. F \in [X \X S -> X]
    BY <1>3
  <2>2. PICK g \in [SUBSET S -> X] : Stages(g, S, T, F)
    <3> HIDE DEF F, X, S
    <3> QED
      BY <1>2, <2>1, LoopExists
  <2>3. g = [V \in SUBSET S |-> IF V = {} THEN T ELSE RehomeCommandsOf(T, r, Max(V), g[V \ {Max(V)}])]
    <3>1. ASSUME NEW V \in SUBSET S, V # {}
          PROVE  F[<<g[V \ {Max(V)}], Max(V)>>] = RehomeCommandsOf(T, r, Max(V), g[V \ {Max(V)}])
      <4> HIDE DEF X, S
      <4>1. g[V \ {Max(V)}] \in X /\ Max(V) \in S
        BY <1>2, <3>1, LastInside
      <4> QED
        BY <4>1
    <3> HIDE DEF F, X, S
    <3> QED
      BY <2>2, <3>1 DEF Stages
  <2> QED
    BY <2>3
<1> HIDE DEF iter, X, S
<1>5. iter[{}] \in X
  BY <1>2, <1>4
<1>6. ASSUME NEW V \in SUBSET S, V # {}, Max(V) \in S, iter[V \ {Max(V)}] \in X PROVE iter[V] \in X
  BY <1>3, <1>4, <1>6
<1>7. iter[S] \in X
  BY <1>2, <1>5, <1>6, LoopStays
<1> QED
  BY <1>1, <1>7 DEF X

\* A command that two devices have is left to one of them.
LEMMA DeduplicateCommandFacts ==
    ASSUME NEW T \in Stores, NEW c \in Cmds
    PROVE  LET U == DeduplicateCommand(T, c) IN
           /\ U \in Stores /\ Live(T) \subseteq Live(U)
           /\ Clean(T) => Clean(U)
           /\ Known(T) \subseteq Known(U)
           /\ Counted(T, U)
           /\ \A s, k \in Owners(U, c) : s = k
           /\ \A d \in Cmds \ {c} : Owners(U, d) = Owners(T, d)
<1> DEFINE own(s) == T.dev[s].cmds[c] = "discovered" /\ T.dev[s].jid = EqOf[c]
           first == {s \in Owners(T, c) : own(s)}
           winner == IF first # {} THEN Min(first) ELSE Min(Owners(T, c))
           how == T.dev[winner].cmds[c]
           G == Give(T, c, winner, how)
           K == [G EXCEPT !.touched = T.touched]
           U == DeduplicateCommand(T, c)
<1>1. U = IF Cardinality(Owners(T, c)) < 2 THEN T ELSE Bump(K, winner)
  BY DEF DeduplicateCommand
<1>2. Owners(T, c) \in SUBSET Slugs /\ first \in SUBSET Owners(T, c) /\ first \in SUBSET Slugs
  BY DEF Owners
<1>3. IsFiniteSet(Owners(T, c))
  BY <1>2, SlugsAreNumbers, FS_Subset
<1> HIDE DEF U, first
<1>4. CASE Cardinality(Owners(T, c)) < 2
  <2>1. \A s, k \in Owners(T, c) : s = k
    <3>0. SUFFICES ASSUME NEW s \in Owners(T, c), NEW k \in Owners(T, c), s # k PROVE FALSE
      OBVIOUS
    <3>1. {s, k} \in SUBSET Owners(T, c)
      OBVIOUS
    <3>2. Cardinality({s, k}) = 2
      <4>1. IsFiniteSet({s}) /\ Cardinality({s}) = 1
        BY FS_Singleton
      <4>2. Cardinality({s} \cup {k}) = 2
        BY <3>0, <4>1, FS_AddElement
      <4>3. {s, k} = {s} \cup {k}
        OBVIOUS
      <4> QED
        BY <4>2, <4>3
    <3>3. Cardinality({s, k}) <= Cardinality(Owners(T, c)) /\ Cardinality(Owners(T, c)) \in Nat
      BY <1>3, <3>1, FS_Subset, FS_CardinalityType
    <3> QED
      BY <1>4, <3>2, <3>3
  <2> QED
    BY <1>1, <1>4, <2>1, CountedFacts DEF U
<1>5. CASE ~(Cardinality(Owners(T, c)) < 2)
  <2>1. Owners(T, c) # {}
    BY <1>5, FS_EmptySet
  <2>2. winner \in Owners(T, c)
    BY <1>2, <2>1, LeastSlug
  <2> HIDE DEF winner
  <2>3. winner \in Live(T) /\ how \in {"event", "discovered"} /\ T.touched \in SUBSET Slugs
    <3>1. winner \in Live(T) /\ how # "none"
      BY <2>2 DEF Owners, Has, Live
    <3>2. T.dev[winner] \in Device
      BY <3>1, LiveDevice
    <3> QED
      BY <3>1, <3>2 DEF Device, Stores
  <2> HIDE DEF how
  <2>4. GivenTo(T, c, winner, G)
    BY <2>3, GiveFacts
  <2> HIDE DEF G
  <2>5. G \in Stores /\ winner \in Slugs /\ winner \in Live(G) /\ Live(G) = Live(T)
    BY <2>3, <2>4, LiveDevice DEF GivenTo
  <2>6. K \in Frame(G)
    BY <2>3, <2>5, TouchedFrame
  <2> HIDE DEF K
  <2>7. Bump(K, winner) \in Frame(G)
    <3>1. K \in Stores /\ winner \in Live(K)
      BY <2>5, <2>6 DEF Frame
    <3> QED
      BY <2>6, <3>1, FrameFacts, FrameTrans
  <2>8. U \in Stores /\ Alike(G, U) /\ Live(U) = Live(T) /\ Counted(T, U)
    <3>1. Counted(T, G)
      BY <2>4 DEF GivenTo
    <3>2. U \in Stores /\ Alike(G, U) /\ Live(U) = Live(T) /\ Counted(G, U)
      BY <1>1, <1>5, <2>5, <2>7 DEF Frame, Same
    <3> QED
      BY <3>1, <3>2, CountedFacts
  <2>9. /\ Owners(G, c) = {winner} /\ \A d \in Cmds \ {c} : Owners(G, d) = Owners(T, d)
        /\ Clean(T) => Clean(G)
        /\ Known(T) \subseteq Known(G)
    BY <2>4, <2>5, GivenKeeps
  <2>10. (\A d \in Cmds : Owners(U, d) = Owners(G, d)) /\ (Clean(G) => Clean(U)) /\ Known(U) = Known(G)
    BY <2>8, SameOwners
  <2> QED
    BY <2>8, <2>9, <2>10 DEF U
<1> QED
  BY <1>4, <1>5

\* The stores in which the commands of V have one owner each.
Deduped(T, V) == {U \in Stores : /\ Live(T) \subseteq Live(U)
                                 /\ Clean(T) => Clean(U)
                                 /\ Known(T) \subseteq Known(U)
                                 /\ Counted(T, U)
                                 /\ \A c \in V : \A s, k \in Owners(U, c) : s = k}

LEMMA OneDeduped ==
    ASSUME NEW T \in Stores, NEW V \in SUBSET Cmds, NEW U \in Deduped(T, V), NEW c \in Cmds
    PROVE  DeduplicateCommand(U, c) \in Deduped(T, V \cup {c})
<1>1. U \in Stores /\ Live(T) \subseteq Live(U) /\ (Clean(T) => Clean(U)) /\ Known(T) \subseteq Known(U)
      /\ Counted(T, U)
      /\ \A d \in V : \A s, k \in Owners(U, d) : s = k
  BY DEF Deduped
<1> DEFINE W == DeduplicateCommand(U, c)
<1>2. /\ W \in Stores /\ Live(U) \subseteq Live(W)
      /\ Clean(U) => Clean(W)
      /\ Known(U) \subseteq Known(W)
      /\ Counted(U, W)
      /\ \A s, k \in Owners(W, c) : s = k
      /\ \A d \in Cmds \ {c} : Owners(W, d) = Owners(U, d)
  BY <1>1, DeduplicateCommandFacts
<1> HIDE DEF W
<1>3. \A d \in V \cup {c} : \A s, k \in Owners(W, d) : s = k
  BY <1>1, <1>2
<1>4. W \in Deduped(T, V \cup {c})
  BY <1>1, <1>2, <1>3, CountedFacts DEF Deduped
<1> QED
  BY <1>4 DEF W

LEMMA DeduplicateCommandOwnersFacts ==
    ASSUME NEW T \in Stores
    PROVE  DeduplicateCommandOwners(T) \in Deduped(T, Cmds)
<1> DEFINE X == Deduped(T, {})
           S == Cmds
           F == [p \in X \X S |-> DeduplicateCommand(p[1], p[2])]
           iter == CHOOSE g : g = [V \in SUBSET S |->
                      IF V = {} THEN T ELSE DeduplicateCommand(g[V \ {Max(V)}], Max(V))]
<1>1. DeduplicateCommandOwners(T) = iter[S]
  BY DEF DeduplicateCommandOwners, InOrder, MapThenFoldSet
<1>2. S \in SUBSET Nat /\ IsFiniteSet(S) /\ T \in X
  <2>1. Counted(T, T)
    BY CountedFacts
  <2>2. T \in X
    BY <2>1 DEF Deduped
  <2> HIDE DEF X
  <2> QED
    BY <2>2, CmdsAreFinite
<1>3. \A V \in SUBSET S : \A U \in Deduped(T, V), c \in S : DeduplicateCommand(U, c) \in Deduped(T, V \cup {c})
  <2> HIDE DEF X, F, iter
  <2>1. ASSUME NEW V \in SUBSET S, NEW U \in Deduped(T, V), NEW c \in S
        PROVE  DeduplicateCommand(U, c) \in Deduped(T, V \cup {c})
    BY OneDeduped
  <2> HIDE DEF S
  <2> QED
    BY <2>1, Zenon
<1>3a. \A V \in SUBSET S : Deduped(T, V) \subseteq X
  BY DEF Deduped
<1>3b. \A U \in X, c \in S : DeduplicateCommand(U, c) \in X
  <2> TAKE U \in X, c \in S
  <2>1. DeduplicateCommand(U, c) \in Deduped(T, {} \cup {c})
    BY <1>3
  <2> HIDE DEF X
  <2> QED
    BY <1>3a, <2>1
<1>4. iter = [V \in SUBSET S |-> IF V = {} THEN T ELSE DeduplicateCommand(iter[V \ {Max(V)}], Max(V))]
  <2>1. F \in [X \X S -> X]
    BY <1>3b
  <2>2. PICK g \in [SUBSET S -> X] : Stages(g, S, T, F)
    <3> HIDE DEF F, X, S
    <3> QED
      BY <1>2, <2>1, LoopExists
  <2>3. g = [V \in SUBSET S |-> IF V = {} THEN T ELSE DeduplicateCommand(g[V \ {Max(V)}], Max(V))]
    <3>1. ASSUME NEW V \in SUBSET S, V # {}
          PROVE  F[<<g[V \ {Max(V)}], Max(V)>>] = DeduplicateCommand(g[V \ {Max(V)}], Max(V))
      <4> HIDE DEF X, S
      <4>1. g[V \ {Max(V)}] \in X /\ Max(V) \in S
        BY <1>2, <3>1, LastInside
      <4> QED
        BY <4>1
    <3> HIDE DEF F, X, S
    <3> QED
      BY <2>2, <3>1 DEF Stages
  <2> QED
    BY <2>3
<1> DEFINE Y == {p \in (SUBSET S) \X X : p[2] \in Deduped(T, p[1])}
<1>5. <<{}, iter[{}]>> \in Y
  <2> HIDE DEF iter
  <2>1. iter[{}] = T
    BY <1>4
  <2> QED
    BY <1>2, <2>1
<1>6. ASSUME NEW V \in SUBSET S, V # {}, Max(V) \in V, <<V \ {Max(V)}, iter[V \ {Max(V)}]>> \in Y
      PROVE  <<V, iter[V]>> \in Y
  <2> HIDE DEF iter, X
  <2> DEFINE U == iter[V \ {Max(V)}]
             c == Max(V)
  <2>1. U \in Deduped(T, V \ {c}) /\ c \in S /\ V \ {c} \in SUBSET S
    BY <1>6
  <2>2. iter[V] = DeduplicateCommand(U, c)
    BY <1>4, <1>6
  <2> HIDE DEF U, c
  <2>3. iter[V] \in Deduped(T, (V \ {c}) \cup {c})
    BY <1>3, <2>1, <2>2
  <2>4. (V \ {c}) \cup {c} = V
    BY <1>6 DEF c
  <2> QED
    BY <1>3a, <2>3, <2>4
<1>7. <<S, iter[S]>> \in Y
  <2> HIDE DEF iter, X, S, Y
  <2> QED
    BY <1>2, <1>5, <1>6, LoopKeeps
<1>8. iter[S] \in Deduped(T, S)
  BY <1>7
<1> HIDE DEF iter
<1> QED
  BY <1>1, <1>8

\* The passes put every command with one owner, in the index too.
LEMMA PlacedFacts ==
    ASSUME NEW T \in Stores, NEW r \in Resolvers
    PROVE  LET U == Placed(T, r) IN
           /\ U \in Stores /\ Live(T) \subseteq Live(U) /\ Single(U) /\ Indexed(U)
           /\ Clean(T) => Clean(U)
           /\ Known(T) \subseteq Known(U)
           /\ Counted(T, U) /\ Settled(U)
<1> DEFINE A == RehomeCommands(T, r)
           B == RehomeActions(A, r)
           C == ResolveActionCollisions(B, r)
           D == DeduplicateCommandOwners(C)
           E == RemoveCanonicalLegacyAliases(D)
<1>1. Placed(T, r) = RebuildIndexes(E)
  BY DEF Placed
<1>2. A \in Stores /\ A \in Owning(T)
  BY RehomeCommandsOwning, OwningFacts
<1> HIDE DEF A
<1>3. B \in Stores /\ B \in Owning(T)
  BY <1>2, RehomeActionsGrown, OwningFacts
<1> HIDE DEF B
<1>4. C \in Stores /\ C \in Owning(T)
  BY <1>3, ResolveActionCollisionsFrame, OwningFacts
<1> HIDE DEF C
<1>5. D \in Stores /\ Live(C) \subseteq Live(D) /\ Single(D) /\ (Clean(C) => Clean(D))
      /\ Known(C) \subseteq Known(D) /\ Counted(C, D)
  BY <1>4, DeduplicateCommandOwnersFacts DEF Deduped, Single
<1> HIDE DEF D
<1>6. E \in Owning(D) /\ E \in Stores
  BY <1>5, RemoveCanonicalFrame, OwningFacts
<1> HIDE DEF E
<1>7. Live(T) \subseteq Live(E) /\ Single(E) /\ (Clean(T) => Clean(E)) /\ Known(T) \subseteq Known(E)
  BY <1>4, <1>5, <1>6 DEF Owning, Keeping
<1>8. Counted(T, E)
  <2>1. Counted(T, C) /\ Counted(C, D) /\ Counted(D, E)
    BY <1>4, <1>5, <1>6, OwningFacts
  <2> QED
    BY <2>1, CountedFacts
<1> DEFINE U == RebuildIndexes(E)
<1>9. /\ U \in Stores /\ Live(U) = Live(E) /\ Single(U) /\ Indexed(U) /\ (Clean(E) => Clean(U))
      /\ Known(U) = Known(E) /\ Counted(E, U) /\ Settled(U)
  BY <1>6, <1>7, RebuildFacts
<1> HIDE DEF U
<1>10. Counted(T, U)
  BY <1>8, <1>9, CountedFacts
<1> QED
  BY <1>1, <1>7, <1>9, <1>10 DEF U

\* At the end of a call every bumped device has a revision of its own.
LEMMA NumberedFacts ==
    ASSUME NEW T \in Stores
    PROVE  LET U == Numbered(T) IN
           /\ U \in Stores /\ Alike(T, U) /\ Live(U) = Live(T)
           /\ Ranked(T) /\ Settled(T) => Distinct(U)
<1> DEFINE last(s) == CHOOSE i \in DOMAIN T.log :
                         T.log[i] = s /\ \A j \in DOMAIN T.log : T.log[j] = s => j <= i
           f == [s \in Slugs |-> IF s \in ToSet(T.log) /\ T.dev[s] # NoDevice
                                 THEN [T.dev[s] EXCEPT !.rev = T.next + last(s)] ELSE T.dev[s]]
           n == T.next + Len(T.log)
<1>1. Numbered(T) = [T EXCEPT !.dev = f, !.next = n]
  BY DEF Numbered
<1>2. ASSUME NEW s \in ToSet(T.log) PROVE last(s) \in 1..Len(T.log) /\ T.log[last(s)] = s
  <2> DEFINE I == {i \in DOMAIN T.log : T.log[i] = s}
  <2>1. DOMAIN T.log = 1..Len(T.log) /\ Len(T.log) \in Nat
    BY DEF Stores
  <2>2. I # {} /\ I \in SUBSET Nat /\ IsFiniteSet(I)
    <3>1. IsFiniteSet(1..Len(T.log))
      BY <2>1, FS_Interval
    <3>2. IsFiniteSet(I)
      BY <2>1, <3>1, FS_Subset
    <3> QED
      BY <1>2, <2>1, <3>2 DEF ToSet
  <2> DEFINE m == Max(I)
  <2>3. m \in I /\ \A j \in I : m >= j
    <3> HIDE DEF I
    <3> QED
      BY <2>2, GreatestOf
  <2> HIDE DEF m
  <2>4. m \in DOMAIN T.log /\ T.log[m] = s /\ \A j \in DOMAIN T.log : T.log[j] = s => j <= m
    BY <2>1, <2>3
  <2>5. last(s) \in DOMAIN T.log /\ T.log[last(s)] = s
    BY <2>4
  <2> HIDE DEF last
  <2> QED
    BY <2>1, <2>5
<1> HIDE DEF last
<1>3. T.next \in Nat /\ Len(T.log) \in Nat /\ n \in Nat /\ n = T.next + Len(T.log)
  BY DEF Stores
<1> DEFINE v(s) == IF s \in ToSet(T.log) THEN T.next + last(s) ELSE T.dev[s].rev
<1>4. ASSUME NEW s \in Live(T)
      PROVE  f[s] \in Device /\ f[s].cmds = T.dev[s].cmds /\ f[s].pend = T.dev[s].pend /\ f[s].rev = v(s)
  <2>1. T.dev[s] \in Device /\ s \in Slugs /\ T.dev[s] # NoDevice
    BY <1>4, LiveDevice
  <2>2. CASE s \in ToSet(T.log)
    <3>1. v(s) \in Nat /\ f[s] = [T.dev[s] EXCEPT !.rev = v(s)]
      BY <1>2, <1>3, <2>1, <2>2
    <3> HIDE DEF v, f
    <3> QED
      BY <2>1, <3>1 DEF Device
  <2>3. CASE s \notin ToSet(T.log)
    BY <2>1, <2>3
  <2> QED
    BY <2>2, <2>3
<1>5. f \in [Slugs -> Device \cup {NoDevice}]
  <2>1. ASSUME NEW s \in Slugs PROVE f[s] \in Device \cup {NoDevice}
    <3> HIDE DEF f
    <3>1. CASE s \in Live(T)
      BY <1>4, <3>1
    <3>2. CASE s \notin Live(T)
      BY <3>2 DEF f, Live
    <3> QED
      BY <3>1, <3>2
  <2> QED
    BY <2>1
<1>6. \A s \in Slugs : T.dev[s] = NoDevice => f[s] = NoDevice
  OBVIOUS
<1> HIDE DEF f, n, v
<1> DEFINE U == Numbered(T)
<1>7. U \in Stores /\ U.dev = f /\ U.index = T.index /\ U.next = n
  BY <1>1, <1>3, <1>5 DEF Stores
<1> HIDE DEF U
<1>8. Alike(T, U) /\ Live(U) = Live(T)
  BY <1>4, <1>6, <1>7, DeviceIsLive, AlikeDevices
<1>9. ASSUME Ranked(T), Settled(T), NEW s \in Live(T)
      PROVE  /\ v(s) \in 0..n /\ v(s) # 0
             /\ \A k \in Live(T) : v(k) = v(s) => k = s
  <2>1. ASSUME NEW k \in Live(T)
        PROVE  /\ k \in ToSet(T.log) => v(k) = T.next + last(k) /\ last(k) \in 1..Len(T.log) /\ T.log[last(k)] = k
               /\ k \notin ToSet(T.log) => v(k) = T.dev[k].rev /\ v(k) \in 1..T.next
    <3>1. T.dev[k].rev \in 0..T.next /\ (T.dev[k].rev # 0 \/ k \in ToSet(T.log))
      BY <1>9 DEF Ranked, Settled
    <3> QED
      BY <1>2, <1>3, <3>1 DEF v
  <2>2. ASSUME NEW k \in Live(T), v(k) = v(s) PROVE k = s
    <3>1. CASE k \in ToSet(T.log) /\ s \in ToSet(T.log)
      <4>1. last(k) = last(s)
        BY <1>3, <2>1, <2>2, <3>1
      <4> QED
        BY <2>1, <3>1, <4>1
    <3>2. CASE k \notin ToSet(T.log) /\ s \notin ToSet(T.log)
      <4>1. T.dev[s].rev # 0 /\ T.dev[k].rev = T.dev[s].rev
        BY <1>3, <2>1, <2>2, <3>2
      <4> QED
        BY <1>9, <4>1 DEF Ranked
    <3>3. CASE (k \in ToSet(T.log)) # (s \in ToSet(T.log))
      BY <1>3, <2>1, <2>2, <3>3
    <3> QED
      BY <3>1, <3>2, <3>3
  <2>3. v(s) \in 0..n /\ v(s) # 0
    BY <1>3, <2>1
  <2> QED
    BY <2>2, <2>3
<1>10. \A s \in Live(T) : U.dev[s].rev = v(s)
  BY <1>4, <1>7
<1>11. Ranked(T) /\ Settled(T) => Distinct(U)
  BY <1>7, <1>8, <1>9, <1>10 DEF Distinct, Ranked
<1> QED
  BY <1>7, <1>8, <1>11 DEF U

-----------------------------------------------------------------------------
(* Who an event or a listing is about                                      *)

LEMMA IdentityTypes ==
    ASSUME NEW local \in Slugs, NEW resolved \in Slugs \cup {0}
    PROVE  Identity(local, resolved) \in Identities
BY DEF Identity, Identities

LEMMA LocalDeviceSlugType ==
    ASSUME NEW T \in Stores, NEW c \in Cmds, NEW n \in Slugs
    PROVE  LocalDeviceSlug(T, c, n) \in Slugs
<1> DEFINE free == {s \in Group(T, n) : \A d \in Cmds : Has(T, s, d) => Signature[d] # Signature[c]}
<1>1. T.index[c] \in Slugs \cup {0}
  BY DEF Stores
<1>2. free \in SUBSET Slugs
  BY DEF Group
<1>3. NameWithId[c] \in Slugs
  BY SlugsOfNames
<1>4. LocalDeviceSlug(T, c, n) = IF T.index[c] # 0 THEN T.index[c]
                                 ELSE IF Group(T, n) = {} THEN n
                                 ELSE IF free # {} THEN Max(free) ELSE NameWithId[c]
  BY DEF LocalDeviceSlug
<1> HIDE DEF free
<1>5. free # {} => Max(free) \in Slugs
  <2>1. free \in SUBSET Nat /\ IsFiniteSet(free)
    BY <1>2, SlugsAreNumbers, FS_Subset
  <2> QED
    BY <1>2, <2>1, GreatestOf
<1> QED
  BY <1>1, <1>3, <1>4, <1>5

LEMMA LocalDiscoverySlugType ==
    ASSUME NEW T \in Stores, NEW e \in Eqs, NEW n \in Slugs
    PROVE  LocalDiscoverySlug(T, e, n) \in Slugs
<1> DEFINE same == {s \in Group(T, n) : T.dev[s].jid = e}
<1>1. T.eqs[e] \in Slugs \cup {0}
  BY DEF Stores
<1>2. same \in SUBSET Slugs
  BY DEF Group
<1>3. same # {} => Min(same) \in Slugs
  <2> HIDE DEF same
  <2> QED
    BY <1>2, LeastSlug
<1>4. Suffixed[n] \in Slugs
  BY SlugsOfNames
<1> QED
  BY <1>1, <1>3, <1>4 DEF LocalDiscoverySlug

LEMMA ResolveDiscoveryType ==
    ASSUME NEW r \in Resolvers, NEW ids \in SUBSET (Cmds \cup Acts), NEW n \in Slugs
    PROVE  ResolveDiscovery(r, ids, n) \in Slugs \cup {0}
<1> DEFINE linked == {id \in ids : r.cmd[id] # 0}
<1>1. linked # {} => Min(linked) \in linked
  <2>1. linked \in SUBSET Nat
    BY IdsAreNumbers
  <2> HIDE DEF linked
  <2> QED
    BY <2>1, LeastOf
<1>2. linked # {} => r.cmd[Min(linked)] \in Slugs \cup {0}
  <2> SUFFICES ASSUME linked # {} PROVE r.cmd[Min(linked)] \in Slugs \cup {0}
    OBVIOUS
  <2>1. Min(linked) \in Cmds \cup Acts
    BY <1>1
  <2> HIDE DEF linked
  <2> QED
    BY <2>1 DEF Resolvers
<1>3. r.name[n] \in Slugs \cup {0}
  BY DEF Resolvers
<1> QED
  BY <1>2, <1>3 DEF ResolveDiscovery

LEMMA NewCatalogResolverType ==
    ASSUME NEW entries \in Catalogs
    PROVE  NewCatalogResolver(entries) \in Resolvers
<1> DEFINE linked(key, field) ==
            LET of == {e.slug : e \in {e \in entries : key \in e[field]}}
            IN  IF Cardinality(of) = 1 THEN Min(of) ELSE 0
<1>1. ASSUME NEW key, NEW field PROVE linked(key, field) \in Slugs \cup {0}
  <2> DEFINE of == {e.slug : e \in {e \in entries : key \in e[field]}}
  <2>1. of \in SUBSET Slugs
    BY CatalogsNameSlugs
  <2> HIDE DEF of
  <2>2. Cardinality(of) = 1 => Min(of) \in Slugs
    BY <2>1, FS_EmptySet, LeastSlug
  <2>3. linked(key, field) = IF Cardinality(of) = 1 THEN Min(of) ELSE 0
    BY DEF of
  <2> HIDE DEF linked
  <2> QED
    BY <2>2, <2>3
<1>2. NewCatalogResolver(entries) = [cmd  |-> [id \in Cmds \cup Acts |-> linked(id, "cmds")],
                                     name |-> [n \in Slugs |-> linked(n, "names")]]
  BY DEF NewCatalogResolver
<1> HIDE DEF linked
<1> QED
  BY <1>1, <1>2 DEF Resolvers

-----------------------------------------------------------------------------
(* The exported operations of the store                                    *)

LEMMA ApplyKeeping ==
    ASSUME NEW T \in Stores, NEW r \in Resolvers, NEW c \in Cmds, NEW n \in Slugs
    PROVE  /\ Apply(T, r, c, n) \in Keeping(T) /\ EventIdentity(T, r, c, n).slug \in Live(Apply(T, r, c, n))
           /\ Distinct(T) => Distinct(Apply(T, r, c, n))
<1> DEFINE id == EventIdentity(T, r, c, n)
           s == id.slug
           how == IF Owners(T, c) = {} THEN "event" ELSE Provenance(T, c)
           A == Adopt(T, id)
           M == MergeLegacyActions(A, s)
           G == Give(M, c, s, how)
           B == Bump(G, s)
<1>1. Apply(T, r, c, n) = Numbered(B)
  BY DEF Apply
<1>2. id \in Identities
  <2>1. ResolveName(r, c, n) \in Slugs \cup {0}
    BY DEF Resolvers, ResolveName
  <2> QED
    BY <2>1, LocalDeviceSlugType, IdentityTypes DEF EventIdentity
<1>3. how \in {"event", "discovered"}
  BY DEF Provenance
<1> HIDE DEF id, how
<1>4. A \in Owning(T) /\ A \in Stores /\ s \in Live(A) /\ Live(A) = Live(T) \cup {s}
  <2>1. A \in Grown(T) /\ A \in Stores /\ s \in Live(A) /\ Live(A) = Live(T) \cup {s}
    BY <1>2, AdoptSame DEF Grown
  <2> QED
    BY <2>1, OwningFacts
<1> HIDE DEF A
<1>5. M \in Frame(A) /\ M \in Stores /\ s \in Live(M) /\ Live(M) = Live(A)
  BY <1>4, MergeLegacyActionsFrame DEF Frame
<1> HIDE DEF M
<1>6. G \in Owning(M) /\ Live(G) = Live(M)
  BY <1>3, <1>5, GiveOwning, GiveFacts DEF GivenTo
<1> HIDE DEF G
<1>7. G \in Stores /\ s \in Live(G) /\ G \in Owning(T)
  BY <1>4, <1>5, <1>6, OwningFacts
<1>8. B \in Frame(G) /\ B \in Stores /\ s \in ToSet(B.log)
  BY <1>7, FrameFacts, BumpSame DEF Frame
<1> HIDE DEF B
<1>9. B \in Owning(T) /\ Live(B) = Live(T) \cup {s}
  BY <1>4, <1>5, <1>6, <1>7, <1>8, OwningFacts DEF Frame
<1> DEFINE U == Numbered(B)
<1>10. U \in Stores /\ Alike(B, U) /\ Live(U) = Live(B) /\ (Ranked(B) /\ Settled(B) => Distinct(U))
  BY <1>8, NumberedFacts
<1> HIDE DEF U
<1>11. U \in Keeping(T)
  BY <1>9, <1>10, KeepingFacts DEF Owning
<1>12. Distinct(T) => Ranked(B) /\ Settled(B)
  <2>1. Counted(T, B)
    BY <1>9 DEF Owning
  <2>2. Ranked(T) => Ranked(B)
    BY <2>1, CountedRanked
  <2>3. (\A k \in Live(T) : T.dev[k].rev # 0) => Settled(B)
    BY <1>8, <1>9, <2>1 DEF Settled, Counted
  <2> QED
    BY <2>2, <2>3 DEF Distinct
<1> QED
  BY <1>1, <1>9, <1>10, <1>11, <1>12 DEF id, U

\* A command that is removed had its only owner here: nothing else is owned.
LEMMA RemoveCommandsOwning ==
    ASSUME NEW T \in Stores, NEW e, NEW cs
    PROVE  LET U == RemoveCommands(T, e, cs) IN
           U \in Stores /\ Live(U) = Live(T) /\ (Single(T) => U \in Owning(T))
<1> DEFINE gone(s) == {c \in Cmds \ cs :
            \/ T.dev[s].cmds[c] = "discovered" /\ EqOf[c] = e
            \/ /\ T.dev[s].cmds[c] = "event" /\ T.dev[s].jid = e
               /\ \E d \in cs : Signature[d] = Signature[c]}
           losers == {s \in Live(T) : gone(s) # {}}
           C(s) == [c \in Cmds |-> IF c \in gone(s) THEN "none" ELSE T.dev[s].cmds[c]]
           P(s) == T.dev[s].pend \cup gone(s)
           f == [s \in Slugs |-> IF s \notin losers THEN T.dev[s] ELSE
                       [T.dev[s] EXCEPT !.cmds = C(s), !.pend = P(s)]]
           ix == [c \in Cmds |-> IF \E s \in losers : c \in gone(s) THEN 0 ELSE T.index[c]]
           K == [T EXCEPT !.dev = f, !.index = ix]
           U == RemoveCommands(T, e, cs)
<1>1. U = Touch(BumpEach(K, losers), losers)
  BY DEF RemoveCommands
<1> HIDE DEF U
<1>2. losers \in SUBSET Live(T) /\ losers \in SUBSET Slugs
  BY DEF Live
<1>3. \A s \in Slugs : \A c \in gone(s) : c \in Cmds /\ T.dev[s].cmds[c] # "none"
  OBVIOUS
<1>4. \A s \in Live(T) \ losers : gone(s) = {}
  OBVIOUS
<1> HIDE DEF gone
<1>5. ASSUME NEW s \in losers
      PROVE  f[s] \in Device /\ f[s].cmds = C(s) /\ f[s].pend = P(s) /\ f[s].rev = T.dev[s].rev
  <2>1. T.dev[s] \in Device /\ s \in Slugs
    BY <1>2, <1>5, LiveDevice
  <2>2. C(s) \in [Cmds -> {"none", "event", "discovered"}]
    BY <2>1 DEF Device
  <2>3. P(s) \in SUBSET Cmds
    BY <1>3, <2>1 DEF Device
  <2>4. f[s] = [T.dev[s] EXCEPT !.cmds = C(s), !.pend = P(s)]
    BY <1>5, <2>1
  <2> HIDE DEF C, P, f
  <2> QED
    BY <2>1, <2>2, <2>3, <2>4 DEF Device
<1>6. \A s \in Slugs \ losers : f[s] = T.dev[s]
  OBVIOUS
<1>7. f \in [Slugs -> Device \cup {NoDevice}]
  <2>1. ASSUME NEW s \in Slugs PROVE f[s] \in Device \cup {NoDevice}
    <3> HIDE DEF f, losers
    <3> QED
      BY <1>5, <1>6 DEF Stores
  <2> QED
    BY <2>1
<1>8. ix \in [Cmds -> Slugs \cup {0}]
  BY DEF Stores
<1>9. K \in Stores /\ K.dev = f /\ K.index = ix /\ K.next = T.next /\ K.log = T.log
  <2> HIDE DEF f, ix
  <2> QED
    BY <1>7, <1>8 DEF Stores
<1> HIDE DEF K
<1>10. /\ \A s \in Slugs : K.dev[s] = NoDevice <=> T.dev[s] = NoDevice
       /\ \A s \in Live(T) : /\ K.dev[s].pend = T.dev[s].pend \cup gone(s)
                             /\ K.dev[s].rev = T.dev[s].rev
                             /\ \A c \in Cmds : K.dev[s].cmds[c] = IF c \in gone(s) THEN "none" ELSE T.dev[s].cmds[c]
  <2>1. ASSUME NEW s \in losers
        PROVE  /\ K.dev[s] # NoDevice /\ T.dev[s] # NoDevice
               /\ K.dev[s].pend = T.dev[s].pend \cup gone(s)
               /\ K.dev[s].rev = T.dev[s].rev
               /\ \A c \in Cmds : K.dev[s].cmds[c] = IF c \in gone(s) THEN "none" ELSE T.dev[s].cmds[c]
    <3>1. K.dev[s] \in Device /\ K.dev[s].cmds = C(s) /\ K.dev[s].pend = P(s) /\ s \in Live(T)
          /\ K.dev[s].rev = T.dev[s].rev
      BY <1>2, <1>5, <1>9, <2>1
    <3> HIDE DEF losers, f
    <3> QED
      BY <3>1, DeviceIsLive, LiveDevice
  <2>2. \A s \in Slugs \ losers : K.dev[s] = T.dev[s]
    BY <1>6, <1>9
  <2> HIDE DEF losers
  <2> QED
    BY <1>2, <1>4, <2>1, <2>2 DEF Live
<1>11. Live(K) = Live(T)
  BY <1>10 DEF Live
<1>11a. Counted(T, K)
  BY <1>9, <1>10, <1>11 DEF Counted
<1>12. /\ \A s \in Live(T) : Pend(K, s) = Pend(T, s) \cup gone(s)
       /\ \A s \in Slugs \ Live(T) : Pend(K, s) = {}
       /\ \A s \in Slugs, c \in Cmds : Has(K, s, c) <=> s \in Live(T) /\ Has(T, s, c) /\ c \notin gone(s)
       /\ \A s \in Live(T) : \A c \in gone(s) : Has(T, s, c)
  BY <1>3, <1>10 DEF Live, Pend, Has
<1>13. U \in Frame(K)
  <2>1. BumpEach(K, losers) \in Frame(K) /\ BumpEach(K, losers) \in Stores
    BY <1>2, <1>9, <1>11, BumpEachFrame DEF Frame
  <2> QED
    BY <1>1, <1>2, <2>1, FrameFacts, FrameTrans
<1>14. ASSUME Single(T) PROVE K \in Owning(T)
  <2>1. ASSUME NEW c \in Cmds
        PROVE  Owners(K, c) = IF \E s \in Live(T) : c \in gone(s) THEN {} ELSE Owners(T, c)
    <3>1. CASE \E s \in Live(T) : c \in gone(s)
      <4>1. PICK s \in Live(T) : c \in gone(s)
        BY <3>1
      <4>2. s \in Owners(T, c)
        BY <1>12, <4>1 DEF Live, Owners
      <4>3. Owners(T, c) = {s}
        BY <1>14, <4>2 DEF Single
      <4> QED
        BY <1>12, <3>1, <4>1, <4>3 DEF Owners
    <3>2. CASE ~\E s \in Live(T) : c \in gone(s)
      BY <1>12, <3>2 DEF Owners, Has, Live
    <3> QED
      BY <3>1, <3>2
  <2>2. Single(K)
    BY <1>14, <2>1 DEF Single
  <2>3. Clean(T) => Clean(K)
    <3> SUFFICES ASSUME Clean(T), NEW c \in Cmds, NEW s \in Slugs, c \in Pend(K, s) PROVE Owners(K, c) = {}
      BY DEF Clean
    <3>1. s \in Live(T) /\ (c \in Pend(T, s) \/ c \in gone(s))
      BY <1>12
    <3>2. c \in Pend(T, s) => Owners(T, c) = {}
      BY DEF Clean
    <3> QED
      BY <2>1, <3>1, <3>2
  <2>4. Indexed(T) => Indexed(K)
    <3> SUFFICES ASSUME Indexed(T), NEW c \in Cmds
                 PROVE  K.index[c] = IF Owners(K, c) = {} THEN 0 ELSE Min(Owners(K, c))
      BY DEF Indexed
    <3>1. (\E s \in losers : c \in gone(s)) <=> \E s \in Live(T) : c \in gone(s)
      BY <1>2, <1>4
    <3>2. K.index[c] = IF \E s \in Live(T) : c \in gone(s) THEN 0 ELSE T.index[c]
      BY <1>9, <3>1
    <3>3. T.index[c] = IF Owners(T, c) = {} THEN 0 ELSE Min(Owners(T, c))
      BY DEF Indexed
    <3> QED
      BY <2>1, <3>2, <3>3
  <2>5. Known(T) \subseteq Known(K)
    <3> SUFFICES ASSUME NEW c \in Known(T) PROVE Owners(K, c) # {} \/ \E s \in Slugs : c \in Pend(K, s)
      BY DEF Known
    <3>1. c \in Cmds /\ (Owners(T, c) # {} \/ \E s \in Slugs : c \in Pend(T, s))
      BY DEF Known
    <3>2. \A s \in Slugs : c \in Pend(T, s) => s \in Live(T)
      BY DEF Pend, Live
    <3>3. Live(T) \subseteq Slugs
      BY DEF Live
    <3> QED
      BY <1>12, <2>1, <3>1, <3>2, <3>3
  <2> QED
    BY <1>9, <1>11, <1>11a, <2>2, <2>3, <2>4, <2>5 DEF Owning, Keeping
<1> QED
  BY <1>11, <1>13, <1>14, OwningFacts DEF Frame, U

LEMMA RemoveActionsFrame ==
    ASSUME NEW T \in Stores, NEW e, NEW as
    PROVE  RemoveActions(T, e, as) \in Frame(T)
<1> DEFINE gone(s) == {a \in T.dev[s].acts \ as : EqOf[a] = e}
           losers == {s \in Live(T) : gone(s) # {}}
           A(s) == T.dev[s].acts \ gone(s)
           P(s) == T.dev[s].pendActs \cup {<<a, s>> : a \in gone(s)}
           f == [s \in Slugs |-> IF s \notin losers THEN T.dev[s] ELSE
                    [T.dev[s] EXCEPT !.acts = A(s), !.pendActs = P(s)]]
           K == [T EXCEPT !.dev = f]
<1>1. RemoveActions(T, e, as) = Touch(BumpEach(K, losers), losers)
  BY DEF RemoveActions
<1>2. losers \in SUBSET Live(T) /\ losers \in SUBSET Slugs
  BY DEF Live
<1>3. ASSUME NEW s \in Live(T)
      PROVE  /\ f[s] \in Device /\ f[s].cmds = T.dev[s].cmds
             /\ f[s].pend = T.dev[s].pend /\ f[s].rev = T.dev[s].rev
  <2>1. T.dev[s] \in Device /\ s \in Slugs
    BY <1>3, LiveDevice
  <2>2. A(s) \in SUBSET Acts /\ P(s) \in SUBSET (Acts \X Slugs)
    <3>1. T.dev[s].acts \in SUBSET Acts /\ T.dev[s].pendActs \in SUBSET (Acts \X Slugs)
      BY <2>1 DEF Device
    <3>2. gone(s) \in SUBSET Acts
      BY <3>1
    <3> HIDE DEF gone
    <3>3. {<<a, s>> : a \in gone(s)} \in SUBSET (Acts \X Slugs)
      BY <2>1, <3>2
    <3> QED
      BY <3>1, <3>3
  <2> HIDE DEF A, P
  <2>3. [T.dev[s] EXCEPT !.acts = A(s), !.pendActs = P(s)] \in Device
    BY <2>1, <2>2 DEF Device
  <2>4. /\ [T.dev[s] EXCEPT !.acts = A(s), !.pendActs = P(s)].cmds = T.dev[s].cmds
        /\ [T.dev[s] EXCEPT !.acts = A(s), !.pendActs = P(s)].pend = T.dev[s].pend
        /\ [T.dev[s] EXCEPT !.acts = A(s), !.pendActs = P(s)].rev = T.dev[s].rev
    BY <2>1 DEF Device
  <2>5. f[s] = T.dev[s] \/ f[s] = [T.dev[s] EXCEPT !.acts = A(s), !.pendActs = P(s)]
    BY <2>1
  <2> HIDE DEF f
  <2> QED
    BY <2>1, <2>3, <2>4, <2>5
<1>4. f \in [Slugs -> Device \cup {NoDevice}]
  <2>1. ASSUME NEW s \in Slugs PROVE f[s] \in Device \cup {NoDevice}
    <3> HIDE DEF f
    <3>1. CASE s \in Live(T)
      BY <1>3, <3>1
    <3>2. CASE s \notin Live(T)
      BY <3>2 DEF f, Live
    <3> QED
      BY <3>1, <3>2
  <2> QED
    BY <2>1
<1>5. \A s \in Slugs : T.dev[s] = NoDevice => f[s] = NoDevice
  BY DEF Live
<1> HIDE DEF f, losers
<1>6. K \in Frame(T) /\ K \in Stores /\ Live(K) = Live(T)
  BY <1>3, <1>4, <1>5, DeviceIsLive, DevicesFrame DEF Frame
<1> HIDE DEF K
<1>7. BumpEach(K, losers) \in Frame(T) /\ BumpEach(K, losers) \in Stores
  BY <1>2, <1>6, BumpEachFrame, FrameTrans DEF Frame
<1> QED
  BY <1>1, <1>2, <1>7, FrameFacts, FrameTrans

\* The loops over what equipment e lists.
Listed(T, s, cs) == InOrder(LAMBDA U, c : Give(U, c, s, "discovered"), T, cs)
Control(T, s, a) == [TakeAction(T, a, s) EXCEPT !.dev[s].acts = @ \cup {a}]
Controlled(T, s, as) == InOrder(LAMBDA U, a : Control(U, s, a), T, as)

LEMMA ListedOwning ==
    ASSUME NEW T \in Stores, NEW s \in Live(T), NEW cs \in SUBSET Cmds
    PROVE  Listed(T, s, cs) \in Owning(T)
<1> DEFINE X == Owning(T)
           S == cs
           F == [p \in X \X S |-> Give(p[1], p[2], s, "discovered")]
           iter == CHOOSE g : g = [V \in SUBSET S |->
                      IF V = {} THEN T ELSE Give(g[V \ {Max(V)}], Max(V), s, "discovered")]
<1>1. Listed(T, s, cs) = iter[S]
  BY DEF Listed, InOrder, MapThenFoldSet
<1>2. S \in SUBSET Nat /\ IsFiniteSet(S) /\ T \in X
  BY CmdsAreFinite, OwningFacts
<1>3. \A U \in X, c \in S : Give(U, c, s, "discovered") \in X
  <2> TAKE U \in X, c \in S
  <2>1. U \in Stores /\ s \in Live(U)
    BY OwningFacts
  <2>2. Give(U, c, s, "discovered") \in Owning(U)
    BY <2>1, GiveOwning
  <2> QED
    BY <2>2, OwningFacts
<1>4. iter = [V \in SUBSET S |-> IF V = {} THEN T ELSE Give(iter[V \ {Max(V)}], Max(V), s, "discovered")]
  <2>1. F \in [X \X S -> X]
    BY <1>3
  <2>2. PICK g \in [SUBSET S -> X] : Stages(g, S, T, F)
    <3> HIDE DEF F, X, S
    <3> QED
      BY <1>2, <2>1, LoopExists
  <2>3. g = [V \in SUBSET S |-> IF V = {} THEN T ELSE Give(g[V \ {Max(V)}], Max(V), s, "discovered")]
    <3>1. ASSUME NEW V \in SUBSET S, V # {}
          PROVE  F[<<g[V \ {Max(V)}], Max(V)>>] = Give(g[V \ {Max(V)}], Max(V), s, "discovered")
      <4> HIDE DEF X, S
      <4>1. g[V \ {Max(V)}] \in X /\ Max(V) \in S
        BY <1>2, <3>1, LastInside
      <4> QED
        BY <4>1
    <3> HIDE DEF F, X, S
    <3> QED
      BY <2>2, <3>1 DEF Stages
  <2> QED
    BY <2>3
<1> HIDE DEF iter, X, S
<1>5. iter[{}] \in X
  BY <1>2, <1>4
<1>6. ASSUME NEW V \in SUBSET S, V # {}, Max(V) \in S, iter[V \ {Max(V)}] \in X PROVE iter[V] \in X
  BY <1>3, <1>4, <1>6
<1>7. iter[S] \in X
  BY <1>2, <1>5, <1>6, LoopStays
<1> QED
  BY <1>1, <1>7 DEF X

LEMMA ControlledFrame ==
    ASSUME NEW T \in Stores, NEW s \in Live(T), NEW as \in SUBSET Acts
    PROVE  Controlled(T, s, as) \in Frame(T)
<1> DEFINE X == Frame(T)
           S == as
           F == [p \in X \X S |-> Control(p[1], s, p[2])]
           iter == CHOOSE g : g = [V \in SUBSET S |->
                      IF V = {} THEN T ELSE Control(g[V \ {Max(V)}], s, Max(V))]
<1>1. Controlled(T, s, as) = iter[S]
  BY DEF Controlled, InOrder, MapThenFoldSet
<1>2. S \in SUBSET Nat /\ IsFiniteSet(S) /\ T \in X
  BY ActsAreFinite, FrameFacts
<1>3. \A U \in X, a \in S : Control(U, s, a) \in X
  <2> TAKE U \in X, a \in S
  <2>1. U \in Stores /\ s \in Live(U) /\ s \in Slugs
    BY LiveDevice DEF Frame
  <2> DEFINE V == TakeAction(U, a, s)
             A == V.dev[s].acts \cup {a}
  <2>2. V \in Frame(U) /\ V \in Stores /\ s \in Live(V)
    BY <2>1, TakeActionFrame DEF Frame
  <2>3. Control(U, s, a) = [V EXCEPT !.dev[s].acts = A]
    BY DEF Control
  <2> HIDE DEF V
  <2>4. A \in SUBSET Acts
    BY <2>2, LiveDevice DEF Device
  <2> HIDE DEF A
  <2>5. Control(U, s, a) \in Frame(V)
    BY <2>2, <2>3, <2>4, ActsFrame
  <2> QED
    BY <2>2, <2>5, FrameTrans
<1>4. iter = [V \in SUBSET S |-> IF V = {} THEN T ELSE Control(iter[V \ {Max(V)}], s, Max(V))]
  <2>1. F \in [X \X S -> X]
    BY <1>3
  <2>2. PICK g \in [SUBSET S -> X] : Stages(g, S, T, F)
    <3> HIDE DEF F, X, S
    <3> QED
      BY <1>2, <2>1, LoopExists
  <2>3. g = [V \in SUBSET S |-> IF V = {} THEN T ELSE Control(g[V \ {Max(V)}], s, Max(V))]
    <3>1. ASSUME NEW V \in SUBSET S, V # {}
          PROVE  F[<<g[V \ {Max(V)}], Max(V)>>] = Control(g[V \ {Max(V)}], s, Max(V))
      <4> HIDE DEF X, S
      <4>1. g[V \ {Max(V)}] \in X /\ Max(V) \in S
        BY <1>2, <3>1, LastInside
      <4> QED
        BY <4>1
    <3> HIDE DEF F, X, S
    <3> QED
      BY <2>2, <3>1 DEF Stages
  <2> QED
    BY <2>3
<1> HIDE DEF iter, X, S
<1>5. iter[{}] \in X
  BY <1>2, <1>4
<1>6. ASSUME NEW V \in SUBSET S, V # {}, Max(V) \in S, iter[V \ {Max(V)}] \in X PROVE iter[V] \in X
  BY <1>3, <1>4, <1>6
<1>7. iter[S] \in X
  BY <1>2, <1>5, <1>6, LoopStays
<1> QED
  BY <1>1, <1>7 DEF X

LEMMA EqsFrame ==
    ASSUME NEW T \in Stores, NEW q \in [Eqs -> Slugs \cup {0}]
    PROVE  [T EXCEPT !.eqs = q] \in Frame(T)
<1> DEFINE U == [T EXCEPT !.eqs = q]
<1>1. U \in Stores /\ U.dev = T.dev /\ U.index = T.index /\ U.next = T.next /\ U.log = T.log
  BY DEF Stores
<1> HIDE DEF U
<1>2. Same(T, U) /\ Live(U) = Live(T)
  <2>1. \A s \in Slugs : T.dev[s] = NoDevice => U.dev[s] = NoDevice
    BY <1>1
  <2>2. \A s \in Live(T) : U.dev[s] # NoDevice /\ U.dev[s].cmds = T.dev[s].cmds /\ U.dev[s].pend = T.dev[s].pend
                        /\ U.dev[s].rev = T.dev[s].rev
    BY <1>1 DEF Live
  <2> QED
    BY <1>1, <2>1, <2>2, SameDevices
<1> QED
  BY <1>1, <1>2 DEF Frame, U

LEMMA DiscoveredOwning ==
    ASSUME NEW T \in Stores, NEW r \in Resolvers, NEW e \in Eqs, NEW cs \in SUBSET Cmds,
           NEW as \in SUBSET Acts, NEW n \in Slugs
    PROVE  LET D == Discovered(T, r, e, cs, as, n) IN
           /\ D.T \in Stores /\ D.slug \in Live(D.T)
           /\ Single(T) => D.T \in Owning(T)
<1> DEFINE id == Identity(LocalDiscoverySlug(T, e, n), ResolveDiscovery(r, cs \cup as, n))
           s == id.slug
           A == Adopt(T, id)
           J == [A EXCEPT !.dev[s].jid = e]
           q == [A.eqs EXCEPT ![e] = s]
           E == [J EXCEPT !.eqs = q]
           M == MergeLegacyActions(E, s)
           P == RemoveCommands(M, e, cs)
           L == Listed(P, s, cs)
           R == RemoveActions(L, e, as)
           C == Controlled(R, s, as)
           D == Discovered(T, r, e, cs, as, n)
<1>1. D = [slug |-> s, T |-> Bump(C, s)]
  <2>1. [A EXCEPT !.dev[s].jid = e, !.eqs[e] = s] = E
    <3> DEFINE f == [A.dev EXCEPT ![s].jid = e]
    <3>1. [A EXCEPT !.dev[s].jid = e, !.eqs[e] = s] = [A EXCEPT !.dev = f, !.eqs = q] /\ J = [A EXCEPT !.dev = f]
      OBVIOUS
    <3> HIDE DEF f, q, J, A
    <3> QED
      BY <3>1
  <2> HIDE DEF E
  <2> QED
    BY <2>1 DEF Discovered, Listed, Controlled, Control
<1> HIDE DEF D
<1>2. id \in Identities /\ s \in Slugs
  <2>1. ResolveDiscovery(r, cs \cup as, n) \in Slugs \cup {0}
    BY ResolveDiscoveryType
  <2>2. id \in Identities
    BY <2>1, LocalDiscoverySlugType, IdentityTypes
  <2> HIDE DEF id
  <2> QED
    BY <2>2 DEF Identities
<1> HIDE DEF id
<1>3. A \in Owning(T) /\ A \in Stores /\ s \in Live(A)
  <2>1. A \in Grown(T) /\ A \in Stores /\ s \in Live(A)
    BY <1>2, AdoptSame DEF Grown
  <2> QED
    BY <2>1, OwningFacts
<1>4. q \in [Eqs -> Slugs \cup {0}]
  <2>1. A.eqs \in [Eqs -> Slugs \cup {0}]
    BY <1>3 DEF Stores
  <2> QED
    BY <1>2, <2>1
<1> HIDE DEF A, q
<1>5. J \in Frame(A) /\ J \in Stores
  BY <1>3, JidFrame DEF Frame
<1> HIDE DEF J
<1>6. E \in Frame(A) /\ E \in Stores /\ s \in Live(E)
  <2>1. E \in Frame(J)
    BY <1>4, <1>5, EqsFrame
  <2> HIDE DEF E
  <2>2. E \in Frame(A)
    BY <1>5, <2>1, FrameTrans
  <2> QED
    BY <1>3, <2>2 DEF Frame
<1> HIDE DEF E
<1>7. M \in Frame(E) /\ M \in Stores /\ s \in Live(M)
  BY <1>6, MergeLegacyActionsFrame DEF Frame
<1> HIDE DEF M
<1>8. P \in Stores /\ s \in Live(P) /\ (Single(M) => P \in Owning(M))
  BY <1>7, RemoveCommandsOwning
<1> HIDE DEF P
<1>9. L \in Owning(P) /\ L \in Stores /\ s \in Live(L)
  <2>1. L \in Owning(P)
    BY <1>8, ListedOwning
  <2> HIDE DEF L
  <2> QED
    BY <1>8, <2>1, OwningFacts
<1> HIDE DEF L
<1>10. R \in Frame(L) /\ R \in Stores /\ s \in Live(R)
  BY <1>9, RemoveActionsFrame DEF Frame
<1> HIDE DEF R
<1>11. C \in Frame(R) /\ C \in Stores /\ s \in Live(C)
  BY <1>10, ControlledFrame DEF Frame
<1> HIDE DEF C
<1>12. Bump(C, s) \in Frame(C) /\ Bump(C, s) \in Stores /\ s \in Live(Bump(C, s))
  BY <1>11, FrameFacts DEF Frame
<1>13. Single(T) => Bump(C, s) \in Owning(T)
  <2> SUFFICES ASSUME Single(T) PROVE Bump(C, s) \in Owning(T)
    OBVIOUS
  <2>1. M \in Owning(T)
    BY <1>3, <1>6, <1>7, OwningFacts
  <2>2. Single(M)
    BY <2>1 DEF Owning, Keeping
  <2>3. L \in Owning(T)
    BY <1>8, <1>9, <2>1, <2>2, OwningFacts
  <2>4. C \in Owning(T)
    BY <1>10, <1>11, <2>3, OwningFacts
  <2> QED
    BY <1>12, <2>4, OwningFacts
<1> QED
  BY <1>1, <1>12, <1>13 DEF D

LEMMA DiscoveryForFacts ==
    ASSUME NEW D, D.T \in Stores, D.slug \in Live(D.T), NEW r \in Resolvers, NEW primary \in Live(D.T)
    PROVE  LET U == Numbered(DiscoveryFor(D, r, primary)) IN
           /\ U \in Stores /\ Single(U) /\ Indexed(U) /\ (Clean(D.T) => Clean(U))
           /\ Known(D.T) \subseteq Known(U)
           /\ Ranked(D.T) => Distinct(U)
<1> DEFINE K == CopyActions(D.T, primary, D.slug)
           linked == IF primary = D.slug THEN D.T ELSE Bump(K, primary)
           P == Placed(linked, r)
           B == Touch(P, {primary})
<1>1. DiscoveryFor(D, r, primary) = B
  BY DEF DiscoveryFor
<1>2. K \in Frame(D.T)
  BY CopyActionsFrame
<1> HIDE DEF K
<1>3. Bump(K, primary) \in Frame(D.T)
  BY <1>2, BumpTouchFrame
<1>4. linked \in Frame(D.T)
  BY <1>3, FrameFacts
<1> HIDE DEF linked
<1>5. linked \in Stores /\ (Clean(D.T) => Clean(linked)) /\ Known(linked) = Known(D.T)
      /\ (Ranked(D.T) => Ranked(linked))
  BY <1>4, SameOwners, CountedRanked DEF Frame, Same
<1>6. /\ P \in Stores /\ Single(P) /\ Indexed(P) /\ (Clean(D.T) => Clean(P)) /\ Known(D.T) \subseteq Known(P)
      /\ (Ranked(D.T) => Ranked(P)) /\ Settled(P)
  <2>1. /\ P \in Stores /\ Single(P) /\ Indexed(P) /\ (Clean(linked) => Clean(P)) /\ Known(linked) \subseteq Known(P)
        /\ Counted(linked, P) /\ Settled(P)
    BY <1>5, PlacedFacts
  <2> HIDE DEF P
  <2> QED
    BY <1>5, <2>1, CountedRanked
<1> HIDE DEF P
<1>7. B \in Frame(P)
  BY <1>6, LiveDevice, FrameFacts
<1> HIDE DEF B
<1>8. /\ B \in Stores /\ Alike(P, B) /\ Single(B) /\ Indexed(B) /\ (Clean(P) => Clean(B)) /\ Known(B) = Known(P)
      /\ (Ranked(D.T) => Ranked(B) /\ Settled(B))
  <2>1. B \in Stores /\ Alike(P, B) /\ Counted(P, B) /\ Live(B) = Live(P)
    BY <1>7 DEF Frame, Same
  <2> QED
    BY <1>6, <2>1, SameOwners, CountedRanked
<1> DEFINE U == Numbered(B)
<1>9. U \in Stores /\ Alike(B, U) /\ (Ranked(B) /\ Settled(B) => Distinct(U))
  BY <1>8, NumberedFacts
<1> HIDE DEF U
<1>10. Single(U) /\ Indexed(U) /\ (Clean(B) => Clean(U)) /\ Known(U) = Known(B)
  BY <1>8, <1>9, SameOwners
<1> QED
  BY <1>1, <1>6, <1>8, <1>9, <1>10 DEF U

\* Merging two devices gives no tombstone to a command somebody owns, and
\* forgets none.
LEMMA MergeDeviceFacts ==
    ASSUME NEW T \in Stores, NEW r \in Resolvers, NEW s \in Slugs
    PROVE  /\ MergeDevice(T, r, s) \in Stores /\ (Clean(T) => Clean(MergeDevice(T, r, s)))
           /\ Known(T) \subseteq Known(MergeDevice(T, r, s))
           /\ Ranked(T) => Ranked(MergeDevice(T, r, s))
<1> DEFINE d == T.dev[s]
           ids == {c \in Cmds : d.cmds[c] # "none"} \cup d.acts
           id == Identity(s, ResolveDiscovery(r, ids, BaseOf[s]))
           t == id.slug
           into == IF T.dev[t] = NoDevice THEN NewDevice ELSE T.dev[t]
           C == [c \in Cmds |-> IF "discovered" \in {into.cmds[c], d.cmds[c]} THEN "discovered"
                                ELSE IF into.cmds[c] # "none" THEN into.cmds[c] ELSE d.cmds[c]]
           A == into.acts \cup d.acts
           P == into.pend \cup d.pend
           Q == into.pendActs \cup d.pendActs
           G == into.legacy \cup d.legacy \cup id.legacy
           j == IF d.jid # 0 THEN d.jid ELSE into.jid
           m == [into EXCEPT !.cmds = C, !.acts = A, !.pend = P, !.pendActs = Q, !.legacy = G,
                             !.linked = id.linked, !.disabled = id.disabled, !.jid = j]
           M == [T EXCEPT !.dev[t] = m]
           R == MergeDevice(T, r, s)
<1>1. R = IF d = NoDevice THEN T ELSE IF t = s THEN M ELSE [M EXCEPT !.dev[s] = NoDevice]
  BY DEF MergeDevice
<1> HIDE DEF R
<1> SUFFICES ASSUME d # NoDevice PROVE R \in Stores /\ (Clean(T) => Clean(R)) /\ Known(T) \subseteq Known(R)
                                       /\ (Ranked(T) => Ranked(R))
  BY <1>1 DEF R
<1>2. d \in Device /\ s \in Live(T)
  BY DEF Stores, Live
<1>3. id \in Identities /\ t \in Slugs
  <2>1. ids \in SUBSET (Cmds \cup Acts)
    BY <1>2 DEF Device
  <2> HIDE DEF ids
  <2>2. BaseOf[s] \in Slugs
    BY SlugsOfNames
  <2>3. id \in Identities
    BY <2>1, <2>2, ResolveDiscoveryType, IdentityTypes
  <2> HIDE DEF id
  <2> QED
    BY <2>3 DEF Identities
<1> HIDE DEF id
<1>4. into \in Device /\ into.pend = Pend(T, t) /\ (\A c \in Cmds : into.cmds[c] # "none" <=> Has(T, t, c))
      /\ into.rev = IF t \in Live(T) THEN T.dev[t].rev ELSE 0
  <2>1. T.dev[t] \in Device \cup {NoDevice}
    BY <1>3 DEF Stores
  <2> QED
    BY <1>3, <2>1, NewDeviceTypes DEF Pend, Has, Live
<1>5. d.pend = Pend(T, s) /\ \A c \in Cmds : d.cmds[c] # "none" <=> Has(T, s, c)
  BY DEF Pend, Has
<1> HIDE DEF d, into
<1>6. C \in [Cmds -> {"none", "event", "discovered"}]
      /\ \A c \in Cmds : C[c] # "none" <=> Has(T, t, c) \/ Has(T, s, c)
  <2>1. into.cmds \in [Cmds -> {"none", "event", "discovered"}] /\ d.cmds \in [Cmds -> {"none", "event", "discovered"}]
    BY <1>2, <1>4 DEF Device
  <2>2. ASSUME NEW c \in Cmds
        PROVE  C[c] \in {"none", "event", "discovered"} /\ (C[c] # "none" <=> Has(T, t, c) \/ Has(T, s, c))
    BY <1>4, <1>5, <2>1
  <2> QED
    BY <2>2
<1>7. A \in SUBSET Acts /\ P \in SUBSET Cmds /\ Q \in SUBSET (Acts \X Slugs) /\ G \in SUBSET Slugs /\ j \in Eqs \cup {0}
      /\ id.linked \in BOOLEAN /\ id.disabled \in BOOLEAN
  BY <1>2, <1>3, <1>4 DEF Device, Identities
<1>8. P = Pend(T, t) \cup Pend(T, s)
  BY <1>4, <1>5
<1> HIDE DEF A, P, Q, G, j, C
<1>9. m \in Device /\ m.cmds = C /\ m.pend = P /\ m.rev = into.rev
  BY <1>4, <1>6, <1>7 DEF Device
<1> HIDE DEF m
<1>10. M = With(T, t, m) /\ M \in Stores /\ M.dev[t] = m /\ \A k \in Slugs \ {t} : M.dev[k] = T.dev[k]
  <2>1. M = [T EXCEPT !.dev = [T.dev EXCEPT ![t] = m]]
    BY DEF M
  <2> HIDE DEF M
  <2>2. t \in Slugs /\ m \in Device
    BY <1>3, <1>9
  <2>3. [T EXCEPT !.dev = [T.dev EXCEPT ![t] = m]] = With(T, t, m)
    BY <2>2, WithFacts
  <2>4. /\ With(T, t, m) \in Stores /\ With(T, t, m).dev[t] = m
        /\ \A k \in Slugs \ {t} : With(T, t, m).dev[k] = T.dev[k]
    BY <2>2, WithFacts
  <2>5. M = With(T, t, m)
    BY <2>1, <2>3
  <2> QED
    BY <2>4, <2>5
<1>10a. M.next = T.next
  BY <1>10 DEF With
<1>11. /\ R \in Stores /\ R.next = T.next /\ R.dev[t] = m /\ (t # s => R.dev[s] = NoDevice)
       /\ \A k \in Slugs \ {s, t} : R.dev[k] = T.dev[k]
  <2>1. CASE t = s
    BY <1>1, <1>10, <1>10a, <2>1 DEF d
  <2>2. CASE t # s
    <3> DEFINE f == [M.dev EXCEPT ![s] = NoDevice]
    <3>1. R = [M EXCEPT !.dev = f]
      BY <1>1, <2>2 DEF d
    <3>2. f \in [Slugs -> Device \cup {NoDevice}] /\ f[s] = NoDevice /\ f[t] = m
          /\ \A k \in Slugs \ {s, t} : f[k] = T.dev[k]
      BY <1>3, <1>10, <2>2 DEF Stores
    <3> HIDE DEF f
    <3>3. R \in Stores /\ R.dev = f /\ R.next = T.next
      BY <1>10, <1>10a, <3>1, <3>2 DEF Stores
    <3> QED
      BY <2>2, <3>2, <3>3
  <2> QED
    BY <2>1, <2>2
<1>12. m # NoDevice
  BY <1>9, DeviceIsLive
<1>13. /\ Pend(R, t) = Pend(T, t) \cup Pend(T, s)
       /\ \A c \in Cmds : Has(R, t, c) <=> Has(T, t, c) \/ Has(T, s, c)
  BY <1>6, <1>8, <1>9, <1>11, <1>12 DEF Pend, Has
<1>14. t # s => Pend(R, s) = {} /\ \A c \in Cmds : ~Has(R, s, c)
  BY <1>11 DEF Pend, Has
<1>15. \A k \in Slugs \ {s, t} : Pend(R, k) = Pend(T, k) /\ \A c \in Cmds : Has(R, k, c) <=> Has(T, k, c)
  BY <1>11 DEF Pend, Has
<1>16. ASSUME Clean(T), NEW c \in Cmds, NEW k \in Slugs, c \in Pend(R, k)
       PROVE  Owners(R, c) = {}
  <2>1. c \in Pend(T, t) \/ c \in Pend(T, s) \/ c \in Pend(T, k)
    BY <1>13, <1>14, <1>15, <1>16
  <2>2. Owners(T, c) = {}
    BY <1>3, <1>16, <2>1 DEF Clean
  <2>3. \A x \in Slugs : ~Has(T, x, c)
    BY <2>2 DEF Owners
  <2>4. \A x \in Slugs : ~Has(R, x, c)
    BY <1>3, <1>13, <1>14, <1>15, <2>3
  <2> QED
    BY <2>4 DEF Owners
<1>17. Known(T) \subseteq Known(R)
  <2> SUFFICES ASSUME NEW c \in Known(T) PROVE \E k \in Slugs : Has(R, k, c) \/ c \in Pend(R, k)
    BY DEF Known, Owners
  <2>1. PICK k \in Slugs : Has(T, k, c) \/ c \in Pend(T, k)
    BY DEF Known, Owners
  <2>2. c \in Cmds
    BY DEF Known
  <2>3. CASE k \in {s, t}
    BY <1>3, <1>13, <2>1, <2>2, <2>3
  <2>4. CASE k \notin {s, t}
    BY <1>15, <2>1, <2>2, <2>4
  <2> QED
    BY <2>3, <2>4
<1>18. ASSUME Ranked(T) PROVE Ranked(R)
  <2>1. T.next \in Nat /\ Live(R) \subseteq Live(T) \cup {t}
    BY <1>2, <1>3, <1>11 DEF Stores, Live
  <2>2. \A k \in Live(R) : R.dev[k].rev = IF k \in Live(T) THEN T.dev[k].rev ELSE 0
    <3> SUFFICES ASSUME NEW k \in Live(R) PROVE R.dev[k].rev = IF k \in Live(T) THEN T.dev[k].rev ELSE 0
      OBVIOUS
    <3>1. CASE k = t
      BY <1>4, <1>9, <1>11, <3>1
    <3>2. CASE k # t
      <4>1. k # s /\ k \in Slugs
        BY <1>11, <3>2 DEF Live
      <4> QED
        BY <1>11, <2>1, <3>2, <4>1
    <3> QED
      BY <3>1, <3>2
  <2>3. ASSUME NEW k \in Live(R)
        PROVE  /\ R.dev[k].rev \in 0..R.next
               /\ \A l \in Live(R) : R.dev[k].rev # 0 /\ R.dev[l].rev = R.dev[k].rev => l = k
    BY <1>11, <1>18, <2>1, <2>2 DEF Ranked
  <2> QED
    BY <2>3 DEF Ranked
<1> QED
  BY <1>11, <1>16, <1>17, <1>18 DEF Clean

\* The stores without a tombstone of an owned command, or without a revision two
\* devices have, if T is one, and with what T knows.
Cleaned(T) == {U \in Stores : /\ (Clean(T) => Clean(U)) /\ Known(T) \subseteq Known(U)
                              /\ Ranked(T) => Ranked(U)}
Merged(T, r) == InOrder(LAMBDA U, s : MergeDevice(U, r, s), T, Live(T))

LEMMA MergedFacts ==
    ASSUME NEW T \in Stores, NEW r \in Resolvers
    PROVE  Merged(T, r) \in Cleaned(T)
<1> DEFINE X == Cleaned(T)
           S == Live(T)
           F == [p \in X \X S |-> MergeDevice(p[1], r, p[2])]
           iter == CHOOSE g : g = [V \in SUBSET S |->
                      IF V = {} THEN T ELSE MergeDevice(g[V \ {Max(V)}], r, Max(V))]
<1>1. Merged(T, r) = iter[S]
  BY DEF Merged, InOrder, MapThenFoldSet
<1>2. S \in SUBSET Nat /\ IsFiniteSet(S) /\ T \in X
  BY LiveIsFinite DEF Live, Cleaned
<1>3. \A U \in X, s \in S : MergeDevice(U, r, s) \in X
  <2> TAKE U \in X, s \in S
  <2>1. U \in Stores /\ s \in Slugs
    BY DEF Cleaned, Live
  <2> QED
    BY <2>1, MergeDeviceFacts DEF Cleaned
<1>4. iter = [V \in SUBSET S |-> IF V = {} THEN T ELSE MergeDevice(iter[V \ {Max(V)}], r, Max(V))]
  <2>1. F \in [X \X S -> X]
    BY <1>3
  <2>2. PICK g \in [SUBSET S -> X] : Stages(g, S, T, F)
    <3> HIDE DEF F, X, S
    <3> QED
      BY <1>2, <2>1, LoopExists
  <2>3. g = [V \in SUBSET S |-> IF V = {} THEN T ELSE MergeDevice(g[V \ {Max(V)}], r, Max(V))]
    <3>1. ASSUME NEW V \in SUBSET S, V # {}
          PROVE  F[<<g[V \ {Max(V)}], Max(V)>>] = MergeDevice(g[V \ {Max(V)}], r, Max(V))
      <4> HIDE DEF X, S
      <4>1. g[V \ {Max(V)}] \in X /\ Max(V) \in S
        BY <1>2, <3>1, LastInside
      <4> QED
        BY <4>1
    <3> HIDE DEF F, X, S
    <3> QED
      BY <2>2, <3>1 DEF Stages
  <2> QED
    BY <2>3
<1> HIDE DEF iter, X, S
<1>5. iter[{}] \in X
  BY <1>2, <1>4
<1>6. ASSUME NEW V \in SUBSET S, V # {}, Max(V) \in S, iter[V \ {Max(V)}] \in X PROVE iter[V] \in X
  BY <1>3, <1>4, <1>6
<1>7. iter[S] \in X
  BY <1>2, <1>5, <1>6, LoopStays
<1> QED
  BY <1>1, <1>7 DEF X

LEMMA ReconcileFacts ==
    ASSUME NEW T \in Stores, NEW r \in Resolvers
    PROVE  LET U == ReconcileResolver(T, r) IN
           /\ U \in Stores /\ Single(U) /\ Indexed(U) /\ (Clean(T) => Clean(U))
           /\ Known(T) \subseteq Known(U)
           /\ Ranked(T) => Distinct(U)
<1> DEFINE M == Merged(T, r)
           I == RebuildIndexes(M)
           B == BumpAll(I)
           P == Placed(B, r)
<1>1. ReconcileResolver(T, r) = Numbered(P)
  BY DEF ReconcileResolver, Merged
<1>2. M \in Stores /\ (Clean(T) => Clean(M)) /\ Known(T) \subseteq Known(M) /\ (Ranked(T) => Ranked(M))
  BY MergedFacts DEF Cleaned
<1> HIDE DEF M
<1>3. I \in Stores /\ (Clean(T) => Clean(I)) /\ Known(T) \subseteq Known(I) /\ (Ranked(T) => Ranked(I))
  BY <1>2, RebuildFacts, CountedRanked
<1> HIDE DEF I
<1>4. B \in Stores /\ (Clean(T) => Clean(B)) /\ Known(T) \subseteq Known(B) /\ (Ranked(T) => Ranked(B))
  <2>1. B \in Stores /\ Alike(I, B) /\ Counted(I, B)
    BY <1>3, BumpAllFrame DEF Frame, Same
  <2> QED
    BY <1>3, <2>1, SameOwners, CountedRanked
<1> HIDE DEF B
<1>5. /\ P \in Stores /\ Single(P) /\ Indexed(P) /\ (Clean(T) => Clean(P)) /\ Known(T) \subseteq Known(P)
      /\ (Ranked(T) => Ranked(P)) /\ Settled(P)
  BY <1>4, PlacedFacts, CountedRanked
<1> HIDE DEF P
<1> DEFINE U == Numbered(P)
<1>6. U \in Stores /\ Alike(P, U) /\ (Ranked(P) /\ Settled(P) => Distinct(U))
  BY <1>5, NumberedFacts
<1> HIDE DEF U
<1>7. Single(U) /\ Indexed(U) /\ (Clean(P) => Clean(U)) /\ Known(U) = Known(P)
  BY <1>5, <1>6, SameOwners
<1> QED
  BY <1>1, <1>5, <1>6, <1>7 DEF U

\* What a cache file holds, and the ones that have nothing to remove that a device owns.
Files == [Slugs -> Device \cup {NoDevice}]
CleanFile(f) == \A c \in Cmds, s, k \in Slugs :
    f[s] # NoDevice /\ c \in f[s].pend => f[k] = NoDevice \/ f[k].cmds[c] = "none"

\* The commands somebody owns in a file, and those it has not forgotten.
Held(f) == {c \in Cmds : \E s \in Slugs : f[s] # NoDevice /\ f[s].cmds[c] # "none"}
Kept(f) == Held(f) \cup {c \in Cmds : \E s \in Slugs : f[s] # NoDevice /\ c \in f[s].pend}

LEMMA FileOfStore ==
    ASSUME NEW T \in Stores
    PROVE  /\ T.dev \in Files /\ (Clean(T) <=> CleanFile(T.dev))
           /\ Known(T) = Kept(T.dev) /\ \A c \in Cmds : c \in Held(T.dev) <=> Owners(T, c) # {}
<1>1. T.dev \in Files
  BY DEF Stores, Files
<1>2. \A c \in Cmds : c \in Held(T.dev) <=> Owners(T, c) # {}
  BY DEF Held, Owners, Has
<1>3. Known(T) = Kept(T.dev)
  BY <1>2 DEF Known, Kept, Held, Pend
<1> QED
  BY <1>1, <1>2, <1>3 DEF Clean, CleanFile, Pend, Owners, Has

LEMMA LoadFacts ==
    ASSUME NEW f \in Files, NEW r \in Resolvers
    PROVE  LET U == Load(f, r) IN
           /\ U \in Stores /\ Single(U) /\ Indexed(U) /\ (CleanFile(f) => Clean(U))
           /\ Kept(f) \subseteq Known(U)
           /\ Distinct(U)
<1> DEFINE d == [s \in Slugs |-> IF f[s] = NoDevice THEN NoDevice ELSE [f[s] EXCEPT !.rev = 0]]
           T == [dev |-> d, index |-> [c \in Cmds |-> 0], eqs |-> [e \in Eqs |-> 0],
                 next |-> 0, log |-> <<>>, touched |-> {}]
           I == RebuildIndexes(T)
<1>1. Load(f, r) = ReconcileResolver(I, r)
  BY DEF Load, Loaded
<1>2. ASSUME NEW s \in Slugs
      PROVE  /\ d[s] \in Device \cup {NoDevice} /\ (d[s] = NoDevice <=> f[s] = NoDevice)
             /\ f[s] # NoDevice => d[s].cmds = f[s].cmds /\ d[s].pend = f[s].pend /\ d[s].rev = 0
  <2>1. f[s] \in Device \cup {NoDevice}
    BY DEF Files
  <2>2. CASE f[s] = NoDevice
    BY <2>2
  <2>3. CASE f[s] # NoDevice
    <3> DEFINE x == [f[s] EXCEPT !.rev = 0]
    <3>1. x \in Device /\ x.cmds = f[s].cmds /\ x.pend = f[s].pend /\ x.rev = 0
      BY <2>1, <2>3 DEF Device
    <3>2. d[s] = x
      BY <2>3
    <3> HIDE DEF x, d
    <3> QED
      BY <2>3, <3>1, <3>2, DeviceIsLive
  <2> QED
    BY <2>2, <2>3
<1>3. d \in Files
  <2> HIDE DEF d
  <2>1. d = [s \in Slugs |-> d[s]]
    BY DEF d
  <2> QED
    BY <1>2, <2>1 DEF Files
<1>4. (CleanFile(f) => CleanFile(d)) /\ Kept(d) = Kept(f)
  <2> HIDE DEF d
  <2>1. CleanFile(f) => CleanFile(d)
    BY <1>2 DEF CleanFile
  <2>2. Held(d) = Held(f)
    BY <1>2 DEF Held
  <2> QED
    BY <1>2, <2>1, <2>2 DEF Kept
<1>4a. \A s \in Slugs : d[s] # NoDevice => d[s].rev = 0
  BY <1>2
<1> HIDE DEF d
<1>5. T \in Stores /\ T.dev = d /\ T.next = 0
  BY <1>3 DEF Stores, Files
<1> HIDE DEF T
<1>5a. Ranked(T)
  BY <1>4a, <1>5 DEF Ranked, Live
<1>6. I \in Stores /\ (Clean(T) => Clean(I)) /\ Known(I) = Known(T) /\ Ranked(I)
  BY <1>5, <1>5a, RebuildFacts, CountedRanked
<1>7. (Clean(T) <=> CleanFile(d)) /\ Known(T) = Kept(d)
  BY <1>5, FileOfStore
<1> HIDE DEF I
<1> QED
  BY <1>1, <1>4, <1>6, <1>7, ReconcileFacts

-----------------------------------------------------------------------------
(* The bridge                                                              *)

Sound(T) == T \in Stores /\ Single(T) /\ Indexed(T) /\ Distinct(T)

\* What is owned in the store, and the revisions there; what the cache file holds.
OwnersInv == Sound(Store) /\ saved \in Files /\ resolver \in Resolvers /\ catalog \in Catalogs

\* No tombstone of an owned command waits, there or in the file.
TombInv == Clean(Store) /\ CleanFile(saved)

\* The store becomes what an operation returns; what is left of the call does not matter.
LEMMA BecomesFacts ==
    ASSUME NEW T, Sound(T), Becomes(T)
    PROVE  Sound(Store)' /\ (Clean(T) => Clean(Store)') /\ Known(Store)' = Known(T)
<1> DEFINE U == [dev |-> T.dev, index |-> T.index, eqs |-> T.eqs, next |-> T.next, log |-> <<>>, touched |-> {}]
<1>1. Store' = U
  BY DEF Becomes, Store
<1>2. T \in Stores
  BY DEF Sound
<1>3. U = Noted(T, T.next, <<>>, {}) /\ T.next \in Nat
  BY <1>2 DEF Noted, Stores
<1> HIDE DEF U
<1>4. U \in Stores /\ Alike(T, U) /\ Live(U) = Live(T)
  <2>1. <<>> \in Seq(Slugs) /\ {} \in SUBSET Slugs
    OBVIOUS
  <2> QED
    BY <1>2, <1>3, <2>1, NotedSame
<1>4a. U.dev = T.dev /\ U.next = T.next
  BY <1>3 DEF Noted
<1>4b. Distinct(U)
  BY <1>4, <1>4a DEF Sound, Distinct, Ranked
<1>5. Sound(U) /\ (Clean(T) => Clean(U)) /\ Known(U) = Known(T)
  BY <1>4, <1>4b, SameOwners DEF Sound
<1> QED
  BY <1>1, <1>5

LEMMA StoreStays ==
    ASSUME Sound(Store), UNCHANGED store
    PROVE  Sound(Store)' /\ (Clean(Store) => Clean(Store)')
<1>1. Store' = Store
  BY DEF store, Store
<1> QED
  BY <1>1

\* An acknowledgement only forgets tombstones, those it is for.
LEMMA AcknowledgeFacts ==
    ASSUME NEW T, Sound(T), NEW P, NEW Q
    PROVE  LET f == AcknowledgeActionCleanups(AcknowledgeCommandCleanups(T.dev, P), Q)
               U == [T EXCEPT !.dev = f]
           IN  /\ Sound(U) /\ (Clean(T) => Clean(U))
               /\ Held(U.dev) = Held(T.dev)
               /\ Known(T) \ P \subseteq Known(U)
<1> DEFINE g == AcknowledgeCommandCleanups(T.dev, P)
           f == AcknowledgeActionCleanups(g, Q)
           U == [T EXCEPT !.dev = f]
<1>1. T \in Stores
  BY DEF Sound
<1>2. ASSUME NEW s \in Slugs
      PROVE  /\ g[s] \in Device \cup {NoDevice} /\ (g[s] = NoDevice <=> T.dev[s] = NoDevice)
             /\ T.dev[s] # NoDevice => g[s].cmds = T.dev[s].cmds /\ g[s].pend = T.dev[s].pend \ P /\ g[s].rev = T.dev[s].rev
  <2>1. T.dev[s] \in Device \cup {NoDevice}
    BY <1>1 DEF Stores
  <2>2. CASE T.dev[s] = NoDevice
    BY <2>2 DEF AcknowledgeCommandCleanups
  <2>3. CASE T.dev[s] # NoDevice
    <3> DEFINE A == T.dev[s].pend \ P
               x == [T.dev[s] EXCEPT !.pend = A]
    <3>1. g[s] = x
      BY <2>3 DEF AcknowledgeCommandCleanups
    <3>2. A \in SUBSET Cmds /\ A = T.dev[s].pend \ P
      BY <2>1, <2>3 DEF Device
    <3> HIDE DEF A
    <3>3. x \in Device /\ x.cmds = T.dev[s].cmds /\ x.pend = A /\ x.rev = T.dev[s].rev
      BY <2>1, <2>3, <3>2 DEF Device
    <3> HIDE DEF x, g
    <3> QED
      BY <2>3, <3>1, <3>2, <3>3, DeviceIsLive
  <2> QED
    BY <2>2, <2>3
<1> HIDE DEF g
<1>3. ASSUME NEW s \in Slugs
      PROVE  /\ f[s] \in Device \cup {NoDevice} /\ (f[s] = NoDevice <=> g[s] = NoDevice)
             /\ g[s] # NoDevice => f[s].cmds = g[s].cmds /\ f[s].pend = g[s].pend /\ f[s].rev = g[s].rev
  <2>1. g[s] \in Device \cup {NoDevice}
    BY <1>2
  <2>2. CASE g[s] = NoDevice
    BY <2>2 DEF AcknowledgeActionCleanups
  <2>3. CASE g[s] # NoDevice
    <3> DEFINE A == g[s].pendActs \ Q
               x == [g[s] EXCEPT !.pendActs = A]
    <3>1. f[s] = x
      BY <2>3 DEF AcknowledgeActionCleanups
    <3>2. A \in SUBSET (Acts \X Slugs)
      BY <2>1, <2>3 DEF Device
    <3> HIDE DEF A
    <3>3. x \in Device /\ x.cmds = g[s].cmds /\ x.pend = g[s].pend /\ x.rev = g[s].rev
      BY <2>1, <2>3, <3>2 DEF Device
    <3> HIDE DEF x, f
    <3> QED
      BY <2>3, <3>1, <3>3, DeviceIsLive
  <2> QED
    BY <2>2, <2>3
<1>4. f \in [Slugs -> Device \cup {NoDevice}]
  <2>1. f = [s \in Slugs |-> f[s]]
    BY DEF AcknowledgeActionCleanups
  <2> HIDE DEF f
  <2> QED
    BY <1>3, <2>1
<1> HIDE DEF f
<1>5. U \in Stores /\ U.dev = f /\ U.index = T.index /\ U.next = T.next
  BY <1>1, <1>4 DEF Stores
<1> HIDE DEF U
<1>6. \A s \in Slugs : Pend(U, s) = Pend(T, s) \ P /\ \A c \in Cmds : Has(U, s, c) <=> Has(T, s, c)
  BY <1>2, <1>3, <1>5 DEF Pend, Has
<1>7. \A c \in Cmds : Owners(U, c) = Owners(T, c)
  BY <1>6 DEF Owners
<1>7a. Live(U) = Live(T) /\ \A s \in Live(T) : U.dev[s].rev = T.dev[s].rev
  BY <1>2, <1>3, <1>5 DEF Live
<1>7b. Distinct(U)
  BY <1>5, <1>7a DEF Sound, Distinct, Ranked
<1>8. Sound(U) /\ (Clean(T) => Clean(U))
  BY <1>5, <1>6, <1>7, <1>7b DEF Sound, Single, Indexed, Clean
<1>9. Known(T) \ P \subseteq Known(U)
  BY <1>6, <1>7 DEF Known
<1>10. Held(U.dev) = Held(T.dev)
  BY <1>1, <1>5, <1>7, FileOfStore DEF Held
<1> QED
  BY <1>8, <1>9, <1>10 DEF U, f, g

\* What goroutines do with snapshots and gates leaves the ownership alone.
LEMMA PublishingKeepsOwners ==
    ASSUME OwnersInv, NEW t \in Threads, Publishing(t)
    PROVE  OwnersInv' /\ (TombInv => TombInv')
<1>1. CASE UNCHANGED <<store, resolver, catalog, saved>>
  <2>1. Sound(Store)' /\ (Clean(Store) => Clean(Store)')
    BY <1>1, StoreStays DEF OwnersInv
  <2> QED
    BY <1>1, <2>1 DEF OwnersInv, TombInv
<1>2. CASE Acknowledge(t)
  <2> DEFINE sn == Head(th[t].todo)
             f == AcknowledgeActionCleanups(AcknowledgeCommandCleanups(Store.dev, sn.d.pend), sn.d.pendActs)
             U == [Store EXCEPT !.dev = f]
  <2>1. Sound(U) /\ (Clean(Store) => Clean(U))
    BY AcknowledgeFacts DEF OwnersInv
  <2>2. UNCHANGED <<index, eqs, next, resolver, catalog, saved>> /\ dev' = f
    BY <1>2 DEF Acknowledge, Store
  <2> HIDE DEF f
  <2>3. Becomes(U)
    BY <2>2 DEF Becomes, Store
  <2> HIDE DEF U
  <2>4. Sound(Store)' /\ (Clean(U) => Clean(Store)')
    BY <2>1, <2>3, BecomesFacts
  <2> QED
    BY <2>1, <2>2, <2>4 DEF OwnersInv, TombInv
<1>3. CASE Save(t)
  <2>1. UNCHANGED <<store, resolver, catalog>> /\ saved' \in {dev, saved}
    BY <1>3 DEF Save, Write
  <2>2. Sound(Store)' /\ (Clean(Store) => Clean(Store)')
    BY <2>1, StoreStays DEF OwnersInv
  <2>3. dev \in Files /\ (Clean(Store) => CleanFile(dev))
    <3>1. Store \in Stores /\ Store.dev = dev
      BY DEF OwnersInv, Sound, Store
    <3> QED
      BY <3>1, FileOfStore
  <2> QED
    BY <2>1, <2>2, <2>3 DEF OwnersInv, TombInv
<1>4. CASE LockGate(t) \/ SendTombstones(t) \/ SendAliases(t) \/ SendDiscovery(t) \/ SendState(t) \/ SendFails(t)
  BY <1>1, <1>4 DEF LockGate, SendTombstones, SendAliases, SendDiscovery, SendState, SendFails, Sent
<1> QED
  BY <1>2, <1>3, <1>4 DEF Publishing

LEMMA EventKeepsOwners ==
    ASSUME OwnersInv, NEW t \in Messages, NEW c \in Cmds, NEW valued, Event(t, c, valued)
    PROVE  OwnersInv' /\ (TombInv => TombInv')
<1> DEFINE n == NameOf[EqOf[c]]
           T == Apply(Store, resolver, c, n)
<1>1. n \in Slugs /\ Store \in Stores /\ resolver \in Resolvers
  BY IdsHaveEquipment DEF OwnersInv, Sound
<1>2. T \in Keeping(Store) /\ Distinct(T)
  BY <1>1, ApplyKeeping DEF OwnersInv, Sound
<1>3. Becomes(T) /\ UNCHANGED <<resolver, catalog, saved>>
  BY DEF Event
<1> HIDE DEF T
<1>4. Sound(T) /\ (Clean(Store) => Clean(T))
  BY <1>2 DEF Keeping, OwnersInv, Sound
<1>5. Sound(Store)' /\ (Clean(T) => Clean(Store)')
  BY <1>3, <1>4, BecomesFacts
<1> QED
  BY <1>3, <1>4, <1>5 DEF OwnersInv, TombInv

LEMMA DiscoveryKeepsOwners ==
    ASSUME OwnersInv, NEW t \in Messages, NEW e \in Eqs, NEW cs \in SUBSET Cmds, NEW as \in SUBSET Acts,
           Discovery(t, e, cs, as)
    PROVE  OwnersInv' /\ (TombInv => TombInv')
<1> DEFINE D == Discovered(Store, resolver, e, cs, as, NameOf[e])
<1>1. NameOf[e] \in Slugs /\ Store \in Stores /\ resolver \in Resolvers /\ Single(Store)
  BY IdsHaveEquipment DEF OwnersInv, Sound
<1>2. D.T \in Stores /\ D.slug \in Live(D.T) /\ D.T \in Owning(Store) /\ Ranked(D.T)
  <2>1. D.T \in Stores /\ D.slug \in Live(D.T) /\ D.T \in Owning(Store)
    BY <1>1, DiscoveredOwning
  <2>2. Ranked(Store)
    BY DEF OwnersInv, Sound, Distinct
  <2> HIDE DEF D
  <2>3. Ranked(D.T)
    BY <1>1, <2>1, <2>2, OwningFacts, CountedRanked
  <2> QED
    BY <2>1, <2>3
<1>3. PICK primary \in IF LinkedTargets(D) = {} THEN {D.slug} ELSE LinkedTargets(D) :
        Becomes(Numbered(DiscoveryFor(D, resolver, primary)))
  BY DEF Discovery
<1>4. UNCHANGED <<resolver, catalog, saved>>
  BY DEF Discovery
<1> HIDE DEF D
<1>5. primary \in Live(D.T)
  BY <1>2 DEF LinkedTargets
<1> DEFINE T == Numbered(DiscoveryFor(D, resolver, primary))
<1>6. Sound(T) /\ (Clean(D.T) => Clean(T))
  BY <1>1, <1>2, <1>5, DiscoveryForFacts DEF Sound
<1>7. Becomes(T)
  BY <1>3
<1> HIDE DEF T
<1>8. Clean(Store) => Clean(T)
  BY <1>2, <1>6 DEF Owning, Keeping
<1>9. Sound(Store)' /\ (Clean(T) => Clean(Store)')
  BY <1>6, <1>7, BecomesFacts
<1> QED
  BY <1>4, <1>8, <1>9 DEF OwnersInv, TombInv

LEMMA ReconcileKeepsOwners ==
    ASSUME OwnersInv, Reconcile
    PROVE  OwnersInv' /\ (TombInv => TombInv')
<1> DEFINE r == NewCatalogResolver(catalog)
           T == ReconcileResolver(Store, r)
<1>1. r \in Resolvers /\ Store \in Stores /\ Ranked(Store)
  BY NewCatalogResolverType DEF OwnersInv, Sound, Distinct
<1>2. Becomes(T) /\ resolver' = r /\ UNCHANGED <<catalog, saved>>
  BY DEF Reconcile
<1> HIDE DEF r
<1>3. Sound(T) /\ (Clean(Store) => Clean(T))
  BY <1>1, ReconcileFacts DEF Sound
<1> HIDE DEF T
<1>4. Sound(Store)' /\ (Clean(T) => Clean(Store)')
  BY <1>2, <1>3, BecomesFacts
<1> QED
  BY <1>1, <1>2, <1>3, <1>4 DEF OwnersInv, TombInv

LEMMA CrashKeepsOwners ==
    ASSUME OwnersInv, Crash
    PROVE  OwnersInv' /\ (TombInv => TombInv')
<1> DEFINE r == NewCatalogResolver(catalog)
           T == Load(saved, r)
<1>1. r \in Resolvers /\ saved \in Files
  BY NewCatalogResolverType DEF OwnersInv
<1>2. Becomes(T) /\ saved' \in {T.dev, saved} /\ resolver' = r /\ UNCHANGED catalog
  BY DEF Crash
<1> HIDE DEF r
<1>3. Sound(T) /\ (CleanFile(saved) => Clean(T))
  BY <1>1, LoadFacts DEF Sound
<1> HIDE DEF T
<1>4. Sound(Store)' /\ (Clean(T) => Clean(Store)')
  BY <1>2, <1>3, BecomesFacts
<1>5. T.dev \in Files /\ (Clean(T) => CleanFile(T.dev))
  BY <1>3, FileOfStore DEF Sound
<1> QED
  BY <1>1, <1>2, <1>3, <1>4, <1>5 DEF OwnersInv, TombInv

LEMMA OwnersStep ==
    ASSUME OwnersInv, [Next]_vars
    PROVE  OwnersInv' /\ (TombInv => TombInv')
<1>1. CASE UNCHANGED <<store, resolver, catalog, saved>>
  <2>1. Sound(Store)' /\ (Clean(Store) => Clean(Store)')
    BY <1>1, StoreStays DEF OwnersInv
  <2> QED
    BY <1>1, <2>1 DEF OwnersInv, TombInv
<1>2. CASE \E t \in Threads : Publishing(t)
  BY <1>2, PublishingKeepsOwners
<1>3. CASE \E t \in Messages : Receive(t)
  <2>1. PICK t \in Messages : Receive(t)
    BY <1>3
  <2>2. CASE \E c \in Cmds, valued \in Valued : Event(t, c, valued)
    BY <2>2, EventKeepsOwners
  <2>3. CASE \E e \in Eqs : \E cs \in SUBSET {c \in Cmds : EqOf[c] = e}, as \in SUBSET {a \in Acts : EqOf[a] = e} :
                Discovery(t, e, cs, as)
    <3>1. PICK e \in Eqs : \E cs \in SUBSET {c \in Cmds : EqOf[c] = e}, as \in SUBSET {a \in Acts : EqOf[a] = e} :
                              Discovery(t, e, cs, as)
      BY <2>3
    <3>2. PICK cs \in SUBSET {c \in Cmds : EqOf[c] = e}, as \in SUBSET {a \in Acts : EqOf[a] = e} : Discovery(t, e, cs, as)
      BY <3>1
    <3>3. cs \in SUBSET Cmds /\ as \in SUBSET Acts
      OBVIOUS
    <3> QED
      BY <3>2, <3>3, DiscoveryKeepsOwners
  <2> QED
    BY <2>1, <2>2, <2>3 DEF Receive
<1>4. CASE \E r \in Catalogs : SaveCatalog(r)
  <2>1. PICK r \in Catalogs : SaveCatalog(r)
    BY <1>4
  <2>2. UNCHANGED <<store, resolver, saved>> /\ catalog' = r
    BY <2>1 DEF SaveCatalog
  <2>3. Sound(Store)' /\ (Clean(Store) => Clean(Store)')
    BY <2>2, StoreStays DEF OwnersInv
  <2> QED
    BY <2>2, <2>3 DEF OwnersInv, TombInv
<1>5. CASE Reconcile
  BY <1>5, ReconcileKeepsOwners
<1>6. CASE Enqueue
  <2>1. UNCHANGED <<store, resolver, catalog>> /\ saved' \in {dev, saved}
    BY <1>6 DEF Enqueue, Write
  <2>2. Sound(Store)' /\ (Clean(Store) => Clean(Store)')
    BY <2>1, StoreStays DEF OwnersInv
  <2>3. Store \in Stores /\ Store.dev = dev
    BY DEF OwnersInv, Sound, Store
  <2>4. dev \in Files /\ (Clean(Store) => CleanFile(dev))
    BY <2>3, FileOfStore
  <2> QED
    BY <2>1, <2>2, <2>4 DEF OwnersInv, TombInv
<1>7. CASE TakeBatch \/ Replay
  BY <1>1, <1>7 DEF TakeBatch, Replay
<1>8. CASE Crash
  BY <1>8, CrashKeepsOwners
<1>9. CASE UNCHANGED vars
  BY <1>1, <1>9 DEF vars
<1> QED
  BY <1>2, <1>3, <1>4, <1>5, <1>6, <1>7, <1>8, <1>9 DEF Next

LEMMA OwnersInit ==
    ASSUME Init
    PROVE  OwnersInv /\ ((\A f \in Caches : CleanFile(f)) => TombInv)
<1> DEFINE r == NewCatalogResolver(FirstCatalog)
<1>1. PICK cache \in Caches : LET T == Load(cache, r)
         IN  dev = T.dev /\ index = T.index /\ eqs = T.eqs /\ next = T.next /\ saved = T.dev
  BY DEF Init
<1>2. cache \in Files /\ r \in Resolvers /\ resolver = r /\ catalog \in Catalogs
  BY CachesHoldDevices, CatalogsNameSlugs, NewCatalogResolverType DEF Files, Init
<1> HIDE DEF r
<1> DEFINE T == Load(cache, r)
<1>3. Sound(T) /\ (CleanFile(cache) => Clean(T))
  BY <1>2, LoadFacts DEF Sound
<1> HIDE DEF T
<1>4. dev = T.dev /\ index = T.index /\ eqs = T.eqs /\ next = T.next /\ saved = T.dev
  BY <1>1 DEF T
<1>5. Store = Noted(T, T.next, <<>>, {}) /\ T.next \in Nat /\ T \in Stores
  BY <1>3, <1>4 DEF Store, Noted, Sound, Stores
<1>6. Store \in Stores /\ Alike(T, Store)
  <2>1. <<>> \in Seq(Slugs) /\ {} \in SUBSET Slugs
    OBVIOUS
  <2> QED
    BY <1>5, <2>1, NotedSame
<1>6a. Store.dev = T.dev /\ Store.next = T.next /\ Live(Store) = Live(T)
  BY <1>5 DEF Noted, Live
<1>6b. Distinct(Store)
  BY <1>3, <1>6a DEF Sound, Distinct, Ranked
<1>7. Sound(Store) /\ (Clean(T) => Clean(Store))
  BY <1>3, <1>6, <1>6b, SameOwners DEF Sound
<1>8. T.dev \in Files /\ (Clean(T) => CleanFile(T.dev))
  BY <1>5, FileOfStore
<1> QED
  BY <1>2, <1>3, <1>4, <1>7, <1>8 DEF OwnersInv, TombInv

\* However events, discoveries, catalogs and restarts follow each other, an info
\* command belongs to one device at most, and the index has that device
\* (takeCommandFromOtherOwnersLocked, rebuildIndexesLocked), whatever an
\* earlier version left in the cache.
THEOREM OneOwnerEach == Spec => []OneOwner
<1>1. Init => OwnersInv
  BY OwnersInit
<1>2. OwnersInv /\ [Next]_vars => OwnersInv'
  BY OwnersStep
<1>3. OwnersInv => OneOwner
  <2> SUFFICES ASSUME OwnersInv, NEW c \in Cmds
               PROVE  /\ Cardinality(Owners(Store, c)) <= 1
                      /\ index[c] = IF Owners(Store, c) = {} THEN 0 ELSE Min(Owners(Store, c))
    BY DEF OneOwner
  <2>1. Single(Store) /\ Indexed(Store)
    BY DEF OwnersInv, Sound
  <2>2. Cardinality(Owners(Store, c)) <= 1
    <3>1. CASE Owners(Store, c) = {}
      <4>1. Cardinality({}) = 0
        BY FS_EmptySet
      <4> QED
        BY <3>1, <4>1
    <3>2. CASE Owners(Store, c) # {}
      <4>1. PICK s \in Owners(Store, c) : TRUE
        BY <3>2
      <4>2. Owners(Store, c) = {s}
        BY <2>1, <4>1 DEF Single
      <4>3. Cardinality({s}) = 1
        BY FS_Singleton
      <4> QED
        BY <4>2, <4>3
    <3> QED
      BY <3>1, <3>2
  <2>3. Store.index = index
    BY DEF Store
  <2> QED
    BY <2>1, <2>2, <2>3 DEF Indexed
<1> QED
  BY <1>1, <1>2, <1>3, PTL DEF Spec

\* A command some device owns is never waiting to be removed from Home Assistant
\* anywhere (takeCommandFromOtherOwnersLocked, loadIdentities): if the caches a
\* first start may find are like that, it stays so.
THEOREM OwnedIsNotPending ==
    ASSUME \A f \in Caches : CleanFile(f)
    PROVE  Spec => []NoPendingOwned
<1>1. Init => OwnersInv /\ TombInv
  BY OwnersInit
<1>2. (OwnersInv /\ TombInv) /\ [Next]_vars => (OwnersInv /\ TombInv)'
  BY OwnersStep
<1>3. OwnersInv /\ TombInv => NoPendingOwned
  BY DEF TombInv, Clean, Pend, NoPendingOwned, Live, Store
<1> QED
  BY <1>1, <1>2, <1>3, PTL DEF Spec

-----------------------------------------------------------------------------
(* What is sent of a device                                                *)

Snaps == [slug : Slugs, d : Device]

LEMMA SnapshotType ==
    ASSUME NEW T \in Stores, NEW s \in Live(T)
    PROVE  Snapshot(T, s) \in Snaps
BY LiveDevice DEF Snapshot, Snaps

\* A batch has what is said of each of its snapshots.
LEMMA SnapshotsBySlugIn ==
    ASSUME NEW T \in Stores, NEW W, NEW Z, \A s \in Live(T) : Snapshot(T, s) \in Z
    PROVE  SnapshotsBySlug(T, W) \in Seq(Z)
<1> DEFINE X == Seq(Z)
           S == W \cap Live(T)
           F == [p \in X \X S |-> Append(p[1], Snapshot(T, p[2]))]
           iter == CHOOSE g : g = [V \in SUBSET S |->
                      IF V = {} THEN <<>> ELSE Append(g[V \ {Max(V)}], Snapshot(T, Max(V)))]
<1>1. SnapshotsBySlug(T, W) = iter[S]
  BY DEF SnapshotsBySlug, InOrder, MapThenFoldSet
<1>2. S \in SUBSET Nat /\ IsFiniteSet(S) /\ <<>> \in X
  BY LiveIsFinite DEF Live
<1>3. \A out \in X, s \in S : Append(out, Snapshot(T, s)) \in X
  <2>1. \A s \in S : Snapshot(T, s) \in Z
    OBVIOUS
  <2> QED
    BY <2>1
<1>4. iter = [V \in SUBSET S |-> IF V = {} THEN <<>> ELSE Append(iter[V \ {Max(V)}], Snapshot(T, Max(V)))]
  <2>1. F \in [X \X S -> X]
    BY <1>3
  <2>2. PICK g \in [SUBSET S -> X] : Stages(g, S, <<>>, F)
    <3> HIDE DEF F, X, S
    <3> QED
      BY <1>2, <2>1, LoopExists
  <2>3. g = [V \in SUBSET S |-> IF V = {} THEN <<>> ELSE Append(g[V \ {Max(V)}], Snapshot(T, Max(V)))]
    <3>1. ASSUME NEW V \in SUBSET S, V # {}
          PROVE  F[<<g[V \ {Max(V)}], Max(V)>>] = Append(g[V \ {Max(V)}], Snapshot(T, Max(V)))
      <4> HIDE DEF X, S
      <4>1. g[V \ {Max(V)}] \in X /\ Max(V) \in S
        BY <1>2, <3>1, LastInside
      <4> QED
        BY <4>1
    <3> HIDE DEF F, X, S
    <3> QED
      BY <2>2, <3>1 DEF Stages
  <2> QED
    BY <2>3
<1> HIDE DEF iter, X, S
<1>5. iter[{}] \in X
  BY <1>2, <1>4
<1>6. ASSUME NEW V \in SUBSET S, V # {}, Max(V) \in S, iter[V \ {Max(V)}] \in X PROVE iter[V] \in X
  BY <1>3, <1>4, <1>6
<1>7. iter[S] \in X
  BY <1>2, <1>5, <1>6, LoopStays
<1> QED
  BY <1>1, <1>7 DEF X

LEMMA SnapshotsBySlugType ==
    ASSUME NEW T \in Stores, NEW W
    PROVE  SnapshotsBySlug(T, W) \in Seq(Snaps)
BY SnapshotType, SnapshotsBySlugIn

\* Some device has the greatest revision.
LEMMA NewestOf ==
    ASSUME NEW T \in Stores, NEW V \in SUBSET Live(T), V # {}
    PROVE  \E s \in V : \A k \in V : T.dev[k].rev <= T.dev[s].rev
<1> DEFINE R == {T.dev[k].rev : k \in V}
           f == [k \in V |-> T.dev[k].rev]
<1>1. \A k \in V : T.dev[k].rev \in Nat
  BY LiveDevice DEF Device
<1>2. IsFiniteSet(V)
  BY LiveIsFinite DEF Live
<1>3. IsFiniteSet(R)
  <2>1. f \in Surjection(V, R)
    BY DEF Surjection
  <2> QED
    BY <1>2, <2>1, FS_Surjection
<1>4. R \in SUBSET Nat /\ R # {}
  BY <1>1
<1>5. Max(R) \in R /\ \A n \in R : Max(R) >= n
  <2> HIDE DEF R
  <2> QED
    BY <1>3, <1>4, GreatestOf
<1>6. PICK s \in V : Max(R) = T.dev[s].rev
  BY <1>5
<1> QED
  BY <1>1, <1>5, <1>6

LEMMA SnapshotsInPublishOrderIn ==
    ASSUME NEW T \in Stores, NEW W, NEW Z, \A s \in Live(T) : Snapshot(T, s) \in Z
    PROVE  SnapshotsInPublishOrder(T, W) \in Seq(Z)
<1> DEFINE newest(V) == CHOOSE s \in V : \A k \in V : T.dev[k].rev <= T.dev[s].rev
           X == Seq(Z)
           S == W \cap Live(T)
           F == [p \in X \X S |-> Append(p[1], Snapshot(T, p[2]))]
           last == [V \in SUBSET S |-> newest(V)]
           iter == CHOOSE g : g = [V \in SUBSET S |->
                      IF V = {} THEN <<>> ELSE Append(g[V \ {newest(V)}], Snapshot(T, newest(V)))]
<1>1. SnapshotsInPublishOrder(T, W) = iter[S]
  BY DEF SnapshotsInPublishOrder, MapThenFoldSet
<1>2. S \in SUBSET Live(T) /\ IsFiniteSet(S) /\ <<>> \in X
  BY LiveIsFinite DEF Live
<1>3. ASSUME NEW V \in SUBSET S, V # {} PROVE newest(V) \in V
  <2>1. \E s \in V : \A k \in V : T.dev[k].rev <= T.dev[s].rev
    BY <1>2, <1>3, NewestOf
  <2> QED
    BY <2>1
<1> HIDE DEF newest
<1>4. LastOf(last, S) /\ \A V \in SUBSET S : last[V] = newest(V)
  BY <1>3 DEF LastOf
<1>5. \A out \in X, s \in S : Append(out, Snapshot(T, s)) \in X
  <2>1. \A s \in S : Snapshot(T, s) \in Z
    OBVIOUS
  <2> QED
    BY <2>1
<1> HIDE DEF last
<1>6. iter = [V \in SUBSET S |->
                 IF V = {} THEN <<>> ELSE Append(iter[V \ {newest(V)}], Snapshot(T, newest(V)))]
  <2>1. F \in [X \X S -> X]
    BY <1>5
  <2>2. PICK g \in [SUBSET S -> X] : StagesBy(g, S, <<>>, F, last)
    <3> HIDE DEF F, X, S
    <3> QED
      BY <1>2, <1>4, <2>1, LoopExistsBy
  <2>3. g = [V \in SUBSET S |->
                IF V = {} THEN <<>> ELSE Append(g[V \ {newest(V)}], Snapshot(T, newest(V)))]
    <3>1. ASSUME NEW V \in SUBSET S, V # {}
          PROVE  F[<<g[V \ {last[V]}], last[V]>>] = Append(g[V \ {newest(V)}], Snapshot(T, newest(V)))
      <4> HIDE DEF X, S
      <4>1. g[V \ {last[V]}] \in X /\ last[V] \in S /\ last[V] = newest(V)
        BY <1>3, <1>4, <3>1
      <4> QED
        BY <4>1
    <3> HIDE DEF F, X, S
    <3> QED
      BY <2>2, <3>1 DEF StagesBy
  <2> QED
    BY <2>3
<1> HIDE DEF iter, X, S
<1>7. iter[{}] \in X
  BY <1>2, <1>6
<1>8. ASSUME NEW V \in SUBSET S, V # {}, last[V] \in S, iter[V \ {last[V]}] \in X PROVE iter[V] \in X
  BY <1>4, <1>5, <1>6, <1>8
<1>9. iter[S] \in X
  BY <1>2, <1>4, <1>7, <1>8, LoopStaysBy
<1> QED
  BY <1>1, <1>9 DEF X

LEMMA SnapshotsInPublishOrderType ==
    ASSUME NEW T \in Stores, NEW W
    PROVE  SnapshotsInPublishOrder(T, W) \in Seq(Snaps)
BY SnapshotType, SnapshotsInPublishOrderIn

-----------------------------------------------------------------------------
(* What Home Assistant shows of a device                                   *)

Sending == {"tombstones", "aliases", "discovery", "state"}

\* Snapshots are of devices, and who publishes has one to publish.
Batch(t) == /\ th[t].todo \in Seq(Snaps)
            /\ th[t].pc \in Sending \cup {"gates", "acknowledge"} => th[t].todo # <<>>

\* Whoever is at the gates of a device has, or still wants, every one of them.
Entering(t) == th[t].pc = "gates" => \A k \in Keys(Head(th[t].todo)) : k \in th[t].want \/ owner[k] = t

\* Whoever is behind them has them all, and nothing newer went through before.
Inside(t) == th[t].pc \in Sending =>
                LET sn == Head(th[t].todo) IN
                /\ \A k \in Keys(sn) : owner[k] = t
                /\ latest[sn.slug] = sn.d.rev

Publisher(t) == Batch(t) /\ Entering(t) /\ Inside(t)

ShownInv == /\ \A t \in Threads : Publisher(t)
            /\ queue \in Seq(Seq(Snaps))
            /\ latest \in [Slugs -> Nat] /\ shown \in [Slugs -> Nat]

\* Nothing is shown that did not pass the gate of its slug since the start.
Passed == \A s \in Slugs : shown[s] <= latest[s]

\* How often each bounded thing has happened.
SpentInv == spent \in [DOMAIN Limit -> Nat]

LEMMA HeadOf ==
    ASSUME NEW todo \in Seq(Snaps), todo # <<>>
    PROVE  /\ Head(todo) \in Snaps /\ Tail(todo) \in Seq(Snaps)
           /\ Head(todo).slug \in Keys(Head(todo)) /\ Keys(Head(todo)) \subseteq Slugs
           /\ Head(todo).slug \in Slugs /\ Head(todo).d.rev \in Nat
<1>1. Head(todo) \in Snaps /\ Tail(todo) \in Seq(Snaps)
  OBVIOUS
<1> QED
  BY <1>1 DEF Snaps, Keys, Device

\* A goroutine that keeps its gates stays what it is, if it is not the one that steps.
LEMMA OthersStay ==
    ASSUME ShownInv, NEW u \in Threads, th'[u] = th[u],
           \A s \in Slugs : owner[s] = u => owner'[s] = u /\ latest'[s] = latest[s]
    PROVE  Publisher(u)'
<1>1. Batch(u) /\ Entering(u) /\ Inside(u)
  BY DEF ShownInv, Publisher
<1>2. Batch(u)'
  BY <1>1 DEF Batch
<1>3. Entering(u)'
  BY <1>1 DEF Entering, Keys
<1>4. Inside(u)'
  <2> SUFFICES ASSUME th[u].pc \in Sending
               PROVE  /\ \A k \in Keys(Head(th[u].todo)) : owner'[k] = u
                      /\ latest'[Head(th[u].todo).slug] = Head(th[u].todo).d.rev
    BY DEF Inside
  <2>1. Head(th[u].todo).slug \in Keys(Head(th[u].todo)) /\ Keys(Head(th[u].todo)) \subseteq Slugs
    BY <1>1, HeadOf DEF Batch
  <2> QED
    BY <1>1, <2>1 DEF Inside
<1> QED
  BY <1>2, <1>3, <1>4 DEF Publisher

\* What a goroutine may become that has no gates: it may be about to take the first.
Ready(x) == /\ x.todo \in Seq(Snaps) /\ x.pc \notin Sending \cup {"acknowledge"}
            /\ x.pc = "gates" => x.todo # <<>> /\ x.want = Keys(Head(x.todo))

LEMMA ReadyFacts ==
    /\ \A t, dirty : \A todo \in Seq(Snaps) : Ready(Begin(t, todo, dirty))
    /\ \A todo \in Seq(Snaps) : Ready(Saving(todo))
    /\ Ready(Idle)
<1>1. <<>> \in Seq(Snaps)
  OBVIOUS
<1>2. Ready(Idle)
  BY <1>1 DEF Ready, Idle, Sending
<1>3. \A todo \in Seq(Snaps) : Ready(Saving(todo))
  BY DEF Ready, Saving, Sending
<1>4. ASSUME NEW t, NEW dirty, NEW todo \in Seq(Snaps) PROVE Ready(Begin(t, todo, dirty))
  <2>1. CASE todo # <<>>
    BY <2>1 DEF Ready, Begin, Sending
  <2>2. CASE todo = <<>>
    BY <1>1, <2>2 DEF Ready, Begin, Idle, Sending
  <2> QED
    BY <2>1, <2>2
<1> QED
  BY <1>2, <1>3, <1>4

\* A goroutine turns to something else, and releases its gates if it has any.
LEMMA Readies ==
    ASSUME ShownInv, GatesInv, NEW t \in Threads, NEW x, Ready(x), th' = [th EXCEPT ![t] = x],
           \A u \in Threads \ {t} : \A s \in Slugs : owner[s] = u => owner'[s] = u,
           latest' = latest, queue' \in Seq(Seq(Snaps)),
           shown' \in [Slugs -> Nat]
    PROVE  ShownInv'
<1>1. \A u \in Threads \ {t} : Publisher(u)'
  <2>1. \A u \in Threads \ {t} : th'[u] = th[u]
    BY DEF GatesInv, GatesTypes
  <2> QED
    BY <2>1, OthersStay
<1>2. Publisher(t)'
  <2>1. th'[t] = x
    BY DEF GatesInv, GatesTypes
  <2> QED
    BY <2>1 DEF Publisher, Batch, Entering, Inside, Ready
<1> QED
  BY <1>1, <1>2 DEF ShownInv

\* The next group of messages of a device.
LEMMA Follows ==
    ASSUME ShownInv, GatesInv, NEW t \in Threads, NEW pc \in {"tombstones", "aliases", "discovery"}, Sent(t, pc),
           shown' \in [Slugs -> Nat]
    PROVE  ShownInv'
<1> DEFINE sn == Head(th[t].todo)
<1>1. th[t].pc = pc /\ UNCHANGED <<queue, owner, latest>> /\ th' = [th EXCEPT ![t].pc = After(sn, pc)]
  BY DEF Sent, gates
<1>2. After(sn, pc) \in Sending
  BY DEF After, Sending
<1>3. /\ \A u \in Threads \ {t} : th'[u] = th[u]
      /\ th'[t].pc = After(sn, pc) /\ th'[t].todo = th[t].todo
  <2>1. th = [u \in Threads |-> th[u]] /\ IsThread(th[t])
    BY DEF GatesInv, GatesTypes
  <2> HIDE DEF After
  <2> QED
    BY <1>1, <2>1 DEF IsThread
<1>4. \A u \in Threads \ {t} : Publisher(u)'
  BY <1>1, <1>3, OthersStay
<1>5. Publisher(t)'
  <2>1. Batch(t) /\ Inside(t)
    BY DEF ShownInv, Publisher
  <2>2. th[t].pc \in Sending
    BY <1>1 DEF Sending
  <2>3. Batch(t)'
    BY <1>3, <2>1, <2>2 DEF Batch
  <2>4. Inside(t)'
    BY <1>1, <1>3, <2>1, <2>2 DEF Inside, Keys
  <2>5. Entering(t)'
    BY <1>2, <1>3 DEF Entering, Sending
  <2> QED
    BY <2>3, <2>4, <2>5 DEF Publisher
<1> QED
  BY <1>1, <1>4, <1>5 DEF ShownInv

LEMMA LocksShown ==
    ASSUME ShownInv, GatesInv, NEW t \in Threads, LockGate(t)
    PROVE  ShownInv' /\ (Passed => Passed')
<1> DEFINE sn == Head(th[t].todo)
<1>1. /\ th[t].pc = "gates" /\ th[t].want \subseteq Slugs /\ Batch(t) /\ Entering(t)
      /\ th[t].todo \in Seq(Snaps) /\ th[t].todo # <<>> /\ UNCHANGED <<queue, shown>>
      /\ owner \in [Slugs -> Threads \cup {None}] /\ th = [u \in Threads |-> th[u]] /\ IsThread(th[t])
  <2>1. th[t].pc = "gates" /\ UNCHANGED <<queue, shown>>
    BY DEF LockGate, broker
  <2>2. th[t].want \subseteq Slugs /\ owner \in [Slugs -> Threads \cup {None}]
        /\ th = [u \in Threads |-> th[u]] /\ IsThread(th[t])
    BY <2>1 DEF GatesInv, GatesTypes, Ascending
  <2>3. Batch(t) /\ Entering(t)
    BY DEF ShownInv, Publisher
  <2> QED
    BY <2>1, <2>2, <2>3 DEF Batch
<1>2. PICK s \in NextGate(t) :
        /\ owner[s] = None
        /\ \/ /\ th[t].want # {s}
              /\ owner' = [owner EXCEPT ![s] = t]
              /\ th' = [th EXCEPT ![t].want = @ \ {s}]
              /\ latest' = latest
           \/ th[t].want = {s} /\ Release(t) /\ Skip(t) /\ latest' = latest
           \/ /\ th[t].want = {s} /\ ~Stale(sn)
              /\ owner' = [owner EXCEPT ![s] = t]
              /\ latest' = [k \in Slugs |-> IF k \in Keys(sn) /\ sn.d.rev > latest[k]
                                            THEN sn.d.rev ELSE latest[k]]
              /\ th' = [th EXCEPT ![t].want = {}, ![t].pc = After(sn, "gates")]
  BY DEF LockGate
<1>3. /\ sn \in Snaps /\ sn.slug \in Keys(sn) /\ Keys(sn) \subseteq Slugs /\ sn.slug \in Slugs
      /\ sn.d.rev \in Nat /\ Tail(th[t].todo) \in Seq(Snaps)
  BY <1>1, HeadOf
<1>4. /\ queue \in Seq(Seq(Snaps)) /\ latest \in [Slugs -> Nat] /\ shown \in [Slugs -> Nat]
      /\ \A k \in Keys(sn) : k \in th[t].want \/ owner[k] = t
  BY <1>1 DEF ShownInv, Entering
<1>5. CASE th[t].want # {s} /\ owner' = [owner EXCEPT ![s] = t]
           /\ th' = [th EXCEPT ![t].want = @ \ {s}] /\ latest' = latest
  <2>1. /\ \A u \in Threads \ {t} : th'[u] = th[u]
        /\ th'[t].pc = "gates" /\ th'[t].todo = th[t].todo /\ th'[t].want = th[t].want \ {s}
    BY <1>1, <1>5 DEF IsThread
  <2>2. \A u \in Threads \ {t} : Publisher(u)'
    <3>1. \A u \in Threads \ {t} : \A k \in Slugs : owner[k] = u => owner'[k] = u /\ latest'[k] = latest[k]
      BY <1>1, <1>2, <1>5, NobodyIsNone
    <3> QED
      BY <2>1, <3>1, OthersStay
  <2>3. \A k \in Keys(sn) : k \in th[t].want \ {s} \/ owner'[k] = t
    BY <1>1, <1>3, <1>4, <1>5
  <2>4. Batch(t)' /\ Inside(t)'
    BY <1>1, <2>1 DEF Batch, Inside, Sending
  <2>5. Entering(t)'
    BY <2>1, <2>3 DEF Entering, Keys
  <2> QED
    BY <1>1, <1>4, <1>5, <2>2, <2>4, <2>5 DEF ShownInv, Publisher, Passed
<1>6. CASE Release(t) /\ Skip(t) /\ latest' = latest
  <2>1. \A u \in Threads \ {t} : \A k \in Slugs : owner[k] = u => owner'[k] = u
    BY <1>6 DEF Release
  <2>2. Ready(Begin(t, Tail(th[t].todo), th[t].dirty))
    BY <1>3, ReadyFacts
  <2>3. th' = [th EXCEPT ![t] = Begin(t, Tail(th[t].todo), th[t].dirty)]
    BY <1>6 DEF Skip
  <2>4. shown' \in [Slugs -> Nat] /\ (Passed => Passed') /\ queue' \in Seq(Seq(Snaps))
    BY <1>1, <1>4, <1>6 DEF Passed
  <2> QED
    BY <1>6, <2>1, <2>2, <2>3, <2>4, Readies
<1>7. CASE th[t].want = {s} /\ ~Stale(sn) /\ owner' = [owner EXCEPT ![s] = t]
           /\ latest' = [k \in Slugs |-> IF k \in Keys(sn) /\ sn.d.rev > latest[k] THEN sn.d.rev ELSE latest[k]]
           /\ th' = [th EXCEPT ![t].want = {}, ![t].pc = After(sn, "gates")]
  <2>1. /\ \A u \in Threads \ {t} : th'[u] = th[u]
        /\ th'[t].pc = After(sn, "gates") /\ th'[t].todo = th[t].todo
    <3> HIDE DEF sn
    <3> QED
      BY <1>1, <1>7 DEF IsThread
  <2>2. After(sn, "gates") \in Sending
    BY DEF After, Sending
  <2>3. \A k \in Keys(sn) : k = s \/ owner[k] = t
    BY <1>4, <1>7
  <2> HIDE DEF sn
  <2>4. \A k \in Keys(sn) : owner'[k] = t
    BY <1>1, <1>3, <1>7, <2>3
  <2>5. latest' \in [Slugs -> Nat] /\ \A k \in Slugs : latest'[k] >= latest[k]
    BY <1>3, <1>4, <1>7
  <2>6. latest'[sn.slug] = sn.d.rev
    BY <1>3, <1>4, <1>7 DEF Stale
  <2>7. \A u \in Threads \ {t} : Publisher(u)'
    <3>1. ASSUME NEW u \in Threads \ {t}, NEW k \in Slugs, owner[k] = u
          PROVE  owner'[k] = u /\ latest'[k] = latest[k]
      <4>1. k # s
        BY <1>2, <3>1, NobodyIsNone
      <4>2. k \notin Keys(sn)
        BY <2>3, <3>1, <4>1
      <4> QED
        BY <1>1, <1>7, <3>1, <4>1, <4>2
    <3> QED
      BY <2>1, <3>1, OthersStay
  <2>8. Batch(t)'
    BY <1>1, <2>1 DEF Batch
  <2>9. Inside(t)'
    BY <2>1, <2>4, <2>6 DEF Inside, Keys, sn
  <2>10. Entering(t)'
    BY <2>1, <2>2 DEF Entering, Sending
  <2>11. Passed => Passed'
    BY <1>1, <1>4, <2>5 DEF Passed
  <2> QED
    BY <1>1, <1>4, <2>5, <2>7, <2>8, <2>9, <2>10, <2>11 DEF ShownInv, Publisher
<1> QED
  BY <1>2, <1>5, <1>6, <1>7

\* The state is sent by somebody nothing newer has passed.
LEMMA StateShown ==
    ASSUME ShownInv, GatesInv, NEW t \in Threads, SendState(t)
    PROVE  ShownInv' /\ (Passed => Passed' /\ \A s \in Slugs : shown'[s] >= shown[s])
<1> DEFINE sn == Head(th[t].todo)
<1>1. /\ th[t].pc = "state" /\ shown' = [shown EXCEPT ![sn.slug] = sn.d.rev] /\ Release(t)
      /\ UNCHANGED <<queue, latest>> /\ (th' = [th EXCEPT ![t].pc = "acknowledge"] \/ Skip(t))
  BY DEF SendState
<1>2. th[t].todo \in Seq(Snaps) /\ th[t].todo # <<>> /\ latest[sn.slug] = sn.d.rev
  BY <1>1 DEF ShownInv, Publisher, Batch, Inside, Sending
<1>3. sn.slug \in Slugs /\ sn.d.rev \in Nat /\ Tail(th[t].todo) \in Seq(Snaps)
  BY <1>2, HeadOf
<1>4. /\ queue \in Seq(Seq(Snaps)) /\ latest \in [Slugs -> Nat] /\ shown \in [Slugs -> Nat]
  BY DEF ShownInv
<1> HIDE DEF sn
<1>5. /\ shown' \in [Slugs -> Nat]
      /\ Passed => Passed' /\ \A s \in Slugs : shown'[s] >= shown[s]
  BY <1>1, <1>2, <1>3, <1>4 DEF Passed
<1>6. \A u \in Threads \ {t} : \A k \in Slugs : owner[k] = u => owner'[k] = u
  BY <1>1 DEF Release
<1>7. CASE Skip(t)
  <2>1. Ready(Begin(t, Tail(th[t].todo), th[t].dirty))
    BY <1>3, ReadyFacts
  <2>2. th' = [th EXCEPT ![t] = Begin(t, Tail(th[t].todo), th[t].dirty)]
    BY <1>7 DEF Skip
  <2>3. latest' = latest /\ queue' \in Seq(Seq(Snaps))
    BY <1>1, <1>4
  <2> QED
    BY <1>5, <1>6, <2>1, <2>2, <2>3, Readies
<1>8. CASE th' = [th EXCEPT ![t].pc = "acknowledge"]
  <2>1. /\ \A u \in Threads \ {t} : th'[u] = th[u]
        /\ th'[t].pc = "acknowledge" /\ th'[t].todo = th[t].todo
    BY <1>8 DEF GatesInv, GatesTypes, IsThread
  <2>2. \A u \in Threads \ {t} : Publisher(u)'
    BY <1>1, <1>6, <2>1, OthersStay
  <2>3. Publisher(t)'
    BY <1>2, <2>1 DEF Publisher, Batch, Entering, Inside, Sending
  <2> QED
    BY <1>1, <1>4, <1>5, <2>2, <2>3 DEF ShownInv
<1> QED
  BY <1>1, <1>7, <1>8, <1>5

\* Every step keeps the invariant, and every step but a start shows nothing older.
Forward == \A s \in Slugs : shown'[s] >= shown[s] \/ shown'[s] = 0

LEMMA PublishingShown ==
    ASSUME ShownInv, GatesInv, NEW t \in Threads, Publishing(t)
    PROVE  ShownInv' /\ (Passed => Passed' /\ Forward)
<1>1. /\ queue \in Seq(Seq(Snaps)) /\ latest \in [Slugs -> Nat] /\ shown \in [Slugs -> Nat]
      /\ Batch(t)
  BY DEF ShownInv, Publisher
<1>2. shown' = shown => Forward /\ (latest' = latest /\ Passed => Passed')
  BY <1>1 DEF Forward, Passed
<1>3. CASE LockGate(t)
  BY <1>2, <1>3, LocksShown DEF LockGate, broker
<1>4. CASE SendTombstones(t)
  <2>1. Sent(t, "tombstones") /\ shown' = shown /\ latest' = latest
    BY <1>4 DEF SendTombstones, Sent, gates
  <2> QED
    BY <1>1, <1>2, <2>1, Follows
<1>5. CASE SendAliases(t)
  <2> DEFINE A == AliasesOf(Head(th[t].todo))
  <2>1. Sent(t, "aliases") /\ shown' = [s \in Slugs |-> IF s \in A THEN 0 ELSE shown[s]] /\ latest' = latest
    BY <1>5 DEF SendAliases, Sent, gates
  <2> HIDE DEF A
  <2>2. shown' \in [Slugs -> Nat] /\ (Passed => Passed') /\ Forward
    BY <1>1, <2>1 DEF Forward, Passed
  <2> QED
    BY <2>1, <2>2, Follows
<1>6. CASE SendDiscovery(t)
  <2>1. Sent(t, "discovery") /\ shown' = shown /\ latest' = latest
    BY <1>6 DEF SendDiscovery, Sent, gates
  <2> QED
    BY <1>1, <1>2, <2>1, Follows
<1>7. CASE SendState(t)
  BY <1>7, StateShown DEF Forward
<1>8. CASE SendFails(t)
  <2>1. /\ th[t].pc \in Sending /\ Release(t) /\ UNCHANGED <<queue, latest, shown>>
        /\ th' = [th EXCEPT ![t] = Begin(t, Tail(th[t].todo), th[t].dirty)]
    BY <1>8 DEF SendFails, Skip, Sending, broker
  <2>2. Ready(Begin(t, Tail(th[t].todo), th[t].dirty))
    BY <1>1, <2>1, HeadOf, ReadyFacts DEF Batch
  <2>3. \A u \in Threads \ {t} : \A k \in Slugs : owner[k] = u => owner'[k] = u
    BY <2>1 DEF Release
  <2>4. shown' \in [Slugs -> Nat] /\ queue' \in Seq(Seq(Snaps))
    BY <1>1, <2>1
  <2> QED
    BY <1>2, <2>1, <2>2, <2>3, <2>4, Readies
<1>9. CASE Acknowledge(t) \/ Save(t)
  <2>1. UNCHANGED <<queue, owner, latest, shown>>
    BY <1>9 DEF Acknowledge, Save, gates, broker
  <2>2. \E x : Ready(x) /\ th' = [th EXCEPT ![t] = x]
    <3>1. CASE Acknowledge(t)
      <4>1. PICK dirty : th' = [th EXCEPT ![t] = IF t \in Messages /\ dirty
                                THEN [pc |-> "save", todo |-> Tail(th[t].todo), want |-> {}, dirty |-> TRUE]
                                ELSE Begin(t, Tail(th[t].todo), dirty)]
        BY <3>1 DEF Acknowledge, GatesInv, GatesTypes
      <4> DEFINE rest == Tail(th[t].todo)
      <4>2. th' = [th EXCEPT ![t] = Saving(rest)] \/ th' = [th EXCEPT ![t] = Begin(t, rest, dirty)]
        BY <4>1 DEF Saving
      <4>3. rest \in Seq(Snaps)
        BY <1>1, <3>1, HeadOf DEF Batch, Acknowledge
      <4> HIDE DEF rest
      <4> QED
        BY <4>2, <4>3, ReadyFacts
    <3>2. CASE Save(t)
      <4>1. th' = [th EXCEPT ![t] = Begin(t, th[t].todo, FALSE)]
        BY <3>2 DEF Save, GatesInv, GatesTypes
      <4> QED
        BY <1>1, <4>1, ReadyFacts DEF Batch
    <3> QED
      BY <1>9, <3>1, <3>2
  <2>3. /\ \A u \in Threads \ {t} : \A k \in Slugs : owner[k] = u => owner'[k] = u
        /\ shown' \in [Slugs -> Nat] /\ queue' \in Seq(Seq(Snaps))
    BY <1>1, <2>1
  <2> QED
    BY <1>2, <2>1, <2>2, <2>3, Readies
<1> QED
  BY <1>3, <1>4, <1>5, <1>6, <1>7, <1>8, <1>9 DEF Publishing

\* The other steps give a goroutine snapshots to publish, and send nothing.
LEMMA EventShown ==
    ASSUME OwnersInv, NEW t \in Messages, NEW c \in Cmds, NEW valued, Event(t, c, valued)
    PROVE  \E x : Ready(x) /\ th' = [th EXCEPT ![t] = x]
<1> DEFINE n == NameOf[EqOf[c]]
           T == Apply(Store, resolver, c, n)
           s == EventIdentity(Store, resolver, c, n).slug
           batch == Append(SnapshotsBySlug(T, T.touched \ {s}), Snapshot(T, s))
           saves == valued \/ OwnershipChanges(Store, resolver, c, n)
<1>1. n \in Slugs /\ Store \in Stores /\ resolver \in Resolvers
  BY IdsHaveEquipment DEF OwnersInv, Sound
<1>2. T \in Stores /\ s \in Live(T)
  BY <1>1, ApplyKeeping DEF Keeping
<1>3. th' = [th EXCEPT ![t] = IF saves THEN Saving(batch) ELSE Begin(t, batch, FALSE)]
  BY DEF Event, Saving
<1> HIDE DEF T, s, saves
<1>4. batch \in Seq(Snaps)
  BY <1>2, SnapshotType, SnapshotsBySlugType
<1> HIDE DEF batch
<1>5. th' = [th EXCEPT ![t] = Saving(batch)] \/ th' = [th EXCEPT ![t] = Begin(t, batch, FALSE)]
  BY <1>3
<1> QED
  BY <1>4, <1>5, ReadyFacts

LEMMA DiscoveryShown ==
    ASSUME OwnersInv, NEW t \in Messages, NEW e \in Eqs, NEW cs \in SUBSET Cmds, NEW as \in SUBSET Acts,
           Discovery(t, e, cs, as)
    PROVE  \E x : Ready(x) /\ th' = [th EXCEPT ![t] = x]
<1> DEFINE D == Discovered(Store, resolver, e, cs, as, NameOf[e])
<1>1. NameOf[e] \in Slugs /\ Store \in Stores /\ resolver \in Resolvers
  BY IdsHaveEquipment DEF OwnersInv, Sound
<1>2. D.T \in Stores /\ D.slug \in Live(D.T)
  BY <1>1, DiscoveredOwning
<1>3. PICK primary \in IF LinkedTargets(D) = {} THEN {D.slug} ELSE LinkedTargets(D) :
        LET T == Numbered(DiscoveryFor(D, resolver, primary)) IN
        th' = [th EXCEPT ![t] = [pc |-> "save", want |-> {}, dirty |-> TRUE,
                                 todo |-> SnapshotsInPublishOrder(T, T.touched)]]
  BY DEF Discovery
<1> HIDE DEF D
<1>4. primary \in Live(D.T)
  BY <1>2 DEF LinkedTargets
<1> DEFINE T == Numbered(DiscoveryFor(D, resolver, primary))
           batch == SnapshotsInPublishOrder(T, T.touched)
<1>5. T \in Stores
  BY <1>1, <1>2, <1>4, DiscoveryForFacts
<1>6. th' = [th EXCEPT ![t] = Saving(batch)]
  BY <1>3 DEF Saving
<1> HIDE DEF T
<1>7. batch \in Seq(Snaps)
  BY <1>5, SnapshotsInPublishOrderType
<1> HIDE DEF batch
<1> QED
  BY <1>6, <1>7, ReadyFacts

LEMMA ReconcileShown ==
    ASSUME OwnersInv, Reconcile
    PROVE  \E x : Ready(x) /\ th' = [th EXCEPT !["admin"] = x]
<1> DEFINE r == NewCatalogResolver(catalog)
           T == ReconcileResolver(Store, r)
           batch == SnapshotsInPublishOrder(T, Live(T))
           x == [pc |-> "persist", todo |-> batch, want |-> {}, dirty |-> FALSE]
<1>1. r \in Resolvers /\ Store \in Stores
  BY NewCatalogResolverType DEF OwnersInv, Sound
<1>2. th' = [th EXCEPT !["admin"] = x]
  BY DEF Reconcile
<1> HIDE DEF r
<1>3. T \in Stores
  BY <1>1, ReconcileFacts
<1> HIDE DEF T
<1>4. batch \in Seq(Snaps)
  BY <1>3, SnapshotsInPublishOrderType
<1> HIDE DEF batch
<1>5. Ready(x)
  BY <1>4 DEF Ready, Sending
<1> QED
  BY <1>2, <1>5

\* Whoever is started begins to publish the whole store, if anything.
LEMMA StartedShown ==
    ASSUME NEW f \in Files, NEW r \in Resolvers, NEW t \in Threads
    PROVE  Ready(Started(Load(f, r))[t])
<1> DEFINE T == Load(f, r)
           x == Started(T)[t]
<1>1. T \in Stores
  BY LoadFacts
<1>2. x = IF t = "replay" THEN Begin(t, SnapshotsBySlug(T, Live(T)), FALSE) ELSE Idle
  BY DEF Started
<1> HIDE DEF T, x
<1>3. SnapshotsBySlug(T, Live(T)) \in Seq(Snaps)
  BY <1>1, SnapshotsBySlugType
<1>4. CASE t = "replay"
  BY <1>2, <1>3, <1>4, ReadyFacts DEF x, T
<1>5. CASE t # "replay"
  BY <1>2, <1>5, ReadyFacts DEF x, T
<1> QED
  BY <1>4, <1>5

LEMMA CrashShown ==
    ASSUME ShownInv, OwnersInv, Crash
    PROVE  ShownInv'
<1> DEFINE r == NewCatalogResolver(catalog)
<1>1. /\ th' = Started(Load(saved, r)) /\ queue' = <<>>
      /\ latest' = [s \in Slugs |-> 0] /\ shown' = shown
  BY DEF Crash, broker
<1>2. saved \in Files /\ r \in Resolvers
  BY NewCatalogResolverType DEF OwnersInv
<1> HIDE DEF r
<1>3. ASSUME NEW t \in Threads PROVE Publisher(t)'
  <2>1. Ready(th'[t])
    BY <1>1, <1>2, StartedShown
  <2> QED
    BY <2>1 DEF Ready, Publisher, Batch, Entering, Inside
<1>4. queue' \in Seq(Seq(Snaps)) /\ latest' \in [Slugs -> Nat] /\ shown' \in [Slugs -> Nat]
  BY <1>1 DEF ShownInv
<1> QED
  BY <1>3, <1>4 DEF ShownInv

LEMMA ShownStep ==
    ASSUME ShownInv, GatesInv, OwnersInv, [Next]_vars
    PROVE  ShownInv' /\ (Passed /\ ~Crash => Passed' /\ Forward)
<1>1. /\ queue \in Seq(Seq(Snaps)) /\ latest \in [Slugs -> Nat] /\ shown \in [Slugs -> Nat]
      /\ \A t \in Threads : th[t].todo \in Seq(Snaps)
      /\ {"queue", "replay", "admin"} \subseteq Threads /\ Messages \subseteq Threads
  BY DEF ShownInv, Publisher, Batch, Threads
\* A goroutine begins something, and no gate and nothing shown changes.
<1>2. ASSUME NEW t \in Threads, \E x : Ready(x) /\ th' = [th EXCEPT ![t] = x],
             UNCHANGED <<owner, latest, shown>>, queue' \in Seq(Seq(Snaps))
      PROVE  ShownInv' /\ (Passed => Passed' /\ Forward)
  <2>1. PICK x : Ready(x) /\ th' = [th EXCEPT ![t] = x]
    BY <1>2
  <2>2. /\ \A u \in Threads \ {t} : \A k \in Slugs : owner[k] = u => owner'[k] = u
        /\ shown' \in [Slugs -> Nat] /\ (Passed => Passed')
    BY <1>1, <1>2 DEF Passed
  <2>3. ShownInv'
    BY <1>2, <2>1, <2>2, Readies
  <2> QED
    BY <1>1, <1>2, <2>2, <2>3 DEF Forward
<1>3. ASSUME NEW t \in Threads, Publishing(t) PROVE ShownInv' /\ (Passed => Passed' /\ Forward)
  BY <1>3, PublishingShown
<1>4. ASSUME NEW t \in Messages, Receive(t) PROVE ShownInv' /\ (Passed => Passed' /\ Forward)
  <2>1. t \in Threads /\ UNCHANGED <<owner, latest, shown, queue>>
    BY <1>1, <1>4 DEF Receive, Event, Discovery, gates, broker
  <2>2. CASE \E c \in Cmds, valued \in Valued : Event(t, c, valued)
    BY <1>1, <1>2, <2>1, <2>2, EventShown
  <2>3. CASE \E e \in Eqs : \E cs \in SUBSET {c \in Cmds : EqOf[c] = e}, as \in SUBSET {a \in Acts : EqOf[a] = e} :
                Discovery(t, e, cs, as)
    <3>1. PICK e \in Eqs, cs \in SUBSET Cmds, as \in SUBSET Acts : Discovery(t, e, cs, as)
      BY <2>3
    <3> QED
      BY <1>1, <1>2, <2>1, <3>1, DiscoveryShown
  <2> QED
    BY <1>4, <2>2, <2>3 DEF Receive
<1>5. ASSUME NEW r \in Catalogs, SaveCatalog(r) PROVE ShownInv' /\ (Passed => Passed' /\ Forward)
  <2> DEFINE x == [th["admin"] EXCEPT !.pc = "reconcile"]
  <2>1. th' = [th EXCEPT !["admin"] = x] /\ UNCHANGED <<owner, latest, shown, queue>>
    BY <1>5 DEF SaveCatalog, gates, broker
  <2>2. x.todo = th["admin"].todo /\ x.pc = "reconcile"
    BY <1>1 DEF GatesInv, GatesTypes, IsThread
  <2> HIDE DEF x
  <2>3. Ready(x)
    BY <1>1, <2>2 DEF Ready, Sending
  <2> QED
    BY <1>1, <1>2, <2>1, <2>3
<1>6. CASE Reconcile
  <2>1. UNCHANGED <<owner, latest, shown, queue>>
    BY <1>6 DEF Reconcile, gates, broker
  <2> QED
    BY <1>1, <1>2, <1>6, <2>1, ReconcileShown
<1>7. CASE Enqueue
  <2>1. UNCHANGED <<owner, latest, shown>> /\ queue' = <<th["admin"].todo>> /\ th' = [th EXCEPT !["admin"] = Idle]
    BY <1>7 DEF Enqueue, gates, broker
  <2>2. queue' \in Seq(Seq(Snaps))
    BY <1>1, <2>1
  <2> QED
    BY <1>1, <1>2, <2>1, <2>2, ReadyFacts
<1>8. CASE TakeBatch
  <2>1. /\ UNCHANGED <<owner, latest, shown>> /\ queue' = <<>> /\ queue # <<>>
        /\ th' = [th EXCEPT !["queue"] = Begin("queue", Head(queue), FALSE)]
    BY <1>8 DEF TakeBatch, gates, broker
  <2>2. queue' \in Seq(Seq(Snaps)) /\ Head(queue) \in Seq(Snaps)
    BY <1>1, <2>1
  <2> QED
    BY <1>1, <1>2, <2>1, <2>2, ReadyFacts
<1>9. CASE Replay
  <2>1. /\ UNCHANGED <<owner, latest, shown, queue>>
        /\ th' = [th EXCEPT !["replay"] = Begin("replay", Devices, FALSE)]
    BY <1>9 DEF Replay, gates, broker
  <2>2. Devices \in Seq(Snaps)
    BY SnapshotsBySlugType DEF Devices, OwnersInv, Sound
  <2> QED
    BY <1>1, <1>2, <2>1, <2>2, ReadyFacts
<1>10. CASE UNCHANGED vars
  <2>1. UNCHANGED <<owner, latest, shown, queue, th>>
    BY <1>10 DEF vars, gates, broker
  <2>2. \A u \in Threads : Publisher(u)'
    BY <2>1, OthersStay
  <2> QED
    BY <1>1, <2>1, <2>2 DEF ShownInv, Forward, Passed
<1>11. CASE Crash
  BY <1>11, CrashShown
<1> QED
  BY <1>3, <1>4, <1>5, <1>6, <1>7, <1>8, <1>9, <1>10, <1>11 DEF Next

LEMMA ShownInit ==
    ASSUME Init
    PROVE  ShownInv /\ Passed
<1> DEFINE r == NewCatalogResolver(FirstCatalog)
<1>1. PICK cache \in Caches : th = Started(Load(cache, r))
  BY DEF Init
<1>2. cache \in Files /\ r \in Resolvers
  BY CachesHoldDevices, CatalogsNameSlugs, NewCatalogResolverType DEF Files
<1> HIDE DEF r
<1>3. ASSUME NEW t \in Threads PROVE Publisher(t)
  <2>1. Ready(th[t])
    BY <1>1, <1>2, StartedShown
  <2> QED
    BY <2>1 DEF Ready, Publisher, Batch, Entering, Inside
<1>4. queue = <<>> /\ latest = [s \in Slugs |-> 0] /\ shown = [s \in Slugs |-> 0]
  BY DEF Init
<1> QED
  BY <1>3, <1>4 DEF ShownInv, Passed

LEMMA SpentStep == ASSUME SpentInv, [Next]_vars PROVE SpentInv'
<1>1. ASSUME NEW what \in DOMAIN Limit, Spend(what) PROVE SpentInv'
  BY <1>1 DEF SpentInv, Spend
<1>2. {"messages", "catalogs", "replays", "failures", "lapses", "crashes"} = DOMAIN Limit
  BY DEF Limit
<1>3. CASE UNCHANGED spent
  BY <1>3 DEF SpentInv
<1>4. CASE \E t \in Threads : Publishing(t)
  <2> PICK t \in Threads : Publishing(t)
    BY <1>4
  <2>1. CASE SendFails(t)
    BY <1>1, <1>2, <2>1 DEF SendFails
  <2>2. CASE LockGate(t)
    BY <1>3, <2>2 DEF LockGate
  <2>3. ASSUME NEW pc, Sent(t, pc) PROVE SpentInv'
    BY <1>3, <2>3 DEF Sent
  <2>6. CASE SendTombstones(t) \/ SendAliases(t) \/ SendDiscovery(t)
    BY <2>3, <2>6 DEF SendTombstones, SendAliases, SendDiscovery
  <2>4. CASE SendState(t) \/ Acknowledge(t)
    BY <1>3, <2>4 DEF SendState, Acknowledge
  <2>5. CASE Save(t)
    BY <1>1, <1>2, <1>3, <2>5 DEF Save, Write
  <2> QED
    BY <2>1, <2>2, <2>4, <2>5, <2>6 DEF Publishing
<1>5. CASE \E t \in Messages : Receive(t)
  <2> PICK t \in Messages : Receive(t)
    BY <1>5
  <2>1. ASSUME NEW c \in Cmds, NEW valued \in Valued, Event(t, c, valued) PROVE Spend("messages")
    BY <2>1 DEF Event
  <2>2. ASSUME NEW e \in Eqs, NEW cs, NEW as, Discovery(t, e, cs, as) PROVE Spend("messages")
    BY <2>2 DEF Discovery
  <2>3. Spend("messages")
    BY <2>1, <2>2 DEF Receive
  <2> QED
    BY <1>1, <1>2, <2>3
<1>6. CASE \E r \in Catalogs : SaveCatalog(r)
  BY <1>1, <1>2, <1>6 DEF SaveCatalog
<1>7. CASE Replay \/ Crash
  BY <1>1, <1>2, <1>7 DEF Replay, Crash
<1>8. CASE Reconcile \/ TakeBatch \/ UNCHANGED vars
  BY <1>3, <1>8 DEF Reconcile, TakeBatch, vars
<1>9. CASE Enqueue
  BY <1>1, <1>2, <1>3, <1>9 DEF Enqueue, Write
<1> QED
  BY <1>4, <1>5, <1>6, <1>7, <1>8, <1>9 DEF Next

\* Whether the last save failed, or the bridge stopped before it was made good.
LagInv == lag \in {"none", "behind", "lost"}

LEMMA LagStep == ASSUME LagInv, [Next]_vars PROVE LagInv'
<1>1. ASSUME NEW t \in Threads, Publishing(t) PROVE LagInv'
  <2>1. CASE UNCHANGED lag
    BY <2>1 DEF LagInv
  <2>2. CASE Save(t)
    BY <2>1, <2>2 DEF Save, Write, LagInv
  <2>3. ASSUME NEW pc, Sent(t, pc) PROVE LagInv'
    BY <2>1, <2>3 DEF Sent
  <2>5. CASE SendTombstones(t) \/ SendAliases(t) \/ SendDiscovery(t)
    BY <2>3, <2>5 DEF SendTombstones, SendAliases, SendDiscovery
  <2>4. CASE LockGate(t) \/ SendState(t) \/ SendFails(t) \/ Acknowledge(t)
    BY <2>1, <2>4 DEF LockGate, SendState, SendFails, Acknowledge
  <2> QED
    BY <1>1, <2>2, <2>4, <2>5 DEF Publishing
<1>2. ASSUME UNCHANGED lag PROVE LagInv'
  BY <1>2 DEF LagInv
<1>3. ASSUME NEW t \in Messages, Receive(t) PROVE LagInv'
  BY <1>2, <1>3 DEF Receive, Event, Discovery
<1>4. CASE \E r \in Catalogs : SaveCatalog(r)
  BY <1>2, <1>4 DEF SaveCatalog
<1>5. CASE Reconcile \/ TakeBatch \/ Replay \/ UNCHANGED vars
  BY <1>2, <1>5 DEF Reconcile, TakeBatch, Replay, vars
<1>6. CASE Enqueue \/ Crash
  BY <1>6 DEF Enqueue, Write, Crash, LagInv
<1> QED
  BY <1>1, <1>3, <1>4, <1>5, <1>6 DEF Next

\* From one start of the bridge to its end, what Home Assistant shows of a device
\* never goes back to an older snapshot, however many goroutines send it, and
\* however late (bumpDevicePublishRevisionLocked, beginDevicePublish). A start
\* counts revisions anew, so nothing is said of the snapshots of two starts.
THEOREM ShownMovesForward ==
    ASSUME MaxCrashes = 0
    PROVE  Spec => NeverBack
<1> DEFINE Inv == ShownInv /\ Passed /\ GatesInv /\ OwnersInv /\ SpentInv
<1>1. Init => Inv
  <2>1. Init => SpentInv
    BY DEF Init, SpentInv
  <2> QED
    BY <2>1, ShownInit, GatesInit, OwnersInit
<1>2. Inv /\ [Next]_vars => Inv' /\ Forward
  <2> SUFFICES ASSUME Inv, [Next]_vars PROVE Inv' /\ Forward
    OBVIOUS
  <2>1. ~Crash
    <3>1. spent["crashes"] \in Nat /\ Limit["crashes"] = 0
      BY DEF SpentInv, Limit
    <3> QED
      BY <3>1 DEF Crash, Spend
  <2> QED
    BY <2>1, ShownStep, GatesStep, OwnersStep, SpentStep
<1>3. Forward => (\A s \in Slugs : shown'[s] >= shown[s] \/ shown'[s] = 0 \/ next' < next)
  BY DEF Forward
<1> QED
  BY <1>1, <1>2, <1>3, PTL DEF Spec, NeverBack

-----------------------------------------------------------------------------
(* Nothing that passed is lost                                             *)

SendsTo(t, s) == th[t].pc \in Sending /\ s \in Keys(Head(th[t].todo))

\* Of what the gate of a slug let pass last, the state is shown, or the slug is
\* an alias and shows nothing, or it is being sent.
Arrived(s) == (\E t \in Threads : SendsTo(t, s)) \/ shown[s] \in {0, latest[s]}

\* Whoever is past the aliases of a device has cleared them.
Cleared(t) == th[t].pc \in {"discovery", "state"} =>
                LET sn == Head(th[t].todo) IN \A s \in Keys(sn) \ {sn.slug} : shown[s] = 0

Unbroken == spent["failures"] = 0 /\ spent["crashes"] = 0
NothingLost == Unbroken => \A s \in Slugs : Arrived(s)
ArrivedInv == (\A t \in Threads : Cleared(t)) /\ NothingLost

\* What others cleared stays clear: the gates of the aliases are theirs.
LEMMA OthersCleared ==
    ASSUME ShownInv, NEW u \in Threads, Cleared(u), th'[u] = th[u],
           \A s \in Slugs : owner[s] = u => shown'[s] \in {0, shown[s]}
    PROVE  Cleared(u)'
<1> SUFFICES ASSUME th[u].pc \in {"discovery", "state"},
                    NEW s \in Keys(Head(th[u].todo)), s # Head(th[u].todo).slug
             PROVE  shown'[s] = 0
  BY DEF Cleared, Keys
<1>1. owner[s] = u /\ s \in Slugs /\ shown[s] = 0
  BY DEF ShownInv, Publisher, Inside, Sending, Cleared, Keys
<1> QED
  BY <1>1

\* A goroutine that sends nothing turns to something else.
LEMMA Elsewhere ==
    ASSUME ArrivedInv, ShownInv, GatesInv, SpentInv, NEW t \in Threads, NEW x,
           th' = [th EXCEPT ![t] = x], th[t].pc \notin Sending, x.pc \notin Sending,
           UNCHANGED <<latest, shown>>, Unbroken' => Unbroken
    PROVE  ArrivedInv'
<1>1. th'[t] = x /\ \A u \in Threads \ {t} : th'[u] = th[u]
  BY DEF GatesInv, GatesTypes
<1>2. ASSUME NEW u \in Threads PROVE Cleared(u)'
  <2>1. CASE u = t
    BY <1>1, <2>1 DEF Cleared, Sending
  <2>2. CASE u # t
    BY <1>1, <2>2, OthersCleared DEF ArrivedInv
  <2> QED
    BY <2>1, <2>2
<1>3. ASSUME NEW s \in Slugs, Arrived(s) PROVE Arrived(s)'
  <2>1. \A u \in Threads : SendsTo(u, s) => SendsTo(u, s)'
    BY <1>1 DEF SendsTo, Keys
  <2> QED
    BY <1>3, <2>1 DEF Arrived
<1> QED
  BY <1>2, <1>3 DEF ArrivedInv, NothingLost

\* The next group of messages of a device: what the group clears are aliases.
LEMMA NextGroup ==
    ASSUME ArrivedInv, ShownInv, GatesInv, NEW t \in Threads,
           NEW pc \in {"tombstones", "aliases", "discovery"}, Sent(t, pc),
           shown' \in [Slugs -> Nat],
           \A s \in Slugs : shown'[s] \in {0, shown[s]},
           pc = "aliases" => \A s \in AliasesOf(Head(th[t].todo)) \cap Slugs : shown'[s] = 0
    PROVE  ArrivedInv'
<1> DEFINE sn == Head(th[t].todo)
<1>1. th[t].pc = pc /\ UNCHANGED <<latest, spent>> /\ th' = [th EXCEPT ![t].pc = After(sn, pc)]
  BY DEF Sent, gates
<1>2. After(sn, pc) \in Sending
  BY DEF After, Sending
<1>3. /\ \A u \in Threads \ {t} : th'[u] = th[u]
      /\ th'[t].pc = After(sn, pc) /\ th'[t].todo = th[t].todo
  <2>1. th = [u \in Threads |-> th[u]] /\ IsThread(th[t])
    BY DEF GatesInv, GatesTypes
  <2> HIDE DEF After
  <2> QED
    BY <1>1, <2>1 DEF IsThread
<1>4. Cleared(t)'
  <2> SUFFICES ASSUME After(sn, pc) \in {"discovery", "state"}, NEW s \in Keys(sn), s # sn.slug
               PROVE  shown'[s] = 0
    BY <1>3 DEF Cleared, Keys
  <2>1. s \in AliasesOf(sn) /\ s \in Slugs
    BY DEF Keys, AliasesOf
  <2>2. CASE pc = "tombstones"
    BY <2>1, <2>2 DEF After
  <2>3. CASE pc = "aliases"
    BY <2>1, <2>3
  <2>4. CASE pc = "discovery"
    <3>1. shown[s] = 0
      BY <1>1, <2>4 DEF ArrivedInv, Cleared
    <3> QED
      BY <2>1, <3>1
  <2> QED
    BY <2>2, <2>3, <2>4
<1>5. ASSUME NEW u \in Threads PROVE Cleared(u)'
  <2>1. CASE u # t
    BY <1>3, <2>1, OthersCleared DEF ArrivedInv
  <2> QED
    BY <1>4, <2>1
<1>6. ASSUME NEW s \in Slugs, Arrived(s) PROVE Arrived(s)'
  <2>1. ASSUME NEW u \in Threads, SendsTo(u, s) PROVE SendsTo(u, s)'
    <3>1. CASE u = t
      BY <1>2, <1>3, <2>1, <3>1 DEF SendsTo, Keys
    <3>2. CASE u # t
      BY <1>3, <2>1, <3>2 DEF SendsTo, Keys
    <3> QED
      BY <3>1, <3>2
  <2>2. shown[s] \in {0, latest[s]} => shown'[s] \in {0, latest'[s]}
    BY <1>1
  <2> QED
    BY <1>6, <2>1, <2>2 DEF Arrived
<1> QED
  BY <1>1, <1>5, <1>6 DEF ArrivedInv, NothingLost, Unbroken

\* Who passes the last gate has everything it lets pass still to send.
LEMMA LocksArrived ==
    ASSUME ArrivedInv, ShownInv, GatesInv, SpentInv, NEW t \in Threads, LockGate(t)
    PROVE  ArrivedInv'
<1> DEFINE sn == Head(th[t].todo)
<1>1. /\ th[t].pc = "gates" /\ th[t].pc \notin Sending /\ Batch(t) /\ UNCHANGED <<shown, spent>>
      /\ th = [u \in Threads |-> th[u]] /\ IsThread(th[t]) /\ latest \in [Slugs -> Nat]
  BY DEF LockGate, broker, Sending, ShownInv, Publisher, GatesInv, GatesTypes
<1>2. PICK s \in NextGate(t) :
        \/ /\ th' = [th EXCEPT ![t].want = @ \ {s}]
           /\ latest' = latest
        \/ Skip(t) /\ latest' = latest
        \/ /\ latest' = [k \in Slugs |-> IF k \in Keys(sn) /\ sn.d.rev > latest[k]
                                         THEN sn.d.rev ELSE latest[k]]
           /\ th' = [th EXCEPT ![t].want = {}, ![t].pc = After(sn, "gates")]
  BY DEF LockGate
<1>3. Unbroken' => Unbroken
  BY <1>1 DEF Unbroken
<1>4. CASE th' = [th EXCEPT ![t].want = @ \ {s}] /\ latest' = latest
  <2> DEFINE x == [th[t] EXCEPT !.want = @ \ {s}]
  <2>1. th' = [th EXCEPT ![t] = x] /\ x.pc \notin Sending
    BY <1>1, <1>4 DEF IsThread
  <2> HIDE DEF x
  <2> QED
    BY <1>1, <1>3, <1>4, <2>1, Elsewhere
<1>5. CASE Skip(t) /\ latest' = latest
  <2> DEFINE x == Begin(t, Tail(th[t].todo), th[t].dirty)
  <2>1. th' = [th EXCEPT ![t] = x]
    BY <1>5 DEF Skip
  <2>2. x.pc \notin Sending
    BY <1>1, HeadOf, ReadyFacts DEF Batch, Ready
  <2> HIDE DEF x
  <2> QED
    BY <1>1, <1>3, <1>5, <2>1, <2>2, Elsewhere
<1>6. CASE /\ latest' = [k \in Slugs |-> IF k \in Keys(sn) /\ sn.d.rev > latest[k]
                                         THEN sn.d.rev ELSE latest[k]]
           /\ th' = [th EXCEPT ![t].want = {}, ![t].pc = After(sn, "gates")]
  <2>1. /\ \A u \in Threads \ {t} : th'[u] = th[u]
        /\ th'[t].pc = After(sn, "gates") /\ th'[t].todo = th[t].todo
    <3> HIDE DEF sn
    <3> QED
      BY <1>1, <1>6 DEF IsThread
  <2>2. After(sn, "gates") \in Sending
    BY DEF After, Sending
  <2>3. Cleared(t)'
    <3> SUFFICES ASSUME After(sn, "gates") \in {"discovery", "state"}, NEW k \in Keys(sn), k # sn.slug
                 PROVE  shown'[k] = 0
      BY <2>1 DEF Cleared, Keys
    <3> QED
      BY DEF After, Keys, AliasesOf
  <2>4. ASSUME NEW u \in Threads PROVE Cleared(u)'
    <3>1. CASE u # t
      BY <1>1, <2>1, <3>1, OthersCleared DEF ArrivedInv
    <3> QED
      BY <2>3, <3>1
  <2>5. ASSUME NEW k \in Slugs, Arrived(k) PROVE Arrived(k)'
    <3>1. CASE k \in Keys(sn)
      <4>1. SendsTo(t, k)'
        BY <2>1, <2>2, <3>1 DEF SendsTo, Keys
      <4> QED
        BY <4>1 DEF Arrived
    <3>2. CASE k \notin Keys(sn)
      <4>1. latest'[k] = latest[k]
        BY <1>6, <3>2
      <4>2. \A u \in Threads : SendsTo(u, k) => SendsTo(u, k)'
        BY <1>1, <2>1 DEF SendsTo, Keys
      <4> QED
        BY <1>1, <2>5, <4>1, <4>2 DEF Arrived
    <3> QED
      BY <3>1, <3>2
  <2> QED
    BY <1>3, <2>4, <2>5 DEF ArrivedInv, NothingLost
<1> QED
  BY <1>2, <1>4, <1>5, <1>6

\* The state is the newest that passed, and the aliases were cleared before.
LEMMA StateArrived ==
    ASSUME ArrivedInv, ShownInv, GatesInv, SpentInv, NEW t \in Threads, SendState(t)
    PROVE  ArrivedInv'
<1> DEFINE sn == Head(th[t].todo)
<1>1. /\ th[t].pc = "state" /\ shown' = [shown EXCEPT ![sn.slug] = sn.d.rev]
      /\ UNCHANGED <<latest, spent>> /\ (th' = [th EXCEPT ![t].pc = "acknowledge"] \/ Skip(t))
  BY DEF SendState
<1>2. /\ latest[sn.slug] = sn.d.rev /\ \A k \in Keys(sn) : owner[k] = t
      /\ \A k \in Keys(sn) \ {sn.slug} : shown[k] = 0
      /\ sn.slug \in Keys(sn) /\ sn.slug \in Slugs /\ shown \in [Slugs -> Nat]
  BY <1>1, HeadOf DEF ShownInv, Publisher, Batch, Inside, Sending, ArrivedInv, Cleared
<1> HIDE DEF sn
<1>3. th'[t].pc \notin Sending /\ \A u \in Threads \ {t} : th'[u] = th[u]
  <2>1. CASE Skip(t)
    <3>1. Ready(Begin(t, Tail(th[t].todo), th[t].dirty))
      BY <1>1, HeadOf, ReadyFacts DEF ShownInv, Publisher, Batch, Sending
    <3> QED
      BY <2>1, <3>1 DEF Skip, GatesInv, GatesTypes, Ready
  <2>2. CASE th' = [th EXCEPT ![t].pc = "acknowledge"]
    BY <2>2 DEF GatesInv, GatesTypes, IsThread, Sending
  <2> QED
    BY <1>1, <2>1, <2>2
<1>4. ASSUME NEW u \in Threads PROVE Cleared(u)'
  <2>1. CASE u = t
    BY <1>3, <2>1 DEF Cleared, Sending
  <2>2. CASE u # t
    <3>1. \A s \in Slugs : owner[s] = u => shown'[s] = shown[s]
      BY <1>1, <1>2, <2>2
    <3> QED
      BY <1>3, <2>2, <3>1, OthersCleared DEF ArrivedInv
  <2> QED
    BY <2>1, <2>2
<1>5. ASSUME NEW s \in Slugs, Arrived(s) PROVE Arrived(s)'
  <2>1. CASE s \in Keys(sn)
    <3>1. shown'[s] \in {0, latest'[s]}
      BY <1>1, <1>2, <2>1
    <3> QED
      BY <3>1 DEF Arrived
  <2>2. CASE s \notin Keys(sn)
    <3>1. \A u \in Threads : SendsTo(u, s) => SendsTo(u, s)'
      BY <1>3, <2>2 DEF SendsTo, Keys, sn
    <3>2. shown'[s] = shown[s] /\ latest'[s] = latest[s]
      BY <1>1, <1>2, <2>2
    <3> QED
      BY <1>5, <3>1, <3>2 DEF Arrived
  <2> QED
    BY <2>1, <2>2
<1>6. Unbroken' => Unbroken
  BY <1>1 DEF Unbroken
<1> QED
  BY <1>4, <1>5, <1>6 DEF ArrivedInv, NothingLost

LEMMA PublishingArrived ==
    ASSUME ArrivedInv, ShownInv, GatesInv, SpentInv, NEW t \in Threads, Publishing(t)
    PROVE  ArrivedInv'
<1> DEFINE sn == Head(th[t].todo)
<1>1. shown \in [Slugs -> Nat] /\ Batch(t)
  BY DEF ShownInv, Publisher
<1>2. CASE LockGate(t)
  BY <1>2, LocksArrived
<1>3. CASE SendTombstones(t)
  <2>1. Sent(t, "tombstones") /\ shown' = shown
    BY <1>3 DEF SendTombstones
  <2> QED
    BY <1>1, <2>1, NextGroup
<1>4. CASE SendAliases(t)
  <2>1. Sent(t, "aliases") /\ shown' = [s \in Slugs |-> IF s \in AliasesOf(sn) THEN 0 ELSE shown[s]]
    BY <1>4 DEF SendAliases
  <2>2. /\ shown' \in [Slugs -> Nat] /\ \A s \in Slugs : shown'[s] \in {0, shown[s]}
        /\ \A s \in AliasesOf(sn) \cap Slugs : shown'[s] = 0
    <3> HIDE DEF sn
    <3> QED
      BY <1>1, <2>1
  <2> QED
    BY <2>1, <2>2, NextGroup
<1>5. CASE SendDiscovery(t)
  <2>1. Sent(t, "discovery") /\ shown' = shown
    BY <1>5 DEF SendDiscovery
  <2> QED
    BY <1>1, <2>1, NextGroup
<1>6. CASE SendState(t)
  BY <1>6, StateArrived
<1>7. CASE SendFails(t)
  <2>1. /\ ~Unbroken' /\ th' = [th EXCEPT ![t] = Begin(t, Tail(th[t].todo), th[t].dirty)]
        /\ th[t].pc \in Sending /\ shown' = shown
    <3>1. spent["failures"] \in Nat /\ spent'["failures"] = spent["failures"] + 1
      BY <1>7 DEF SendFails, Spend, SpentInv, Limit
    <3> QED
      BY <1>7, <3>1 DEF SendFails, Skip, Sending, broker, Unbroken
  <2>2. th'[t].pc \notin Sending /\ \A u \in Threads \ {t} : th'[u] = th[u]
    <3>1. Ready(Begin(t, Tail(th[t].todo), th[t].dirty))
      BY <1>1, <2>1, HeadOf, ReadyFacts DEF Batch
    <3> QED
      BY <2>1, <3>1 DEF GatesInv, GatesTypes, Ready
  <2>3. ASSUME NEW u \in Threads PROVE Cleared(u)'
    <3>1. CASE u = t
      BY <2>2, <3>1 DEF Cleared, Sending
    <3>2. CASE u # t
      BY <2>1, <2>2, <3>2, OthersCleared DEF ArrivedInv
    <3> QED
      BY <3>1, <3>2
  <2> QED
    BY <2>1, <2>3 DEF ArrivedInv, NothingLost
<1>8. CASE Acknowledge(t) \/ Save(t)
  <2>1. UNCHANGED <<latest, shown>> /\ th[t].pc \notin Sending /\ (spent' = spent \/ Spend("lapses"))
    BY <1>8 DEF Acknowledge, Save, Write, gates, broker, Sending
  <2>2. \E x : Ready(x) /\ th' = [th EXCEPT ![t] = x]
    <3>1. CASE Acknowledge(t)
      <4>1. PICK dirty : th' = [th EXCEPT ![t] = IF t \in Messages /\ dirty
                                THEN [pc |-> "save", todo |-> Tail(th[t].todo), want |-> {}, dirty |-> TRUE]
                                ELSE Begin(t, Tail(th[t].todo), dirty)]
        BY <3>1 DEF Acknowledge, GatesInv, GatesTypes
      <4> DEFINE rest == Tail(th[t].todo)
      <4>2. th' = [th EXCEPT ![t] = Saving(rest)] \/ th' = [th EXCEPT ![t] = Begin(t, rest, dirty)]
        BY <4>1 DEF Saving
      <4>3. rest \in Seq(Snaps)
        BY <1>1, <3>1, HeadOf DEF Batch, Acknowledge
      <4> HIDE DEF rest
      <4> QED
        BY <4>2, <4>3, ReadyFacts
    <3>2. CASE Save(t)
      <4>1. th' = [th EXCEPT ![t] = Begin(t, th[t].todo, FALSE)]
        BY <3>2 DEF Save, GatesInv, GatesTypes
      <4> QED
        BY <1>1, <4>1, ReadyFacts DEF Batch
    <3> QED
      BY <1>8, <3>1, <3>2
  <2>3. PICK x : Ready(x) /\ th' = [th EXCEPT ![t] = x]
    BY <2>2
  <2>4. Unbroken' => Unbroken
    BY <2>1 DEF SpentInv, Spend, Limit, Unbroken
  <2> QED
    BY <2>1, <2>3, <2>4, Elsewhere DEF Ready
<1> QED
  BY <1>2, <1>3, <1>4, <1>5, <1>6, <1>7, <1>8 DEF Publishing

LEMMA ArrivedStep ==
    ASSUME ArrivedInv, ShownInv, GatesInv, OwnersInv, SpentInv, [Next]_vars
    PROVE  ArrivedInv'
<1>1. /\ spent \in [DOMAIN Limit -> Nat] /\ {"failures", "crashes"} \subseteq DOMAIN Limit
      /\ \A t \in Threads : th[t].todo \in Seq(Snaps)
      /\ {"queue", "replay", "admin"} \subseteq Threads /\ Messages \subseteq Threads
      /\ queue \in Seq(Seq(Snaps))
  BY DEF SpentInv, Limit, ShownInv, Publisher, Batch, Threads
\* A goroutine that sends nothing begins something, and nothing is sent.
<1>2. ASSUME NEW t \in Threads, \E x : Ready(x) /\ th' = [th EXCEPT ![t] = x], th[t].pc \notin Sending,
             UNCHANGED <<latest, shown>>,
             spent' = spent \/ \E what \in {"messages", "catalogs", "replays", "lapses"} : Spend(what)
      PROVE  ArrivedInv'
  <2>1. PICK x : Ready(x) /\ th' = [th EXCEPT ![t] = x]
    BY <1>2
  <2>2. Unbroken' => Unbroken
    BY <1>1, <1>2 DEF Spend, Unbroken
  <2> QED
    BY <1>2, <2>1, <2>2, Elsewhere DEF Ready
<1>3. ASSUME NEW t \in Threads, Publishing(t) PROVE ArrivedInv'
  BY <1>3, PublishingArrived
<1>4. ASSUME NEW t \in Messages, Receive(t) PROVE ArrivedInv'
  <2>1. t \in Threads /\ UNCHANGED <<latest, shown>> /\ th[t].pc \notin Sending /\ Spend("messages")
    BY <1>1, <1>4 DEF Receive, Event, Discovery, gates, broker, MayBegin, Sending
  <2>2. CASE \E c \in Cmds, valued \in Valued : Event(t, c, valued)
    BY <1>2, <2>1, <2>2, EventShown
  <2>3. CASE \E e \in Eqs : \E cs \in SUBSET {c \in Cmds : EqOf[c] = e}, as \in SUBSET {a \in Acts : EqOf[a] = e} :
                Discovery(t, e, cs, as)
    <3>1. PICK e \in Eqs, cs \in SUBSET Cmds, as \in SUBSET Acts : Discovery(t, e, cs, as)
      BY <2>3
    <3> QED
      BY <1>2, <2>1, <3>1, DiscoveryShown
  <2> QED
    BY <1>4, <2>2, <2>3 DEF Receive
<1>5. ASSUME NEW r \in Catalogs, SaveCatalog(r) PROVE ArrivedInv'
  <2> DEFINE x == [th["admin"] EXCEPT !.pc = "reconcile"]
  <2>1. /\ th' = [th EXCEPT !["admin"] = x] /\ UNCHANGED <<latest, shown>>
        /\ th["admin"].pc \notin Sending /\ Spend("catalogs")
    BY <1>5 DEF SaveCatalog, gates, broker, MayBegin, Sending
  <2>2. x.todo = th["admin"].todo /\ x.pc = "reconcile"
    BY <1>1 DEF GatesInv, GatesTypes, IsThread
  <2> HIDE DEF x
  <2>3. Ready(x)
    BY <1>1, <2>2 DEF Ready, Sending
  <2> QED
    BY <1>1, <1>2, <2>1, <2>3
<1>6. CASE Reconcile
  <2>1. UNCHANGED <<latest, shown, spent>> /\ th["admin"].pc \notin Sending
    BY <1>6 DEF Reconcile, gates, broker, Sending
  <2> QED
    BY <1>1, <1>2, <1>6, <2>1, ReconcileShown
<1>7. CASE Enqueue
  <2>1. /\ UNCHANGED <<latest, shown>> /\ th' = [th EXCEPT !["admin"] = Idle]
        /\ th["admin"].pc \notin Sending /\ (spent' = spent \/ Spend("lapses"))
    BY <1>7 DEF Enqueue, Write, gates, broker, Sending
  <2> QED
    BY <1>1, <1>2, <2>1, ReadyFacts
<1>8. CASE TakeBatch
  <2>1. /\ UNCHANGED <<latest, shown, spent>> /\ queue # <<>>
        /\ th' = [th EXCEPT !["queue"] = Begin("queue", Head(queue), FALSE)]
        /\ th["queue"].pc \notin Sending
    BY <1>8 DEF TakeBatch, gates, broker, MayBegin, Sending
  <2>2. Head(queue) \in Seq(Snaps)
    BY <1>1, <2>1
  <2> QED
    BY <1>1, <1>2, <2>1, <2>2, ReadyFacts
<1>9. CASE Replay
  <2>1. /\ UNCHANGED <<latest, shown>> /\ Spend("replays") /\ th["replay"].pc \notin Sending
        /\ th' = [th EXCEPT !["replay"] = Begin("replay", Devices, FALSE)]
    BY <1>9 DEF Replay, gates, broker, MayBegin, Sending
  <2>2. Devices \in Seq(Snaps)
    BY SnapshotsBySlugType DEF Devices, OwnersInv, Sound
  <2> QED
    BY <1>1, <1>2, <2>1, <2>2, ReadyFacts
<1>10. CASE UNCHANGED vars
  <2>1. UNCHANGED <<latest, shown, th, spent>>
    BY <1>10 DEF vars, gates, broker
  <2> QED
    BY <2>1 DEF ArrivedInv, NothingLost, Cleared, Arrived, SendsTo, Keys, Unbroken
<1>11. CASE Crash
  <2>1. ~Unbroken'
    BY <1>1, <1>11 DEF Crash, Spend, Unbroken
  <2>2. ASSUME NEW t \in Threads PROVE Cleared(t)'
    <3> DEFINE r == NewCatalogResolver(catalog)
    <3>1. th' = Started(Load(saved, r)) /\ saved \in Files /\ r \in Resolvers
      BY <1>11, NewCatalogResolverType DEF Crash, OwnersInv
    <3> HIDE DEF r
    <3>2. Ready(th'[t])
      BY <3>1, StartedShown
    <3> QED
      BY <3>2 DEF Ready, Cleared, Sending
  <2> QED
    BY <2>1, <2>2 DEF ArrivedInv, NothingLost
<1> QED
  BY <1>3, <1>4, <1>5, <1>6, <1>7, <1>8, <1>9, <1>10, <1>11 DEF Next

\* Until a publication fails or the bridge is started again, the newest snapshot
\* the gate of a slug let pass is what Home Assistant shows of it, unless it is
\* still being sent, or the slug is by then an alias of another device and shows
\* nothing: no goroutine, however late, takes another's state away
\* (beginDevicePublish, publishLegacyCleanup under the gates of the aliases).
THEOREM PassedIsShown == Spec => []NothingLost
<1> DEFINE All == ArrivedInv /\ ShownInv /\ GatesInv /\ OwnersInv /\ SpentInv
<1>1. Init => All
  <2>1. Init => SpentInv
    BY DEF Init, SpentInv
  <2>2. ASSUME Init PROVE ArrivedInv
    <3>1. \A t \in Threads : Publisher(t) /\ th[t].pc \notin Sending
      <4> DEFINE r == NewCatalogResolver(FirstCatalog)
      <4>1. PICK cache \in Caches : th = Started(Load(cache, r))
        BY <2>2 DEF Init
      <4>2. cache \in Files /\ r \in Resolvers
        BY CachesHoldDevices, CatalogsNameSlugs, NewCatalogResolverType DEF Files
      <4> HIDE DEF r
      <4>3. \A t \in Threads : Ready(th[t])
        BY <4>1, <4>2, StartedShown
      <4> QED
        BY <2>2, <4>3, ShownInit DEF Ready, ShownInv
    <3>2. shown = [s \in Slugs |-> 0]
      BY <2>2 DEF Init
    <3> QED
      BY <3>1, <3>2 DEF ArrivedInv, NothingLost, Arrived, Cleared, Sending
  <2> QED
    BY <2>1, <2>2, ShownInit, GatesInit, OwnersInit
<1>2. All /\ [Next]_vars => All'
  BY ArrivedStep, ShownStep, GatesStep, OwnersStep, SpentStep
<1>3. All => NothingLost
  BY DEF ArrivedInv
<1> QED
  BY <1>1, <1>2, <1>3, PTL DEF Spec

-----------------------------------------------------------------------------
(* The types                                                               *)

\* What is neither of the store nor of the snapshots and the gates.
Able(x) == x.want \subseteq Slugs /\ x.dirty \in BOOLEAN
Told == cfg \in [Cmds -> Slugs \cup {0}] /\ ctl \subseteq Slugs \X Names
RestInv == /\ \A t \in Threads : Able(th[t])
           /\ resolver \in {NewCatalogResolver(r) : r \in Catalogs} /\ Len(queue) <= 1 /\ whole \in BOOLEAN
           /\ Told

LEMMA AbleFacts ==
    /\ \A t, todo : \A dirty \in BOOLEAN : Able(Begin(t, todo, dirty))
    /\ \A todo : Able(Saving(todo))
    /\ Able(Idle)
BY DEF Able, Begin, Saving, Idle, Keys

\* One goroutine goes on, with a queue and a broker that stay what they are.
LEMMA OneGoesOn ==
    ASSUME RestInv, GatesInv, NEW t \in Threads, NEW x, Able(x), th' = [th EXCEPT ![t] = x],
           resolver' = resolver, Len(queue') <= 1, whole' \in BOOLEAN, Told'
    PROVE  RestInv'
<1>1. \A u \in Threads : th'[u] = IF u = t THEN x ELSE th[u]
  BY DEF GatesInv, GatesTypes
<1> QED
  BY <1>1 DEF RestInv

LEMMA PublishingRest ==
    ASSUME RestInv, ShownInv, GatesInv, OwnersInv, NEW t \in Threads, Publishing(t)
    PROVE  RestInv'
<1> DEFINE sn == Head(th[t].todo)
<1>1. /\ IsThread(th[t]) /\ Able(th[t]) /\ Len(queue) <= 1 /\ whole \in BOOLEAN /\ Told
      /\ th[t].dirty \in BOOLEAN /\ th = [u \in Threads |-> th[u]]
  BY DEF GatesInv, GatesTypes, RestInv, Able
<1>2. th[t].pc \in Sending => sn \in Snaps /\ sn.slug \in Slugs /\ sn.d \in Device
  <2>1. th[t].pc \in Sending => sn \in Snaps
    BY HeadOf DEF ShownInv, Publisher, Batch
  <2> HIDE DEF sn
  <2> QED
    BY <2>1 DEF Snaps
<1>3. \A todo : Able(Begin(t, todo, th[t].dirty)) /\ Able(Begin(t, todo, FALSE))
  BY <1>1, AbleFacts
<1>4. \A pc : Able([th[t] EXCEPT !.pc = pc])
  BY <1>1 DEF Able, IsThread
<1>5. CASE LockGate(t)
  <2>1. UNCHANGED <<resolver, queue, cfg, ctl, whole>>
    BY <1>5 DEF LockGate, broker
  <2>2. PICK s : \/ th' = [th EXCEPT ![t].want = @ \ {s}]
                 \/ Skip(t)
                 \/ th' = [th EXCEPT ![t].want = {}, ![t].pc = After(sn, "gates")]
    BY <1>5 DEF LockGate
  <2> DEFINE W == th[t].want \ {s}
             x1 == [th[t] EXCEPT !.want = W]
             x3 == [th[t] EXCEPT !.want = {}, !.pc = After(sn, "gates")]
  <2>3. \/ th' = [th EXCEPT ![t] = x1]
        \/ th' = [th EXCEPT ![t] = Begin(t, Tail(th[t].todo), th[t].dirty)]
        \/ th' = [th EXCEPT ![t] = x3]
    BY <1>1, <2>2 DEF Skip
  <2>4. Able(x1)
    BY <1>1 DEF Able, IsThread
  <2>5. Able(x3)
    BY <1>1 DEF Able, IsThread
  <2> HIDE DEF x1, x3
  <2>6. Told' /\ Len(queue') <= 1 /\ whole' \in BOOLEAN
    BY <1>1, <2>1 DEF Told
  <2> QED
    BY <1>3, <2>1, <2>3, <2>4, <2>5, <2>6, OneGoesOn
<1>6. ASSUME NEW pc \in {"tombstones", "aliases", "discovery"}, Sent(t, pc), Told' PROVE RestInv'
  <2>1. th' = [th EXCEPT ![t] = [th[t] EXCEPT !.pc = After(sn, pc)]] /\ UNCHANGED <<resolver, queue, whole>>
    BY <1>1, <1>6 DEF Sent
  <2> HIDE DEF sn
  <2> QED
    BY <1>1, <1>4, <1>6, <2>1, OneGoesOn
<1>7. CASE SendTombstones(t)
  <2>1. /\ Sent(t, "tombstones") /\ ctl' \subseteq ctl
        /\ cfg' = [c \in Cmds |-> IF c \in sn.d.pend THEN 0 ELSE cfg[c]]
    BY <1>7 DEF SendTombstones
  <2>2. Told'
    BY <1>1, <2>1 DEF Told
  <2> QED
    BY <1>6, <2>1, <2>2
<1>8. CASE SendAliases(t)
  <2>1. Sent(t, "aliases") /\ ctl' \subseteq ctl /\ cfg' = cfg
    BY <1>8 DEF SendAliases
  <2>2. Told'
    BY <1>1, <2>1 DEF Told
  <2> QED
    BY <1>6, <2>1, <2>2
<1>9. CASE SendDiscovery(t)
  <2> DEFINE mine == {c \in Cmds : sn.d.cmds[c] # "none"}
             buttons == IF sn.d.disabled THEN {} ELSE {<<sn.slug, ActName[a]>> : a \in sn.d.acts}
  <2>1. Sent(t, "discovery") /\ th[t].pc \in Sending
    BY <1>9 DEF SendDiscovery, Sent, Sending
  <2>2. cfg' = [c \in Cmds |-> IF c \in mine THEN (IF sn.d.disabled THEN 0 ELSE sn.slug) ELSE cfg[c]]
    BY <1>9 DEF SendDiscovery
  <2>3. ctl' \subseteq ctl \cup buttons
    BY <1>9 DEF SendDiscovery
  <2>4. sn.slug \in Slugs /\ sn.d.acts \subseteq Acts
    BY <1>2, <2>1 DEF Device
  <2>5. buttons \subseteq Slugs \X Names
    <3> HIDE DEF sn
    <3> QED
      BY <2>4, ActionsHaveNames
  <2> HIDE DEF mine, buttons, sn
  <2>6. Told'
    BY <1>1, <2>2, <2>3, <2>4, <2>5 DEF Told
  <2> QED
    BY <1>6, <2>1, <2>6
<1>10. CASE SendState(t) \/ SendFails(t)
  <2>1. UNCHANGED <<resolver, queue, cfg, ctl>> /\ whole' \in {whole, FALSE}
    BY <1>10 DEF SendState, SendFails, broker
  <2>2. \/ th' = [th EXCEPT ![t] = [th[t] EXCEPT !.pc = "acknowledge"]]
        \/ th' = [th EXCEPT ![t] = Begin(t, Tail(th[t].todo), th[t].dirty)]
    BY <1>1, <1>10 DEF SendState, SendFails, Skip
  <2>3. Told' /\ Len(queue') <= 1 /\ whole' \in BOOLEAN
    BY <1>1, <2>1 DEF Told
  <2> QED
    BY <1>3, <1>4, <2>1, <2>2, <2>3, OneGoesOn
<1>11. CASE Acknowledge(t)
  <2> DEFINE acked == AcknowledgeActionCleanups(AcknowledgeCommandCleanups(dev, sn.d.pend), sn.d.pendActs)
             dirty == th[t].dirty \/ acked # dev
             rest == Tail(th[t].todo)
  <2>1. UNCHANGED <<resolver, queue, cfg, ctl, whole>>
    BY <1>11 DEF Acknowledge, broker
  <2>2. th' = [th EXCEPT ![t] = Saving(rest)] \/ th' = [th EXCEPT ![t] = Begin(t, rest, dirty)]
    BY <1>1, <1>11 DEF Acknowledge, Saving
  <2>3. dirty \in BOOLEAN
    BY <1>1
  <2> HIDE DEF dirty, rest
  <2>4. Told' /\ Len(queue') <= 1 /\ whole' \in BOOLEAN
    BY <1>1, <2>1 DEF Told
  <2> QED
    BY <2>1, <2>2, <2>3, <2>4, AbleFacts, OneGoesOn
<1>12. CASE Save(t)
  <2>1. UNCHANGED <<resolver, queue, cfg, ctl, whole>> /\ th' = [th EXCEPT ![t] = Begin(t, th[t].todo, FALSE)]
    BY <1>1, <1>12 DEF Save, broker
  <2>2. Told' /\ Len(queue') <= 1 /\ whole' \in BOOLEAN
    BY <1>1, <2>1 DEF Told
  <2> QED
    BY <1>3, <2>1, <2>2, OneGoesOn
<1> QED
  BY <1>5, <1>7, <1>8, <1>9, <1>10, <1>11, <1>12 DEF Publishing

LEMMA RestStep ==
    ASSUME RestInv, ShownInv, GatesInv, OwnersInv, [Next]_vars
    PROVE  RestInv'
<1>1. Len(queue) <= 1 /\ whole \in BOOLEAN /\ Told /\ \A t \in Threads : Able(th[t]) /\ IsThread(th[t])
  BY DEF RestInv, GatesInv, GatesTypes
<1>2. {"queue", "replay", "admin"} \subseteq Threads /\ Messages \subseteq Threads
  BY DEF Threads
<1>3. Len(<<>>) = 0 /\ \A todo : Len(<<todo>>) = 1
  OBVIOUS
<1>4. UNCHANGED <<cfg, ctl>> => Told'
  BY <1>1 DEF Told
<1>5. CASE \E t \in Threads : Publishing(t)
  BY <1>5, PublishingRest
<1>6. CASE \E t \in Messages : Receive(t)
  <2>1. PICK t \in Messages : Receive(t)
    BY <1>6
  <2>2. UNCHANGED <<resolver, queue, cfg, ctl, whole>>
    BY <2>1 DEF Receive, Event, Discovery, broker
  <2>3. \E todo : th' = [th EXCEPT ![t] = Saving(todo)] \/ th' = [th EXCEPT ![t] = Begin(t, todo, FALSE)]
    <3>1. CASE \E c \in Cmds, valued \in Valued : Event(t, c, valued)
      BY <3>1 DEF Event, Saving
    <3>2. CASE \E e \in Eqs : \E cs \in SUBSET {c \in Cmds : EqOf[c] = e}, as \in SUBSET {a \in Acts : EqOf[a] = e} :
                  Discovery(t, e, cs, as)
      <4>1. PICK e, cs, as : Discovery(t, e, cs, as)
        BY <3>2
      <4>2. \E todo : th' = [th EXCEPT ![t] = [pc |-> "save", want |-> {}, dirty |-> TRUE, todo |-> todo]]
        BY <4>1 DEF Discovery
      <4> QED
        BY <4>2 DEF Saving
    <3> QED
      BY <2>1, <3>1, <3>2 DEF Receive
  <2>4. t \in Threads /\ FALSE \in BOOLEAN
    BY <1>2
  <2> QED
    BY <1>1, <1>4, <2>2, <2>3, <2>4, AbleFacts, OneGoesOn
<1>7. CASE \E r \in Catalogs : SaveCatalog(r)
  <2> DEFINE x == [th["admin"] EXCEPT !.pc = "reconcile"]
  <2>1. th' = [th EXCEPT !["admin"] = x] /\ UNCHANGED <<resolver, queue, cfg, ctl, whole>>
    BY <1>7 DEF SaveCatalog, broker
  <2>2. "admin" \in Threads
    BY <1>2
  <2>3. Able(th["admin"]) /\ IsThread(th["admin"])
    BY <1>1, <2>2
  <2>4. Able(x)
    BY <2>3 DEF Able, IsThread
  <2> HIDE DEF x
  <2>5. Told' /\ Len(queue') <= 1 /\ whole' \in BOOLEAN
    BY <1>1, <1>4, <2>1
  <2> QED
    BY <2>1, <2>2, <2>4, <2>5, OneGoesOn
<1>8. CASE Reconcile
  <2>1. PICK todo : th' = [th EXCEPT !["admin"] = [pc |-> "persist", todo |-> todo, want |-> {}, dirty |-> FALSE]]
    BY <1>8 DEF Reconcile
  <2> DEFINE x == [pc |-> "persist", todo |-> todo, want |-> {}, dirty |-> FALSE]
  <2>2. resolver' = NewCatalogResolver(catalog) /\ UNCHANGED <<queue, cfg, ctl, whole>>
    BY <1>8 DEF Reconcile, broker
  <2>3. catalog \in Catalogs
    BY DEF OwnersInv
  <2>4. Able(x)
    BY DEF Able
  <2> HIDE DEF x
  <2>5. \A u \in Threads : Able(th'[u])
    <3>1. th' = [th EXCEPT !["admin"] = x] /\ th = [u \in Threads |-> th[u]]
      BY <2>1 DEF x, GatesInv, GatesTypes
    <3> QED
      BY <1>1, <2>4, <3>1
  <2> QED
    BY <1>1, <1>4, <2>2, <2>3, <2>5 DEF RestInv
<1>9. CASE Enqueue \/ TakeBatch \/ Replay
  <2>1. UNCHANGED <<resolver, cfg, ctl>> /\ whole' \in {whole, TRUE}
    BY <1>9 DEF Enqueue, TakeBatch, Replay, broker
  <2>2. Len(queue') <= 1
    <3>1. CASE Enqueue
      <4>1. queue' = <<th["admin"].todo>>
        BY <3>1 DEF Enqueue
      <4> QED
        BY <1>3, <4>1
    <3>2. CASE TakeBatch
      <4>1. queue' = <<>>
        BY <3>2 DEF TakeBatch
      <4> QED
        BY <1>3, <4>1
    <3>3. CASE Replay
      <4>1. queue' = queue
        BY <3>3 DEF Replay
      <4> QED
        BY <1>1, <4>1
    <3> QED
      BY <1>9, <3>1, <3>2, <3>3
  <2>3. \E t \in Threads : \E todo : th' = [th EXCEPT ![t] = Idle] \/ th' = [th EXCEPT ![t] = Begin(t, todo, FALSE)]
    BY <1>2, <1>9 DEF Enqueue, TakeBatch, Replay
  <2>4. Told' /\ whole' \in BOOLEAN /\ FALSE \in BOOLEAN
    BY <1>1, <1>4, <2>1
  <2> QED
    BY <2>1, <2>2, <2>3, <2>4, AbleFacts, OneGoesOn
<1>10. CASE Crash
  <2>1. PICK T : th' = Started(T)
    BY <1>10 DEF Crash
  <2>2. /\ resolver' = NewCatalogResolver(catalog) /\ queue' = <<>> /\ whole' = TRUE
        /\ UNCHANGED <<cfg, ctl>>
    BY <1>10 DEF Crash, broker
  <2>3. catalog \in Catalogs
    BY DEF OwnersInv
  <2>4. \A u \in Threads : Able(th'[u])
    BY <2>1, AbleFacts DEF Started
  <2> QED
    BY <1>3, <1>4, <2>2, <2>3, <2>4 DEF RestInv
<1>11. CASE UNCHANGED vars
  <2>1. UNCHANGED <<th, resolver, queue, whole, cfg, ctl>>
    BY <1>11 DEF vars, broker
  <2> QED
    BY <1>1, <1>4, <2>1 DEF RestInv
<1> QED
  BY <1>5, <1>6, <1>7, <1>8, <1>9, <1>10, <1>11 DEF Next

LEMMA RestInit ==
    ASSUME Init
    PROVE  RestInv
<1>1. PICK T : th = Started(T)
  BY DEF Init
<1>2. /\ resolver = NewCatalogResolver(FirstCatalog) /\ FirstCatalog \in Catalogs /\ queue = <<>>
      /\ whole = TRUE /\ cfg = [c \in Cmds |-> 0] /\ ctl = {}
  BY CatalogsNameSlugs DEF Init
<1>3. \A u \in Threads : Able(th[u])
  BY <1>1, AbleFacts DEF Started
<1>4. Told
  BY <1>2 DEF Told
<1> QED
  BY <1>2, <1>3, <1>4 DEF RestInv

\* Everything the bridge keeps has its type, and no two of its devices ever share
\* a publish revision, nor does one have a revision still to be given out
\* (bumpDevicePublishRevisionLocked, ensureDevicePublishRevisionsLocked): the
\* order of two snapshots of a device, and of a device and its aliases, is the
\* order of the calls that made them.
THEOREM BridgeTyped == Spec => []TypeOK
<1> DEFINE Inv == RestInv /\ ShownInv /\ GatesInv /\ OwnersInv /\ LagInv
<1>1. Init => Inv
  <2>1. Init => LagInv
    BY DEF Init, LagInv
  <2> QED
    BY <2>1, RestInit, ShownInit, GatesInit, OwnersInit
<1>2. Inv /\ [Next]_vars => Inv'
  BY RestStep, ShownStep, GatesStep, OwnersStep, LagStep
<1>3. Inv => TypeOK
  <2> SUFFICES ASSUME Inv PROVE TypeOK
    OBVIOUS
  <2>1. Store \in Stores /\ Distinct(Store) /\ saved \in Files /\ catalog \in Catalogs
    BY DEF OwnersInv, Sound
  <2>2. /\ \A s \in Slugs : dev[s] \in Device \cup {NoDevice} /\ saved[s] \in Device \cup {NoDevice}
        /\ index \in [Cmds -> Slugs \cup {0}] /\ eqs \in [Eqs -> Slugs \cup {0}] /\ next \in Nat
    BY <2>1 DEF Stores, Store, Files
  <2>3. \A s \in Live(Store) : /\ dev[s].rev \in 1..next
                                /\ \A k \in Live(Store) : dev[s].rev = dev[k].rev => s = k
    <3>1. Store.dev = dev /\ Store.next = next
      BY DEF Store
    <3> QED
      BY <2>1, <2>2, <3>1 DEF Distinct, Ranked
  <2>4. \A t \in Threads : \A i \in DOMAIN th[t].todo : th[t].todo[i].d \in Device
    <3> SUFFICES ASSUME NEW t \in Threads, NEW i \in DOMAIN th[t].todo PROVE th[t].todo[i].d \in Device
      OBVIOUS
    <3>1. th[t].todo \in Seq(Snaps)
      BY DEF ShownInv, Publisher, Batch
    <3>2. th[t].todo[i] \in Snaps
      BY <3>1
    <3> QED
      BY <3>2 DEF Snaps
  <2>5. owner \in [Slugs -> Threads \cup {None}] /\ latest \in [Slugs -> Nat] /\ shown \in [Slugs -> Nat]
    BY DEF GatesInv, GatesTypes, ShownInv
  <2> QED
    BY <2>1, <2>2, <2>3, <2>4, <2>5 DEF TypeOK, RestInv, Able, Told, LagInv
<1> QED
  BY <1>1, <1>2, <1>3, PTL DEF Spec

-----------------------------------------------------------------------------
(* What Home Assistant has of a command nobody owns                        *)

Shows(sn) == {c \in Cmds : sn.d.cmds[c] # "none"}

\* The snapshots that show only what is owned, and remove nothing that is.
Fit(f) == {sn \in Snaps : Shows(sn) \subseteq Held(f) /\ sn.d.pend \cap Held(f) = {}}

Past == {"aliases", "discovery", "state", "acknowledge"}
Saves == {"save", "persist"}

\* Where a goroutine is with its batch; behind the tombstones of a device, they
\* have done what they are for.
Carries(t) ==
    /\ th[t].todo \in Seq(Fit(dev))
    /\ th[t].pc \in Sending \cup {"gates", "acknowledge"} => th[t].todo # <<>>
    /\ th[t].pc = "idle" => th[t].todo = <<>>
    /\ th[t].pc \in Past => \A c \in Head(th[t].todo).d.pend : cfg[c] = 0

\* Goroutines do not overlap: t works and the rest do not, or a batch waits.
\* Outside a save, the file knows of every command that is owned, if it is not behind.
Filed == lag = "none" => Held(dev) \subseteq Kept(saved)
Rests(t) == th[t].pc = "idle" /\ th[t].todo = <<>>
Works(t) == /\ \A u \in Threads \ {t} : Rests(u)
            /\ queue = <<>>
            /\ Carries(t)
            /\ th[t].pc \notin Saves => Filed
Waiting == /\ \A t \in Threads : Rests(t)
           /\ queue \in Seq(Seq(Fit(dev)))
           /\ Filed

\* The store knows of every command Home Assistant has, and so does the file if
\* it is not behind, until the bridge stops with one that is.
Remembered == /\ cfg \in [Cmds -> Slugs \cup {0}]
              /\ \A c \in Cmds : cfg[c] # 0 => /\ (lag # "lost" => c \in Kept(dev))
                                              /\ (lag = "none" => c \in Kept(saved))

OrphanInv == Remembered /\ ((\E t \in Threads : Works(t)) \/ Waiting)

\* The snapshots taken of a clean store are fit.
LEMMA SnapshotFits ==
    ASSUME NEW T \in Stores, Clean(T)
    PROVE  \A s \in Live(T) : Snapshot(T, s) \in Fit(T.dev)
<1> SUFFICES ASSUME NEW s \in Live(T) PROVE Snapshot(T, s) \in Fit(T.dev)
  OBVIOUS
<1> DEFINE sn == Snapshot(T, s)
<1>1. sn \in Snaps /\ sn.d = T.dev[s] /\ s \in Slugs /\ T.dev[s] # NoDevice /\ T.dev[s] \in Device
  BY SnapshotType, LiveDevice DEF Snapshot
<1> HIDE DEF sn
<1>2. Shows(sn) \subseteq Held(T.dev)
  BY <1>1 DEF Shows, Held
<1>3. ASSUME NEW c \in sn.d.pend PROVE c \notin Held(T.dev)
  <2>1. c \in Cmds /\ c \in Pend(T, s)
    BY <1>1, <1>3 DEF Pend, Device
  <2>2. Owners(T, c) = {}
    BY <1>1, <2>1 DEF Clean
  <2> QED
    BY <2>1, <2>2, FileOfStore
<1>4. sn \in Fit(T.dev)
  BY <1>1, <1>2, <1>3 DEF Fit
<1> QED
  BY <1>4 DEF sn

LEMMA BatchesFit ==
    ASSUME NEW T \in Stores, Clean(T), NEW W
    PROVE  SnapshotsBySlug(T, W) \in Seq(Fit(T.dev)) /\ SnapshotsInPublishOrder(T, W) \in Seq(Fit(T.dev))
BY SnapshotFits, SnapshotsBySlugIn, SnapshotsInPublishOrderIn

\* What a goroutine may become that has not entered the gates of a device.
Fresh(x, f) ==
    /\ x.todo \in Seq(Fit(f)) /\ x.pc \notin Sending \cup {"acknowledge"}
    /\ x.pc = "gates" => x.todo # <<>>
    /\ x.pc = "idle" => x.todo = <<>>

LEMMA FreshFacts ==
    ASSUME NEW f
    PROVE  /\ \A t, dirty : \A todo \in Seq(Fit(f)) : Fresh(Begin(t, todo, dirty), f)
           /\ \A todo \in Seq(Fit(f)) : Fresh(Saving(todo), f)
           /\ Fresh(Idle, f)
<1>1. <<>> \in Seq(Fit(f))
  OBVIOUS
<1>2. Fresh(Idle, f)
  BY <1>1 DEF Fresh, Idle, Sending
<1>3. \A todo \in Seq(Fit(f)) : Fresh(Saving(todo), f)
  BY DEF Fresh, Saving, Sending
<1>4. ASSUME NEW t, NEW dirty, NEW todo \in Seq(Fit(f)) PROVE Fresh(Begin(t, todo, dirty), f)
  <2>1. CASE todo # <<>>
    BY <2>1 DEF Fresh, Begin, Sending
  <2>2. CASE todo = <<>>
    BY <1>1, <2>2 DEF Fresh, Begin, Idle, Sending
  <2> QED
    BY <2>1, <2>2
<1> QED
  BY <1>2, <1>3, <1>4

\* The one goroutine that works turns to something else.
LEMMA TurnsTo ==
    ASSUME GatesInv, NEW t \in Threads, \A u \in Threads \ {t} : Rests(u),
           NEW x, th' = [th EXCEPT ![t] = x], Fresh(x, dev'), queue' = <<>>,
           x.pc \notin Saves => Filed'
    PROVE  Works(t)'
<1>1. th'[t] = x /\ \A u \in Threads \ {t} : th'[u] = th[u]
  BY DEF GatesInv, GatesTypes
<1>2. \A u \in Threads \ {t} : Rests(u)'
  BY <1>1 DEF Rests
<1>3. Carries(t)'
  BY <1>1 DEF Carries, Fresh, Past, Sending
<1> QED
  BY <1>1, <1>2, <1>3 DEF Works

\* It goes on with the device it is at.
LEMMA GoesOn ==
    ASSUME GatesInv, NEW t \in Threads, Works(t), th[t].pc \in Sending \cup {"gates"},
           NEW x, th' = [th EXCEPT ![t] = x], x.todo = th[t].todo,
           x.pc \in Sending \cup {"gates", "acknowledge"}, UNCHANGED <<dev, saved, lag, queue>>,
           x.pc \in Past => \A c \in Head(th[t].todo).d.pend : cfg'[c] = 0
    PROVE  Works(t)'
<1>1. th'[t] = x /\ \A u \in Threads \ {t} : th'[u] = th[u]
  BY DEF GatesInv, GatesTypes
<1>2. \A u \in Threads \ {t} : Rests(u)'
  BY <1>1 DEF Rests, Works
<1>3. Carries(t)'
  BY <1>1 DEF Carries, Works, Sending
<1>4. th[t].pc \notin Saves
  BY DEF Sending, Saves
<1> QED
  BY <1>2, <1>3, <1>4 DEF Works, Filed

\* Whoever is not idle is the one that works.
LEMMA OnlyWorker ==
    ASSUME OrphanInv, NEW t \in Threads, th[t].pc # "idle"
    PROVE  Works(t)
BY DEF OrphanInv, Works, Waiting, Rests

\* Whoever begins is alone, and nothing waits but what it may take.
LEMMA OnlyBeginner ==
    ASSUME OrphanInv, Serial, NEW t \in Threads, MayBegin(t)
    PROVE  /\ \A u \in Threads : Rests(u)
           /\ Filed
           /\ t # "queue" => queue = <<>>
           /\ queue \in Seq(Seq(Fit(dev)))
<1>1. \A u \in Threads : th[u].pc = "idle"
  BY DEF MayBegin
<1>2. CASE Waiting
  BY <1>2 DEF Waiting, MayBegin
<1>3. ASSUME NEW u \in Threads, Works(u)
      PROVE  /\ \A k \in Threads : Rests(k)
             /\ Filed /\ queue = <<>>
  BY <1>1, <1>3 DEF Works, Carries, Rests, Saves
<1>4. <<>> \in Seq(Seq(Fit(dev)))
  OBVIOUS
<1> QED
  BY <1>2, <1>3, <1>4 DEF OrphanInv

LEMMA FitHead ==
    ASSUME NEW f, NEW todo \in Seq(Fit(f)), todo # <<>>
    PROVE  /\ Head(todo) \in Fit(f) /\ Tail(todo) \in Seq(Fit(f)) /\ Head(todo) \in Snaps
           /\ Shows(Head(todo)) \subseteq Held(f) /\ Head(todo).d.pend \cap Held(f) = {}
           /\ Head(todo).d.pend \subseteq Cmds /\ Head(todo).slug \in Slugs
<1>1. Head(todo) \in Fit(f) /\ Tail(todo) \in Seq(Fit(f))
  OBVIOUS
<1> QED
  BY <1>1 DEF Fit, Snaps, Device

LEMMA AfterGates ==
    ASSUME NEW sn
    PROVE  /\ After(sn, "gates") \in Sending /\ (After(sn, "gates") \in Past => sn.d.pend = {})
           /\ After(sn, "tombstones") \in Sending /\ After(sn, "aliases") = "discovery"
           /\ After(sn, "discovery") = "state"
BY DEF After, Gone, Past, Sending

\* A save, or one that fails, keeps it too.
LEMMA WriteRemembers ==
    ASSUME Remembered, Write, UNCHANGED <<dev, cfg>>
    PROVE  Remembered' /\ Filed'
<1>1. CASE saved' = dev /\ lag' = (IF lag = "lost" THEN lag ELSE "none")
  BY <1>1 DEF Remembered, Filed, Kept
<1>2. CASE UNCHANGED saved /\ lag' = (IF lag = "lost" THEN lag ELSE "behind")
  BY <1>2 DEF Remembered, Filed
<1> QED
  BY <1>1, <1>2 DEF Write

\* Whoever publishes keeps what is remembered.
LEMMA PublishingRemembers ==
    ASSUME OrphanInv, GatesInv, OwnersInv, NEW t \in Threads, Publishing(t)
    PROVE  OrphanInv'
<1> DEFINE todo == th[t].todo
           sn == Head(todo)
<1>1. Works(t) /\ th[t].pc # "idle"
  <2>1. th[t].pc # "idle"
    <3>1. CASE LockGate(t) \/ SendState(t) \/ SendFails(t) \/ Acknowledge(t) \/ Save(t)
      BY <3>1 DEF LockGate, SendState, SendFails, Acknowledge, Save
    <3>2. ASSUME NEW pc \in {"tombstones", "aliases", "discovery"}, Sent(t, pc) PROVE th[t].pc # "idle"
      BY <3>2 DEF Sent
    <3>3. CASE SendTombstones(t) \/ SendAliases(t) \/ SendDiscovery(t)
      BY <3>2, <3>3 DEF SendTombstones, SendAliases, SendDiscovery
    <3> QED
      BY <3>1, <3>3 DEF Publishing
  <2> QED
    BY <2>1, OnlyWorker
<1>2. todo \in Seq(Fit(dev)) /\ queue = <<>> /\ \A u \in Threads \ {t} : Rests(u)
  BY <1>1 DEF Works, Carries
<1>3. /\ th[t] = [pc |-> th[t].pc, todo |-> th[t].todo, want |-> th[t].want, dirty |-> th[t].dirty]
      /\ Remembered
  BY DEF GatesInv, GatesTypes, IsThread, OrphanInv
<1>4. th[t].pc \in Sending \cup {"gates", "acknowledge"} =>
        /\ todo # <<>> /\ Tail(todo) \in Seq(Fit(dev)) /\ sn.slug \in Slugs /\ sn.d.pend \subseteq Cmds
        /\ Shows(sn) \subseteq Held(dev) /\ sn.d.pend \cap Held(dev) = {}
        /\ Filed
  <2> SUFFICES ASSUME th[t].pc \in Sending \cup {"gates", "acknowledge"}
               PROVE  /\ todo # <<>> /\ Tail(todo) \in Seq(Fit(dev)) /\ sn.slug \in Slugs /\ sn.d.pend \subseteq Cmds
                      /\ Shows(sn) \subseteq Held(dev) /\ sn.d.pend \cap Held(dev) = {}
                      /\ Filed
    OBVIOUS
  <2>1. todo # <<>> /\ th[t].pc \notin Saves
    BY <1>1 DEF Works, Carries, Sending, Saves
  <2> QED
    BY <1>1, <1>2, <2>1, FitHead DEF Works
<1> HIDE DEF todo, sn
\* The device is given up or done with.
<1>5. ASSUME UNCHANGED <<dev, saved, lag, queue, cfg>>, th[t].pc \in Sending \cup {"gates", "acknowledge"},
             th' = [th EXCEPT ![t] = Begin(t, Tail(todo), th[t].dirty)]
      PROVE  OrphanInv'
  <2>1. Fresh(Begin(t, Tail(todo), th[t].dirty), dev')
    BY <1>4, <1>5, FreshFacts
  <2>2. Works(t)'
    BY <1>2, <1>4, <1>5, <2>1, TurnsTo DEF Filed
  <2>3. Remembered'
    BY <1>3, <1>5 DEF Remembered
  <2> QED
    BY <2>2, <2>3 DEF OrphanInv
\* The device is gone on with.
<1>6. ASSUME NEW x, UNCHANGED <<dev, saved, lag, queue>>, th[t].pc \in Sending \cup {"gates"},
             th' = [th EXCEPT ![t] = x], x.todo = todo, x.pc \in Sending \cup {"gates", "acknowledge"},
             x.pc \in Past => \A c \in sn.d.pend : cfg'[c] = 0, Remembered'
      PROVE  OrphanInv'
  <2>1. Works(t)'
    BY <1>1, <1>6, GoesOn DEF todo, sn
  <2> QED
    BY <1>6, <2>1 DEF OrphanInv
<1>7. CASE LockGate(t)
  <2>1. th[t].pc = "gates" /\ UNCHANGED <<dev, saved, lag, queue, cfg>> /\ th[t].pc \in Sending \cup {"gates"}
    BY <1>7 DEF LockGate, store, broker
  <2>2. Remembered'
    BY <1>3, <2>1 DEF Remembered
  <2>3. PICK s \in NextGate(t) :
          \/ th' = [th EXCEPT ![t].want = th[t].want \ {s}]
          \/ Skip(t)
          \/ th' = [th EXCEPT ![t].want = {}, ![t].pc = After(Head(th[t].todo), "gates")]
    BY <1>7 DEF LockGate
  <2>4. CASE Skip(t)
    BY <1>5, <2>1, <2>4 DEF Skip, todo
  <2>5. CASE th' = [th EXCEPT ![t].want = th[t].want \ {s}]
    <3> DEFINE x == [th[t] EXCEPT !.want = th[t].want \ {s}]
    <3>1. th' = [th EXCEPT ![t] = x] /\ x.todo = todo /\ x.pc = "gates"
      BY <1>3, <2>1, <2>5 DEF todo
    <3> HIDE DEF x
    <3> QED
      BY <1>6, <2>1, <2>2, <3>1 DEF Past
  <2>6. CASE th' = [th EXCEPT ![t].want = {}, ![t].pc = After(Head(th[t].todo), "gates")]
    <3> DEFINE p == After(sn, "gates")
               x == [th[t] EXCEPT !.want = {}, !.pc = p]
    <3>1. p \in Sending /\ (p \in Past => sn.d.pend = {})
      BY AfterGates
    <3>2. th' = [th EXCEPT ![t] = x]
      BY <2>6 DEF sn, todo
    <3> HIDE DEF p
    <3>3. x.todo = todo /\ x.pc = p
      BY <1>3 DEF todo
    <3> HIDE DEF x
    <3> QED
      BY <1>6, <2>1, <2>2, <3>1, <3>2, <3>3
  <2> QED
    BY <2>3, <2>4, <2>5, <2>6
\* A group of messages.
<1>8. ASSUME NEW pc \in {"tombstones", "aliases", "discovery"}, Sent(t, pc), Remembered',
             \A c \in sn.d.pend : cfg'[c] = 0
      PROVE  OrphanInv'
  <2> DEFINE p == After(sn, pc)
             x == [th[t] EXCEPT !.pc = p]
  <2>1. p \in Sending /\ th[t].pc \in Sending \cup {"gates"} /\ UNCHANGED <<dev, saved, lag, queue>>
    BY <1>8, AfterGates DEF Sent, store, Sending
  <2>2. th' = [th EXCEPT ![t] = x]
    BY <1>8 DEF Sent, sn, todo
  <2> HIDE DEF p
  <2>3. x.todo = todo /\ x.pc = p
    BY <1>3 DEF todo
  <2> HIDE DEF x
  <2> QED
    BY <1>6, <1>8, <2>1, <2>2, <2>3
<1>9. CASE SendTombstones(t)
  <2>1. /\ Sent(t, "tombstones") /\ UNCHANGED <<dev, saved, lag>> /\ th[t].pc = "tombstones"
        /\ cfg' = [c \in Cmds |-> IF c \in sn.d.pend THEN 0 ELSE cfg[c]]
    BY <1>9 DEF SendTombstones, Sent, store, sn, todo
  <2>2. sn.d.pend \subseteq Cmds
    BY <1>4, <2>1 DEF Sending
  <2>3. Remembered'
    BY <1>3, <2>1 DEF Remembered
  <2>4. \A c \in sn.d.pend : cfg'[c] = 0
    BY <2>1, <2>2
  <2> QED
    BY <1>8, <2>1, <2>3, <2>4
<1>10. CASE SendAliases(t)
  <2>1. Sent(t, "aliases") /\ UNCHANGED <<dev, saved, lag, cfg>> /\ th[t].pc = "aliases"
    BY <1>10 DEF SendAliases, Sent, store
  <2>2. Remembered'
    BY <1>3, <2>1 DEF Remembered
  <2>3. \A c \in sn.d.pend : cfg'[c] = 0
    BY <1>1, <2>1 DEF Works, Carries, Past, sn, todo
  <2> QED
    BY <1>8, <2>1, <2>2, <2>3
<1>11. CASE SendDiscovery(t)
  <2>1. /\ Sent(t, "discovery") /\ UNCHANGED <<dev, saved, lag>> /\ th[t].pc = "discovery"
        /\ cfg' = [c \in Cmds |-> IF c \in Shows(sn) THEN (IF sn.d.disabled THEN 0 ELSE sn.slug) ELSE cfg[c]]
    BY <1>11 DEF SendDiscovery, Sent, store, Shows, sn, todo
  <2>2. /\ sn.slug \in Slugs /\ sn.d.pend \subseteq Cmds /\ Shows(sn) \subseteq Held(dev)
        /\ sn.d.pend \cap Held(dev) = {} /\ Filed
    BY <1>4, <2>1 DEF Sending
  <2>3. Held(dev) \subseteq Kept(dev)
    BY DEF Kept
  <2>4. Remembered'
    BY <1>3, <2>1, <2>2, <2>3 DEF Remembered, Filed
  <2>5. \A c \in sn.d.pend : cfg[c] = 0
    BY <1>1, <2>1 DEF Works, Carries, Past, sn, todo
  <2>6. \A c \in sn.d.pend : cfg'[c] = 0
    BY <2>1, <2>2, <2>5
  <2> QED
    BY <1>8, <2>1, <2>4, <2>6
<1>12. CASE SendState(t)
  <2>1. th[t].pc = "state" /\ UNCHANGED <<dev, saved, lag, queue, cfg>>
    BY <1>12 DEF SendState, store
  <2>2. CASE Skip(t)
    BY <1>5, <2>1, <2>2 DEF Skip, todo, Sending
  <2>3. CASE th' = [th EXCEPT ![t].pc = "acknowledge"]
    <3> DEFINE x == [th[t] EXCEPT !.pc = "acknowledge"]
    <3>1. th' = [th EXCEPT ![t] = x] /\ x.todo = todo /\ x.pc = "acknowledge"
      BY <1>3, <2>3 DEF todo
    <3> HIDE DEF x
    <3>2. \A c \in sn.d.pend : cfg'[c] = 0
      BY <1>1, <2>1 DEF Works, Carries, Past, sn, todo
    <3>3. Remembered'
      BY <1>3, <2>1 DEF Remembered
    <3> QED
      BY <1>6, <2>1, <3>1, <3>2, <3>3 DEF Sending
  <2> QED
    BY <1>12, <2>2, <2>3 DEF SendState
<1>13. CASE SendFails(t)
  BY <1>5, <1>13 DEF SendFails, Skip, store, broker, todo, Sending
<1>14. CASE Acknowledge(t)
  <2> DEFINE f == AcknowledgeActionCleanups(AcknowledgeCommandCleanups(Store.dev, sn.d.pend), sn.d.pendActs)
             U == [Store EXCEPT !.dev = f]
             rest == Tail(todo)
  <2>1. /\ th[t].pc = "acknowledge" /\ UNCHANGED <<saved, lag, queue, cfg>> /\ dev' = f
        /\ \E dirty : th' = [th EXCEPT ![t] = IF t \in Messages /\ dirty
                             THEN [pc |-> "save", todo |-> rest, want |-> {}, dirty |-> TRUE]
                             ELSE Begin(t, rest, dirty)]
    BY <1>3, <1>14 DEF Acknowledge, Store, store, broker, sn, todo, GatesInv, GatesTypes
  <2>2. Sound(U) /\ Held(U.dev) = Held(Store.dev) /\ Known(Store) \ sn.d.pend \subseteq Known(U)
    BY AcknowledgeFacts DEF OwnersInv
  <2>3. U.dev = dev' /\ U \in Stores /\ Store.dev = dev /\ Store \in Stores
    BY <2>1, <2>2 DEF Store, Sound, OwnersInv
  <2> HIDE DEF f, U
  <2>4. Held(dev') = Held(dev) /\ Kept(dev) \ sn.d.pend \subseteq Kept(dev')
    BY <2>2, <2>3, FileOfStore
  <2>5. \A c \in sn.d.pend : cfg[c] = 0
    BY <1>1, <2>1 DEF Works, Carries, Past, sn, todo
  <2>6. Remembered'
    BY <1>3, <2>1, <2>4, <2>5 DEF Remembered
  <2>7. Fit(dev') = Fit(dev)
    BY <2>4 DEF Fit
  <2>8. rest \in Seq(Fit(dev')) /\ Filed'
    BY <1>4, <2>1, <2>4, <2>7 DEF Filed
  <2>9. PICK x : Fresh(x, dev') /\ th' = [th EXCEPT ![t] = x]
    <3>1. PICK dirty : th' = [th EXCEPT ![t] = IF t \in Messages /\ dirty
                             THEN [pc |-> "save", todo |-> rest, want |-> {}, dirty |-> TRUE]
                             ELSE Begin(t, rest, dirty)]
      BY <2>1
    <3>2. th' = [th EXCEPT ![t] = Saving(rest)] \/ th' = [th EXCEPT ![t] = Begin(t, rest, dirty)]
      BY <3>1 DEF Saving
    <3> HIDE DEF rest
    <3> QED
      BY <2>8, <3>2, FreshFacts
  <2>10. Works(t)'
    BY <1>2, <2>1, <2>8, <2>9, TurnsTo
  <2> QED
    BY <2>6, <2>10 DEF OrphanInv
<1>15. CASE Save(t)
  <2>1. /\ Write /\ UNCHANGED <<dev, queue, cfg>> /\ th' = [th EXCEPT ![t] = Begin(t, todo, FALSE)]
    BY <1>15 DEF Save, store, broker, todo, GatesInv, GatesTypes
  <2>2. Remembered' /\ Filed'
    BY <1>3, <2>1, WriteRemembers
  <2>4. Fresh(Begin(t, todo, FALSE), dev')
    BY <1>2, <2>1, FreshFacts
  <2>5. Works(t)'
    BY <1>2, <2>1, <2>2, <2>4, TurnsTo
  <2> QED
    BY <2>2, <2>5 DEF OrphanInv
<1> QED
  BY <1>7, <1>9, <1>10, <1>11, <1>12, <1>13, <1>14, <1>15 DEF Publishing

\* A store without tombstones of owned commands that knows no less: what is
\* remembered stays so, and what is taken of it is fit.
LEMMA StoreRemembers ==
    ASSUME Remembered, Sound(Store), NEW T, Sound(T), Becomes(T), Known(Store) \subseteq Known(T),
           UNCHANGED <<saved, lag, cfg>>
    PROVE  Remembered' /\ dev' = T.dev
<1>1. dev' = T.dev /\ T \in Stores /\ Store \in Stores /\ Store.dev = dev
  BY DEF Becomes, Sound, Store
<1>2. Kept(dev) \subseteq Kept(dev')
  BY <1>1, FileOfStore
<1> QED
  BY <1>1, <1>2 DEF Remembered

LEMMA EventRemembers ==
    ASSUME OrphanInv, GatesInv, OwnersInv, TombInv, Serial, Valued \subseteq {TRUE},
           NEW t \in Messages, NEW c \in Cmds, NEW valued \in Valued, Event(t, c, valued)
    PROVE  OrphanInv'
<1> DEFINE n == NameOf[EqOf[c]]
           T == Apply(Store, resolver, c, n)
           s == EventIdentity(Store, resolver, c, n).slug
           batch == Append(SnapshotsBySlug(T, T.touched \ {s}), Snapshot(T, s))
<1>1. n \in Slugs /\ Store \in Stores /\ resolver \in Resolvers /\ Sound(Store) /\ t \in Threads /\ t # "queue"
  BY IdsHaveEquipment, MessagesApart DEF OwnersInv, Sound, Threads
<1>2. T \in Keeping(Store) /\ s \in Live(T) /\ Distinct(T)
  BY <1>1, ApplyKeeping DEF Sound
<1>3. /\ th' = [th EXCEPT ![t] = Saving(batch)] /\ Becomes(T) /\ MayBegin(t)
      /\ UNCHANGED <<saved, lag, queue, cfg>>
  BY DEF Event, Saving, broker
<1> HIDE DEF T, s
<1>4. Sound(T) /\ Clean(T) /\ Known(Store) \subseteq Known(T)
  BY <1>1, <1>2 DEF Keeping, Sound, TombInv
<1>5. Remembered' /\ dev' = T.dev
  BY <1>1, <1>3, <1>4, StoreRemembers DEF OrphanInv
<1>6. batch \in Seq(Fit(dev'))
  <2>1. Snapshot(T, s) \in Fit(T.dev) /\ SnapshotsBySlug(T, T.touched \ {s}) \in Seq(Fit(T.dev))
    BY <1>2, <1>4, SnapshotFits, BatchesFit DEF Sound
  <2> QED
    BY <1>5, <2>1
<1> HIDE DEF batch
<1>7. Fresh(Saving(batch), dev') /\ Saving(batch).pc \in Saves
  BY <1>6, FreshFacts DEF Saving, Saves
<1>8. queue' = <<>> /\ \A u \in Threads \ {t} : Rests(u)
  BY <1>1, <1>3, OnlyBeginner
<1>9. Works(t)'
  BY <1>1, <1>3, <1>7, <1>8, TurnsTo
<1> QED
  BY <1>1, <1>5, <1>9 DEF OrphanInv

LEMMA DiscoveryRemembers ==
    ASSUME OrphanInv, GatesInv, OwnersInv, TombInv, Serial,
           NEW t \in Messages, NEW e \in Eqs, NEW cs \in SUBSET Cmds, NEW as \in SUBSET Acts,
           Discovery(t, e, cs, as)
    PROVE  OrphanInv'
<1> DEFINE D == Discovered(Store, resolver, e, cs, as, NameOf[e])
<1>1. /\ NameOf[e] \in Slugs /\ Store \in Stores /\ resolver \in Resolvers /\ Sound(Store) /\ Single(Store)
      /\ t \in Threads /\ t # "queue"
  BY IdsHaveEquipment, MessagesApart DEF OwnersInv, Sound, Threads
<1>2. D.T \in Stores /\ D.slug \in Live(D.T) /\ D.T \in Owning(Store) /\ Ranked(D.T)
  <2>1. D.T \in Stores /\ D.slug \in Live(D.T) /\ D.T \in Owning(Store)
    BY <1>1, DiscoveredOwning
  <2>2. Ranked(Store)
    BY <1>1 DEF Sound, Distinct
  <2> HIDE DEF D
  <2>3. Ranked(D.T)
    BY <1>1, <2>1, <2>2, OwningFacts, CountedRanked
  <2> QED
    BY <2>1, <2>3
<1>3. PICK primary \in IF LinkedTargets(D) = {} THEN {D.slug} ELSE LinkedTargets(D) :
        LET T == Numbered(DiscoveryFor(D, resolver, primary)) IN
        /\ Becomes(T)
        /\ th' = [th EXCEPT ![t] = [pc |-> "save", want |-> {}, dirty |-> TRUE,
                                    todo |-> SnapshotsInPublishOrder(T, T.touched)]]
  BY DEF Discovery
<1>4. MayBegin(t) /\ UNCHANGED <<saved, lag, queue, cfg>>
  BY DEF Discovery, broker
<1> HIDE DEF D
<1>5. primary \in Live(D.T)
  BY <1>2 DEF LinkedTargets
<1> DEFINE T == Numbered(DiscoveryFor(D, resolver, primary))
           batch == SnapshotsInPublishOrder(T, T.touched)
<1>6. Sound(T) /\ (Clean(D.T) => Clean(T)) /\ Known(D.T) \subseteq Known(T)
  BY <1>1, <1>2, <1>5, DiscoveryForFacts DEF Sound
<1>7. th' = [th EXCEPT ![t] = Saving(batch)] /\ Becomes(T)
  BY <1>3 DEF Saving
<1> HIDE DEF T
<1>8. Clean(T) /\ Known(Store) \subseteq Known(T)
  BY <1>2, <1>6 DEF Owning, Keeping, TombInv
<1>9. Remembered' /\ dev' = T.dev
  BY <1>1, <1>4, <1>6, <1>7, <1>8, StoreRemembers DEF OrphanInv
<1>10. batch \in Seq(Fit(dev'))
  BY <1>6, <1>8, <1>9, BatchesFit DEF Sound
<1> HIDE DEF batch
<1>11. Fresh(Saving(batch), dev') /\ Saving(batch).pc \in Saves
  BY <1>10, FreshFacts DEF Saving, Saves
<1>12. queue' = <<>> /\ \A u \in Threads \ {t} : Rests(u)
  BY <1>1, <1>4, OnlyBeginner
<1>13. Works(t)'
  BY <1>1, <1>7, <1>11, <1>12, TurnsTo
<1> QED
  BY <1>1, <1>9, <1>13 DEF OrphanInv

LEMMA ReconcileRemembers ==
    ASSUME OrphanInv, GatesInv, OwnersInv, TombInv, Reconcile
    PROVE  OrphanInv'
<1> DEFINE r == NewCatalogResolver(catalog)
           T == ReconcileResolver(Store, r)
           batch == SnapshotsInPublishOrder(T, Live(T))
           x == [pc |-> "persist", todo |-> batch, want |-> {}, dirty |-> FALSE]
<1>1. r \in Resolvers /\ Store \in Stores /\ Sound(Store) /\ Ranked(Store) /\ "admin" \in Threads
  BY NewCatalogResolverType DEF OwnersInv, Sound, Distinct, Threads
<1>2. th' = [th EXCEPT !["admin"] = x] /\ Becomes(T) /\ UNCHANGED <<saved, lag, queue, cfg>>
  BY DEF Reconcile, broker
<1>3. Works("admin")
  BY <1>1, OnlyWorker DEF Reconcile
<1> HIDE DEF r
<1>4. Sound(T) /\ Clean(T) /\ Known(Store) \subseteq Known(T)
  BY <1>1, ReconcileFacts DEF Sound, TombInv
<1> HIDE DEF T
<1>5. Remembered' /\ dev' = T.dev
  BY <1>1, <1>2, <1>4, StoreRemembers DEF OrphanInv
<1>6. batch \in Seq(Fit(dev'))
  BY <1>4, <1>5, BatchesFit DEF Sound
<1> HIDE DEF batch
<1>7. Fresh(x, dev') /\ x.pc \in Saves
  BY <1>6 DEF Fresh, Sending, Saves
<1> HIDE DEF x
<1>8. queue' = <<>> /\ \A u \in Threads \ {"admin"} : Rests(u)
  BY <1>2, <1>3 DEF Works
<1>9. Works("admin")'
  BY <1>1, <1>2, <1>7, <1>8, TurnsTo
<1> QED
  BY <1>1, <1>5, <1>9 DEF OrphanInv

\* The store a start makes of a file, and its first replay.
LEMMA StartFits ==
    ASSUME NEW T \in Stores, Clean(T), NEW t \in Threads
    PROVE  IF t = "replay" THEN Fresh(Started(T)[t], T.dev) /\ Started(T)[t].pc \notin Saves
           ELSE Started(T)[t].pc = "idle" /\ Started(T)[t].todo = <<>>
<1> DEFINE batch == SnapshotsBySlug(T, Live(T))
<1>1. batch \in Seq(Fit(T.dev))
  BY BatchesFit
<1>2. CASE t = "replay"
  <2>1. Started(T)[t] = Begin(t, batch, FALSE)
    BY <1>2 DEF Started
  <2> HIDE DEF batch
  <2>2. Fresh(Begin(t, batch, FALSE), T.dev)
    BY <1>1, FreshFacts
  <2>3. Begin(t, batch, FALSE).pc \notin Saves
    BY DEF Begin, Idle, Saves
  <2> QED
    BY <1>2, <2>1, <2>2, <2>3
<1>3. CASE t # "replay"
  BY <1>3 DEF Started, Idle
<1> QED
  BY <1>2, <1>3

LEMMA CrashRemembers ==
    ASSUME OrphanInv, OwnersInv, TombInv, Crash
    PROVE  OrphanInv'
<1> DEFINE r == NewCatalogResolver(catalog)
           T == Load(saved, r)
<1>1. r \in Resolvers /\ saved \in Files /\ "replay" \in Threads
  BY NewCatalogResolverType DEF OwnersInv, Threads
<1>2. /\ Becomes(T) /\ th' = Started(T) /\ queue' = <<>> /\ UNCHANGED cfg
      /\ \/ saved' = T.dev /\ lag' = (IF lag = "none" THEN "none" ELSE "lost")
         \/ saved' = saved /\ lag' = (IF lag = "none" THEN "behind" ELSE "lost")
  BY DEF Crash, broker
<1> HIDE DEF r
<1>3. T \in Stores /\ Clean(T) /\ Kept(saved) \subseteq Known(T)
  BY <1>1, LoadFacts DEF TombInv
<1> HIDE DEF T
<1>4. dev' = T.dev /\ Kept(saved) \subseteq Kept(T.dev)
  BY <1>2, <1>3, FileOfStore DEF Becomes
<1>5. Remembered'
  BY <1>2, <1>4 DEF OrphanInv, Remembered
<1>6. /\ Fresh(th'["replay"], dev') /\ th'["replay"].pc \notin Saves
      /\ \A u \in Threads \ {"replay"} : th'[u].pc = "idle" /\ th'[u].todo = <<>>
  BY <1>1, <1>2, <1>3, <1>4, StartFits
<1>7. Carries("replay")'
  BY <1>6 DEF Carries, Fresh, Past, Sending
<1>8. Filed'
  BY <1>2, <1>4 DEF Filed, Kept
<1>9. Works("replay")'
  BY <1>2, <1>6, <1>7, <1>8 DEF Works, Rests
<1> QED
  BY <1>1, <1>5, <1>9 DEF OrphanInv

LEMMA OrphanStep ==
    ASSUME OrphanInv, GatesInv, OwnersInv, TombInv, Serial, Valued \subseteq {TRUE}, [Next]_vars
    PROVE  OrphanInv'
<1>1. /\ {"queue", "replay", "admin"} \subseteq Threads /\ Messages \subseteq Threads
      /\ Remembered
  BY DEF Threads, OrphanInv
<1>2. ASSUME UNCHANGED <<dev, saved, lag, cfg>> PROVE Remembered'
  BY <1>1, <1>2 DEF Remembered
<1>3. ASSUME NEW t \in Messages, Receive(t) PROVE OrphanInv'
  <2>1. CASE \E c \in Cmds, valued \in Valued : Event(t, c, valued)
    BY <2>1, EventRemembers
  <2>2. CASE \E e \in Eqs : \E cs \in SUBSET {c \in Cmds : EqOf[c] = e}, as \in SUBSET {a \in Acts : EqOf[a] = e} :
                Discovery(t, e, cs, as)
    <3>1. PICK e \in Eqs, cs \in SUBSET Cmds, as \in SUBSET Acts : Discovery(t, e, cs, as)
      BY <2>2
    <3> QED
      BY <3>1, DiscoveryRemembers
  <2> QED
    BY <1>3, <2>1, <2>2 DEF Receive
<1>4. ASSUME NEW r \in Catalogs, SaveCatalog(r) PROVE OrphanInv'
  <2> DEFINE x == [th["admin"] EXCEPT !.pc = "reconcile"]
  <2>1. MayBegin("admin") /\ th' = [th EXCEPT !["admin"] = x] /\ UNCHANGED <<dev, saved, lag, queue, cfg>>
    BY <1>4 DEF SaveCatalog, store, broker
  <2>2. /\ \A u \in Threads : Rests(u)
        /\ Filed /\ queue = <<>>
    BY <1>1, <2>1, OnlyBeginner
  <2>3. x.todo = <<>> /\ x.pc = "reconcile"
    BY <1>1, <2>2 DEF GatesInv, GatesTypes, IsThread, Rests
  <2> HIDE DEF x
  <2>4. Fresh(x, dev')
    BY <2>3 DEF Fresh, Sending
  <2>5. Works("admin")'
    BY <1>1, <2>1, <2>2, <2>4, TurnsTo DEF Filed
  <2> QED
    BY <1>1, <1>2, <2>1, <2>5 DEF OrphanInv
<1>5. CASE Enqueue
  <2>1. /\ th["admin"].pc = "persist" /\ Write /\ queue' = <<th["admin"].todo>>
        /\ th' = [th EXCEPT !["admin"] = Idle] /\ UNCHANGED <<dev, cfg>>
    BY <1>5 DEF Enqueue, store, broker
  <2>2. Works("admin")
    BY <1>1, <2>1, OnlyWorker
  <2>3. th["admin"].todo \in Seq(Fit(dev)) /\ \A u \in Threads \ {"admin"} : Rests(u)
    BY <2>2 DEF Works, Carries
  <2>4. \A u \in Threads : Rests(u)'
    <3>1. th'["admin"] = Idle /\ \A u \in Threads \ {"admin"} : th'[u] = th[u]
      BY <1>1, <2>1 DEF GatesInv, GatesTypes
    <3> QED
      BY <2>3, <3>1 DEF Rests, Idle
  <2>5. queue' \in Seq(Seq(Fit(dev')))
    BY <2>1, <2>3
  <2>6. Remembered' /\ Filed'
    BY <1>1, <2>1, WriteRemembers
  <2>7. Waiting'
    BY <2>4, <2>5, <2>6 DEF Waiting
  <2> QED
    BY <2>6, <2>7 DEF OrphanInv
<1>6. CASE TakeBatch
  <2>1. /\ MayBegin("queue") /\ queue # <<>> /\ queue' = <<>> /\ UNCHANGED <<dev, saved, lag, cfg>>
        /\ th' = [th EXCEPT !["queue"] = Begin("queue", Head(queue), FALSE)]
    BY <1>6 DEF TakeBatch, store, broker
  <2>2. /\ \A u \in Threads : Rests(u)
        /\ Filed /\ queue \in Seq(Seq(Fit(dev)))
    BY <1>1, <2>1, OnlyBeginner
  <2>3. Head(queue) \in Seq(Fit(dev))
    BY <2>1, <2>2
  <2>4. Fresh(Begin("queue", Head(queue), FALSE), dev')
    BY <2>1, <2>3, FreshFacts
  <2>5. Works("queue")'
    BY <1>1, <2>1, <2>2, <2>4, TurnsTo DEF Filed
  <2> QED
    BY <1>1, <1>2, <2>1, <2>5 DEF OrphanInv
<1>7. CASE Replay
  <2>1. /\ MayBegin("replay") /\ UNCHANGED <<dev, saved, lag, queue, cfg>>
        /\ th' = [th EXCEPT !["replay"] = Begin("replay", Devices, FALSE)]
    BY <1>7 DEF Replay, store, broker
  <2>2. /\ \A u \in Threads : Rests(u)
        /\ Filed /\ queue = <<>>
    BY <1>1, <2>1, OnlyBeginner
  <2>3. Devices \in Seq(Fit(dev))
    <3>1. Store \in Stores /\ Clean(Store) /\ Store.dev = dev
      BY DEF OwnersInv, Sound, TombInv, Store
    <3>2. SnapshotsBySlug(Store, Live(Store)) \in Seq(Fit(Store.dev))
      BY <3>1, BatchesFit
    <3> QED
      BY <3>1, <3>2 DEF Devices
  <2>4. Fresh(Begin("replay", Devices, FALSE), dev')
    BY <2>1, <2>3, FreshFacts
  <2>5. Works("replay")'
    BY <1>1, <2>1, <2>2, <2>4, TurnsTo DEF Filed
  <2> QED
    BY <1>1, <1>2, <2>1, <2>5 DEF OrphanInv
<1>8. CASE UNCHANGED vars
  <2>1. UNCHANGED <<dev, saved, lag, cfg, th, queue>>
    BY <1>8 DEF vars, store, broker
  <2> QED
    BY <2>1 DEF OrphanInv, Remembered, Works, Waiting, Rests, Carries, Filed
<1> QED
  BY <1>1, <1>3, <1>4, <1>5, <1>6, <1>7, <1>8, PublishingRemembers, ReconcileRemembers, CrashRemembers DEF Next

LEMMA OrphanInit ==
    ASSUME Init, \A f \in Caches : CleanFile(f)
    PROVE  OrphanInv
<1> DEFINE r == NewCatalogResolver(FirstCatalog)
<1>1. PICK cache \in Caches : LET T == Load(cache, r) IN dev = T.dev /\ saved = T.dev /\ th = Started(T)
  BY DEF Init
<1>2. cache \in Files /\ r \in Resolvers /\ "replay" \in Threads
  BY CachesHoldDevices, CatalogsNameSlugs, NewCatalogResolverType DEF Files, Threads
<1> HIDE DEF r
<1> DEFINE T == Load(cache, r)
<1>3. T \in Stores /\ Clean(T)
  BY <1>2, LoadFacts
<1>4. dev = T.dev /\ saved = T.dev /\ th = Started(T)
  BY <1>1
<1> HIDE DEF T
<1>5. /\ Fresh(th["replay"], dev) /\ th["replay"].pc \notin Saves
      /\ \A u \in Threads \ {"replay"} : th[u].pc = "idle" /\ th[u].todo = <<>>
  BY <1>2, <1>3, <1>4, StartFits
<1>6. Carries("replay")
  BY <1>5 DEF Carries, Fresh, Past, Sending
<1>7. Filed
  BY <1>4 DEF Filed, Kept
<1>8. queue = <<>> /\ Remembered
  BY DEF Init, Remembered
<1>9. Works("replay")
  BY <1>5, <1>6, <1>7, <1>8 DEF Works, Rests
<1> QED
  BY <1>2, <1>8, <1>9 DEF OrphanInv

\* A command nobody owns any more but Home Assistant still has is going to be
\* removed, whatever fails to be published, and wherever the bridge stops
\* (queueCommandCleanups, acknowledgePublishedCleanups): if goroutines do not
\* overlap, every event is saved, and the first cache is one of the bridge's own.
THEOREM NothingIsOrphaned ==
    ASSUME Serial, Valued \subseteq {TRUE}, \A f \in Caches : CleanFile(f)
    PROVE  Spec => []NoOrphan
<1> DEFINE Inv == OrphanInv /\ GatesInv /\ OwnersInv /\ TombInv
<1>1. Init => Inv
  BY OrphanInit, GatesInit, OwnersInit
<1>2. Inv /\ [Next]_vars => Inv'
  BY OrphanStep, GatesStep, OwnersStep
<1>3. Inv => NoOrphan
  <2> SUFFICES ASSUME Inv, lag # "lost", NEW c \in Cmds, cfg[c] # 0, Owners(Store, c) = {} PROVE WillClear(c)
    BY DEF NoOrphan
  <2>1. Store \in Stores /\ Store.dev = dev /\ c \in Kept(dev)
    BY DEF OwnersInv, Sound, Store, OrphanInv, Remembered
  <2>2. c \in Known(Store)
    BY <2>1, FileOfStore
  <2>3. PICK s \in Slugs : c \in Pend(Store, s)
    BY <2>2 DEF Known
  <2>4. s \in Live(Store) /\ c \in dev[s].pend
    BY <2>1, <2>3 DEF Pend, Live
  <2> QED
    BY <2>4 DEF WillClear
<1> QED
  BY <1>1, <1>2, <1>3, PTL DEF Spec
==============================================================================
