---------------------------- MODULE PluginProofs ----------------------------
(***************************************************************************)
(* Theorems about the plugins: how they are started (PluginStart), and     *)
(* what three of them do (Guests).                                         *)
(*                                                                         *)
(* Starting, for every directory of plugins and every set of disabled      *)
(* ones: the count that topoSort keeps of a plugin is the number of its    *)
(* requirements that are not sorted, so the order it finds puts            *)
(* requirements first, and what it cannot sort is a circle.                *)
(*                                                                         *)
(* The guests, for every history, schedule and size: what is shown and     *)
(* saved agrees with what is recorded.  Two of them loop over files and    *)
(* rows.  What such a loop has done after n rounds is proved by induction, *)
(* which comes from the well-foundedness of the naturals; that the fold    *)
(* which models the loop is a function at all is the lemma FoldsExist.     *)
(***************************************************************************)
EXTENDS PluginStart, Guests, TLAPS, FiniteSetTheorems, SequenceTheorems, WellFoundedInduction

-----------------------------------------------------------------------------
(* Starting the plugins                                                    *)

Sorted == {sorted[j] : j \in DOMAIN sorted}

SortedIDs == {p.id : p \in Sorted}

\* The places of p's list that wait for a plugin to be sorted.
Waiting(p) == {i \in DOMAIN p.requires : p.requires[i] \notin SortedIDs}

\* No two plugins share an ID, and nothing is sorted while files are read.
Shape ==
  /\ TypeOK
  /\ \A p, q \in Range(plugins) : p.id = q.id => p = q
  /\ phase = "load" => queue = {} /\ sorted = <<>> /\ inited = 0

\* What topoSort's loop keeps.
Sorting ==
  phase \in {"sort", "init", "run", "failed"} =>
    /\ ~Missing
    /\ \A p \in Active : inDegree[p] = Cardinality(Waiting(p))
    /\ \A p \in queue : inDegree[p] = 0 /\ p \notin Sorted
    /\ \A p \in Active : inDegree[p] = 0 => p \in queue \cup Sorted
    /\ \A i, j \in DOMAIN sorted : sorted[i] = sorted[j] => i = j
    /\ \A C \in SUBSET Active : Circle(C) => C \cap Sorted = {}

\* The order it finds.
Ordered ==
  \A i \in DOMAIN sorted : \A id \in Requirements(sorted[i]) :
    \E j \in 1..(i - 1) : sorted[j].id = id

IInv == Shape /\ Sorting /\ Ordered /\ RefusesOnlyTheUnsound

-----------------------------------------------------------------------------
(* Finite sets                                                             *)

LEMMA ActiveIsFinite ==
  ASSUME plugins \in Seq(PluginType)
  PROVE  IsFiniteSet(Active) /\ Active \subseteq PluginType
<1>1. /\ plugins \in Surjection(1..Len(plugins), Range(plugins))
      /\ IsFiniteSet(1..Len(plugins)) /\ Range(plugins) \subseteq PluginType
  <2>1. /\ Len(plugins) \in Nat /\ DOMAIN plugins = 1..Len(plugins)
        /\ plugins \in [1..Len(plugins) -> PluginType]
    BY LenProperties
  <2>2. IsFiniteSet(1..Len(plugins))
    BY <2>1, FS_Interval
  <2> QED BY <2>1, <2>2 DEF Surjection, Range
<1>2. IsFiniteSet(Range(plugins))
  BY <1>1, FS_Surjection
<1>3. IsFiniteSet(Active)
  BY <1>2, FS_Subset DEF Active
<1> QED BY <1>1, <1>3 DEF Active

LEMMA ListsAreFinite ==
  ASSUME NEW p \in PluginType
  PROVE  /\ p.id \in IDs /\ p.requires \in Seq(IDs)
         /\ DOMAIN p.requires = 1..Len(p.requires) /\ Len(p.requires) \in Nat
         /\ IsFiniteSet(DOMAIN p.requires) /\ Cardinality(DOMAIN p.requires) = Len(p.requires)
<1>1. p.id \in IDs /\ p.requires \in Seq(IDs)
  BY DEF PluginType
<1>2. DOMAIN p.requires = 1..Len(p.requires) /\ Len(p.requires) \in Nat
  BY <1>1, LenProperties
<1>3. IsFiniteSet(1..Len(p.requires)) /\ Cardinality(1..Len(p.requires)) = Len(p.requires)
  BY <1>2, FS_Interval
<1> QED BY <1>1, <1>2, <1>3

\* Waiting places are counted by numbers, and nobody waits when the count is zero.
LEMMA WaitingIsFinite ==
  ASSUME NEW p \in PluginType
  PROVE  /\ IsFiniteSet(Waiting(p)) /\ Cardinality(Waiting(p)) \in Nat
         /\ Cardinality(Waiting(p)) = 0 <=> Waiting(p) = {}
<1>1. IsFiniteSet(Waiting(p))
  BY ListsAreFinite, FS_Subset DEF Waiting
<1> QED BY <1>1, FS_CardinalityType, FS_EmptySet

\* As many plugins are sorted as the order is long.
LEMMA SortedCount ==
  ASSUME sorted \in Seq(Active), \A i, j \in DOMAIN sorted : sorted[i] = sorted[j] => i = j
  PROVE  Cardinality(Sorted) = Len(sorted) /\ Sorted \subseteq Active
<1>1. /\ Len(sorted) \in Nat /\ DOMAIN sorted = 1..Len(sorted)
      /\ sorted \in [1..Len(sorted) -> Active]
  BY LenProperties
<1>2. /\ sorted \in Surjection(1..Len(sorted), Sorted)
      /\ sorted \in Injection(1..Len(sorted), Sorted)
  BY <1>1 DEF Surjection, Injection, IsInjective, Sorted
<1>3. IsFiniteSet(1..Len(sorted)) /\ Cardinality(1..Len(sorted)) = Len(sorted)
  BY <1>1, FS_Interval
<1>4. Cardinality(Sorted) = Len(sorted)
  BY <1>2, <1>3, FS_Surjection
<1> QED BY <1>1, <1>4 DEF Sorted

-----------------------------------------------------------------------------
(* One turn of topoSort's loop                                             *)

\* What the turn changes: the places that name the plugin taken wait no longer.
LEMMA TakenPlaces ==
  ASSUME Shape, Sorting, NEW q \in queue, Take(q)
  PROVE  /\ q \in Active /\ q \in PluginType /\ q \notin Sorted
         /\ sorted' \in Seq(Active) /\ Sorted' = Sorted \cup {q}
         /\ Len(sorted') = Len(sorted) + 1 /\ sorted'[Len(sorted) + 1] = q
         /\ \A i \in 1..Len(sorted) : sorted'[i] = sorted[i]
         /\ SortedIDs' = SortedIDs \cup {q.id} /\ q.id \notin SortedIDs
         /\ Active' = Active
<1>1. /\ phase = "sort" /\ sorted' = Append(sorted, q) /\ queue \subseteq Active
      /\ sorted \in Seq(Active) /\ plugins \in Seq(PluginType) /\ q \notin Sorted
  BY DEF Take, Shape, TypeOK, Sorting
<1>2. Active' = Active
  BY DEF Take, Active
<1>3. q \in Active /\ q \in PluginType
  BY <1>1, ActiveIsFinite
<1>4. /\ sorted' \in Seq(Active) /\ Len(sorted') = Len(sorted) + 1
      /\ sorted'[Len(sorted) + 1] = q /\ \A i \in 1..Len(sorted) : sorted'[i] = sorted[i]
  BY <1>1, <1>3, AppendProperties
<1>5. /\ Len(sorted) \in Nat /\ DOMAIN sorted = 1..Len(sorted)
      /\ DOMAIN sorted' = 1..(Len(sorted) + 1)
  BY <1>1, <1>4, LenProperties
<1>6. Sorted' = Sorted \cup {q}
  BY <1>4, <1>5 DEF Sorted
<1>7. SortedIDs' = SortedIDs \cup {q.id}
  BY <1>6 DEF SortedIDs
<1>8. Sorted \subseteq Active
  BY <1>1, <1>5 DEF Sorted
<1>9. q.id \notin SortedIDs
  <2> SUFFICES ASSUME NEW p \in Sorted, p.id = q.id PROVE FALSE
    BY DEF SortedIDs
  <2>1. p \in Range(plugins) /\ q \in Range(plugins)
    BY <1>3, <1>8 DEF Active
  <2>2. p = q
    BY <2>1 DEF Shape
  <2> QED BY <2>2, <1>1
<1> QED BY <1>1, <1>2, <1>3, <1>4, <1>6, <1>7, <1>9

\* The count of every active plugin follows.
LEMMA CountsFollow ==
  ASSUME Shape, Sorting, NEW q \in queue, Take(q)
  PROVE  \A p \in Active : /\ inDegree'[p] = Cardinality(Waiting(p)')
                           /\ Cardinality(Waiting(p)') \in Nat
                           /\ Cardinality(Naming(p, q)) \in Nat
                           /\ inDegree[p] = inDegree'[p] + Cardinality(Naming(p, q))
                           /\ Naming(p, q) = {} <=> Cardinality(Naming(p, q)) = 0
<1> SUFFICES ASSUME NEW p \in Active
             PROVE  /\ inDegree'[p] = Cardinality(Waiting(p)')
                    /\ Cardinality(Waiting(p)') \in Nat
                    /\ Cardinality(Naming(p, q)) \in Nat
                    /\ inDegree[p] = inDegree'[p] + Cardinality(Naming(p, q))
                    /\ Naming(p, q) = {} <=> Cardinality(Naming(p, q)) = 0
  OBVIOUS
<1>1. p \in PluginType
  BY ActiveIsFinite DEF Shape, TypeOK
<1>2. IsFiniteSet(Waiting(p)) /\ Cardinality(Waiting(p)) \in Nat
  BY <1>1, WaitingIsFinite
<1>3. Naming(p, q) \subseteq Waiting(p) /\ Waiting(p)' = Waiting(p) \ Naming(p, q)
  BY TakenPlaces DEF Naming, Waiting
<1>4. Naming(p, q) = Waiting(p) \cap Naming(p, q)
  BY <1>3
<1>5. /\ IsFiniteSet(Waiting(p)') /\ IsFiniteSet(Naming(p, q))
      /\ Cardinality(Waiting(p)') = Cardinality(Waiting(p)) - Cardinality(Naming(p, q))
  BY <1>2, <1>3, <1>4, FS_Difference, FS_Subset
<1>6. /\ Cardinality(Waiting(p)') \in Nat /\ Cardinality(Naming(p, q)) \in Nat
      /\ Naming(p, q) = {} <=> Cardinality(Naming(p, q)) = 0
  BY <1>5, FS_CardinalityType, FS_EmptySet
<1>7. inDegree[p] = Cardinality(Waiting(p))
  BY DEF Sorting, Take
<1>8. inDegree'[p] = inDegree[p] - Cardinality(Naming(p, q))
  BY DEF Take, CountDown
<1> QED BY <1>2, <1>5, <1>6, <1>7, <1>8

\* A plugin that is taken waits for nothing.
LEMMA TakenIsFree ==
  ASSUME Shape, Sorting, NEW q \in queue, Take(q)
  PROVE  Requirements(q) \subseteq SortedIDs
<1>1. q \in Active /\ q \in PluginType
  BY TakenPlaces
<1>2. Cardinality(Waiting(q)) = 0
  BY <1>1 DEF Sorting, Take
<1>3. Waiting(q) = {}
  BY <1>1, <1>2, WaitingIsFinite
<1> QED BY <1>3 DEF Waiting, Requirements, Range

\* Whatever a sorted plugin requires is sorted.
LEMMA SortedAreServed ==
  ASSUME sorted \in Seq(Active), Ordered
  PROVE  \A p \in Sorted : Requirements(p) \subseteq SortedIDs
<1>1. Len(sorted) \in Nat /\ DOMAIN sorted = 1..Len(sorted)
  BY LenProperties
<1> SUFFICES ASSUME NEW i \in DOMAIN sorted, NEW id \in Requirements(sorted[i])
             PROVE  id \in SortedIDs
  BY DEF Sorted
<1>2. PICK j \in 1..(i - 1) : sorted[j].id = id
  BY DEF Ordered
<1>3. j \in DOMAIN sorted
  BY <1>1
<1> QED BY <1>2, <1>3 DEF SortedIDs, Sorted

LEMMA TakeKeepsSorting ==
  ASSUME Shape, Sorting, Ordered, NEW q \in queue, Take(q)
  PROVE  Sorting'
<1> DEFINE n == Len(sorted)
<1>1. /\ phase = "sort" /\ phase' = "sort" /\ queue' = (queue \ {q}) \cup Ready(q)
      /\ plugins' = plugins /\ disabled' = disabled
  BY DEF Take
<1>2. /\ Active' = Active /\ Sorted' = Sorted \cup {q} /\ q \in Active /\ q \notin Sorted
  BY TakenPlaces
<1>3. Missing' = Missing /\ ~Missing
  BY <1>1, <1>2 DEF Missing, ActiveIDs, Sorting
<1>4. \A p \in queue : inDegree[p] = 0 /\ p \notin Sorted /\ p \in Active
  BY <1>1 DEF Sorting, Shape, TypeOK
<1>5. \A p \in Active : inDegree[p] = 0 => p \in queue \cup Sorted
  BY <1>1 DEF Sorting
<1>6. \A p \in Active : inDegree'[p] \in Nat /\ inDegree[p] \in Nat
  BY CountsFollow
<1>7. ASSUME NEW p \in queue' PROVE inDegree'[p] = 0 /\ p \notin Sorted'
  <2>1. CASE p \in queue \ {q}
    BY <2>1, <1>2, <1>4, <1>6, CountsFollow
  <2>2. CASE p \in Ready(q)
    <3>1. p \in Active /\ Naming(p, q) # {} /\ inDegree[p] = Cardinality(Naming(p, q))
      BY <2>2 DEF Ready
    <3>2. inDegree[p] # 0 /\ inDegree'[p] = 0
      BY <3>1, <1>6, CountsFollow
    <3>3. p # q
      BY <3>2, <1>4
    <3>4. p \notin Sorted
      BY <3>1, TakenPlaces, SortedAreServed DEF Shape, TypeOK, Naming, Requirements, Range
    <3> QED BY <3>2, <3>3, <3>4, <1>2
  <2> QED BY <2>1, <2>2, <1>1
<1>8. ASSUME NEW p \in Active', inDegree'[p] = 0 PROVE p \in queue' \cup Sorted'
  <2>1. CASE Naming(p, q) = {}
    <3>1. inDegree[p] = 0
      BY <2>1, <1>2, <1>6, <1>8, CountsFollow
    <3> QED BY <3>1, <1>1, <1>2, <1>5, <1>8
  <2>2. CASE Naming(p, q) # {}
    <3>1. inDegree[p] = Cardinality(Naming(p, q))
      BY <1>2, <1>6, <1>8, CountsFollow
    <3> QED BY <2>2, <3>1, <1>1, <1>2, <1>8 DEF Ready
  <2> QED BY <2>1, <2>2
<1>9. ASSUME NEW i \in DOMAIN sorted', NEW j \in DOMAIN sorted', sorted'[i] = sorted'[j]
      PROVE  i = j
  <2>1. /\ sorted \in Seq(Active) /\ sorted' \in Seq(Active) /\ Len(sorted') = n + 1
        /\ sorted'[n + 1] = q /\ \A k \in 1..n : sorted'[k] = sorted[k]
    BY TakenPlaces DEF Shape, TypeOK
  <2>2. n \in Nat /\ DOMAIN sorted = 1..n /\ DOMAIN sorted' = 1..(n + 1)
    BY <2>1, LenProperties
  <2>3. \A k \in 1..n : sorted[k] \in Sorted
    BY <2>2 DEF Sorted
  <2>4. \A k, l \in 1..n : sorted[k] = sorted[l] => k = l
    BY <1>1, <2>2 DEF Sorting
  <2>5. (i \in 1..n \/ i = n + 1) /\ (j \in 1..n \/ j = n + 1)
    BY <2>2
  <2> QED BY <2>1, <2>3, <2>4, <2>5, <1>2, <1>9
<1>10. ASSUME NEW C \in SUBSET Active, Circle(C) PROVE C \cap Sorted' = {}
  <2>1. C \cap Sorted = {}
    BY <1>1, <1>10 DEF Sorting
  <2>2. q \notin C
    <3> SUFFICES ASSUME q \in C PROVE FALSE
      OBVIOUS
    <3>1. PICK r \in C : r.id \in Requirements(q)
      BY <1>10 DEF Circle
    <3>2. PICK p \in Sorted : p.id = r.id
      BY <3>1, TakenIsFree DEF SortedIDs
    <3>3. Sorted \subseteq Active
      BY LenProperties DEF Shape, TypeOK, Sorted
    <3>4. p = r
      BY <3>2, <3>3 DEF Shape, Active
    <3> QED BY <2>1, <3>2, <3>4
  <2> QED BY <1>2, <2>1, <2>2
<1>11. \A p \in Active' : inDegree'[p] = Cardinality(Waiting(p)')
  BY <1>2, CountsFollow
<1>12. \A C \in SUBSET Active' : Circle(C) => C \cap Sorted' = {}
  BY <1>2, <1>10
<1> QED BY <1>3, <1>7, <1>8, <1>9, <1>11, <1>12 DEF Sorting, Circle, Requirements

LEMMA TakeKeepsOrdered ==
  ASSUME Shape, Sorting, Ordered, NEW q \in queue, Take(q)
  PROVE  Ordered'
<1> DEFINE n == Len(sorted)
<1>1. /\ sorted \in Seq(Active) /\ sorted' \in Seq(Active) /\ Len(sorted') = n + 1
      /\ sorted'[n + 1] = q /\ \A k \in 1..n : sorted'[k] = sorted[k]
  BY TakenPlaces DEF Shape, TypeOK
<1>2. n \in Nat /\ DOMAIN sorted = 1..n /\ DOMAIN sorted' = 1..(n + 1)
  BY <1>1, LenProperties
<1> SUFFICES ASSUME NEW i \in 1..(n + 1), NEW id \in Requirements(sorted'[i])
             PROVE  \E j \in 1..(i - 1) : sorted'[j].id = id
  BY <1>2 DEF Ordered, Requirements
<1>3. CASE i \in 1..n
  <2>1. id \in Requirements(sorted[i])
    BY <1>1, <1>3
  <2>2. PICK j \in 1..(i - 1) : sorted[j].id = id
    BY <1>2, <1>3, <2>1 DEF Ordered
  <2>3. j \in 1..n
    BY <1>2, <1>3
  <2> QED BY <1>1, <2>2, <2>3
<1>4. CASE i = n + 1
  <2>1. id \in SortedIDs
    BY <1>1, <1>4, TakenIsFree
  <2>2. PICK j \in 1..n : sorted[j].id = id
    BY <1>2, <2>1 DEF SortedIDs, Sorted
  <2>3. j \in 1..(i - 1)
    BY <1>2, <1>4
  <2> QED BY <1>1, <2>2, <2>3
<1> QED BY <1>2, <1>3, <1>4

-----------------------------------------------------------------------------
(* The steps around the loop                                               *)

LEMMA InitInvariant == Init => IInv
<1> SUFFICES ASSUME Init PROVE IInv
  OBVIOUS
<1>1. files \in Seq(PluginType) /\ \A T : <<>> \in Seq(T)
  BY PluginStartAssumption, EmptySeq DEF Init
<1>2. DOMAIN <<>> = {}
  BY EmptySeq, LenProperties
<1>3. Shape
  BY <1>1, <1>2 DEF Init, Shape, TypeOK, Range
<1>4. Ordered
  BY <1>2 DEF Init, Ordered
<1> QED BY <1>3, <1>4 DEF Init, IInv, Sorting, RefusesOnlyTheUnsound

LEMMA LoadKeeps == IInv /\ LoadFile => IInv'
<1> SUFFICES ASSUME IInv, LoadFile PROVE IInv'
  OBVIOUS
<1>1. /\ phase = "load" /\ phase' = "load" /\ queue' = {} /\ sorted' = <<>> /\ inited' = 0
      /\ disabled' = disabled /\ open' = open /\ files \in Seq(PluginType) /\ files # <<>>
      /\ plugins \in Seq(PluginType) /\ disabled \subseteq IDs /\ open \in Seq(PluginType)
  BY DEF IInv, Shape, TypeOK, LoadFile
<1>2. Head(files) \in PluginType /\ files' \in Seq(PluginType)
  BY <1>1, HeadTailProperties DEF LoadFile
<1>3. CASE plugins' = plugins
  BY <1>1, <1>2, <1>3, EmptySeq, LenProperties
     DEF IInv, Shape, TypeOK, Sorting, Ordered, RefusesOnlyTheUnsound
<1>4. CASE /\ Head(files).id \notin {p.id : p \in Range(plugins)}
           /\ plugins' = Append(plugins, Head(files))
  <2>1. /\ plugins' \in Seq(PluginType) /\ Len(plugins') = Len(plugins) + 1
        /\ plugins'[Len(plugins) + 1] = Head(files)
        /\ \A i \in 1..Len(plugins) : plugins'[i] = plugins[i]
    BY <1>1, <1>2, <1>4, AppendProperties
  <2>2. /\ Len(plugins) \in Nat /\ DOMAIN plugins = 1..Len(plugins)
        /\ DOMAIN plugins' = 1..(Len(plugins) + 1)
    BY <1>1, <2>1, LenProperties
  <2>3. Range(plugins') = Range(plugins) \cup {Head(files)}
    BY <2>1, <2>2 DEF Range
  <2>4. \A p, q \in Range(plugins') : p.id = q.id => p = q
    BY <1>4, <2>3 DEF IInv, Shape
  <2>5. TypeOK'
    BY <1>1, <1>2, <2>1, EmptySeq, LenProperties DEF TypeOK
  <2> QED BY <1>1, <2>4, <2>5, EmptySeq, LenProperties
          DEF IInv, Shape, Sorting, Ordered, RefusesOnlyTheUnsound
<1> QED BY <1>3, <1>4 DEF LoadFile

LEMMA RefuseKeeps == IInv /\ RefuseMissing => IInv'
<1> SUFFICES ASSUME IInv, RefuseMissing PROVE IInv'
  OBVIOUS
<1>1. Active' = Active /\ ActiveIDs' = ActiveIDs /\ phase' = "refused"
  BY DEF RefuseMissing, Active, ActiveIDs
<1>2. Missing'
  BY <1>1 DEF RefuseMissing, Missing
<1>3. Shape'
  BY <1>1 DEF RefuseMissing, IInv, Shape, TypeOK
<1> QED BY <1>1, <1>2, <1>3
        DEF RefuseMissing, IInv, Sorting, Ordered, RefusesOnlyTheUnsound, Sound

LEMMA BeginSortKeeps == IInv /\ BeginSort => IInv'
<1> SUFFICES ASSUME IInv, BeginSort PROVE IInv'
  OBVIOUS
<1>1. /\ phase = "load" /\ phase' = "sort" /\ ~Missing /\ sorted = <<>> /\ sorted' = sorted
      /\ inDegree' = [p \in Active |-> Len(p.requires)]
      /\ queue' = {p \in Active : Len(p.requires) = 0}
      /\ plugins' = plugins /\ disabled' = disabled /\ inited' = inited
  BY DEF IInv, Shape, BeginSort, SortFrom
<1>2. Active' = Active /\ ActiveIDs' = ActiveIDs /\ Missing' = Missing
  BY <1>1 DEF Active, ActiveIDs, Missing
<1>3. Sorted = {} /\ Sorted' = {} /\ SortedIDs' = {} /\ DOMAIN sorted' = {}
  BY <1>1, EmptySeq, LenProperties DEF Sorted, SortedIDs
<1>4. \A p \in Active : /\ p \in PluginType /\ Waiting(p)' = DOMAIN p.requires
                        /\ Len(p.requires) \in Nat
                        /\ inDegree'[p] = Cardinality(Waiting(p)')
  BY <1>1, <1>3, ActiveIsFinite, ListsAreFinite DEF IInv, Shape, TypeOK, Waiting
<1>5. inDegree' \in [Active -> Nat]
  BY <1>1, <1>4
<1>6. Shape'
  BY <1>1, <1>2, <1>5 DEF IInv, Shape, TypeOK, BeginSort, SortFrom
<1>7. Sorting'
  BY <1>1, <1>2, <1>3, <1>4 DEF Sorting
<1>8. Ordered'
  BY <1>3 DEF Ordered
<1> QED BY <1>1, <1>6, <1>7, <1>8 DEF IInv, RefusesOnlyTheUnsound

LEMMA TakeKeeps ==
  ASSUME IInv, NEW q \in queue, Take(q)
  PROVE  IInv'
<1>1. Shape /\ Sorting /\ Ordered
  BY DEF IInv
<1>2. Sorting' /\ Ordered'
  BY <1>1, TakeKeepsSorting, TakeKeepsOrdered
<1>3. /\ phase = "sort" /\ phase' = "sort" /\ queue' = (queue \ {q}) \cup Ready(q)
      /\ inDegree' = CountDown(q) /\ plugins' = plugins /\ inited' = inited
      /\ disabled' = disabled /\ files' = files /\ open' = open
  BY DEF Take
<1>4. Active' = Active /\ sorted' \in Seq(Active) /\ Len(sorted') = Len(sorted) + 1
  BY <1>1, TakenPlaces
<1>5. inDegree' \in [Active -> Nat]
  BY <1>1, <1>3, CountsFollow DEF CountDown
<1>6. inited' \in 0..Len(sorted')
  BY <1>1, <1>3, <1>4, LenProperties DEF Shape, TypeOK
<1>7. queue' \subseteq Active
  BY <1>1, <1>3 DEF Shape, TypeOK, Ready
<1>8. Shape'
  BY <1>1, <1>3, <1>4, <1>5, <1>6, <1>7 DEF Shape, TypeOK
<1> QED BY <1>2, <1>3, <1>8 DEF IInv, RefusesOnlyTheUnsound

\* What could not be sorted is a circle; what could be sorted holds none.
LEMMA EndSortKeeps == IInv /\ EndSort => IInv'
<1> SUFFICES ASSUME IInv, EndSort PROVE IInv'
  OBVIOUS
<1> DEFINE Rest == Active \ Sorted
<1>1. /\ phase = "sort" /\ queue = {} /\ plugins' = plugins /\ disabled' = disabled
      /\ sorted' = sorted /\ inDegree' = inDegree /\ queue' = queue /\ inited' = inited
      /\ files' = files /\ open' = open
      /\ phase' = IF Len(sorted) = Cardinality(Active) THEN "init" ELSE "refused"
  BY DEF EndSort
<1>2. /\ Active' = Active /\ Sorted' = Sorted /\ ActiveIDs' = ActiveIDs /\ Missing' = Missing
      /\ SortedIDs' = SortedIDs
  BY <1>1 DEF Active, ActiveIDs, Missing, Sorted, SortedIDs
<1>3. Shape'
  BY <1>1, <1>2 DEF IInv, Shape, TypeOK
<1>4. Ordered'
  BY <1>1 DEF IInv, Ordered
<1>5. ~Missing /\ Cardinality(Sorted) = Len(sorted) /\ Sorted \subseteq Active
  BY <1>1, SortedCount DEF IInv, Shape, TypeOK, Sorting
<1>6. IsFiniteSet(Active)
  BY ActiveIsFinite DEF IInv, Shape, TypeOK
<1>7. CASE Len(sorted) = Cardinality(Active)
  <2>1. Sorted = Active
    BY <1>5, <1>6, <1>7, FS_Subset
  <2>2. \A C \in SUBSET Active : ~Circle(C)
    BY <1>1, <2>1 DEF IInv, Sorting, Circle
  <2>3. Sound'
    BY <1>2, <1>5, <2>2 DEF Sound, Circle
  <2>4. RefusesOnlyTheUnsound'
    BY <1>1, <1>2, <1>7, <2>1, <2>3 DEF RefusesOnlyTheUnsound, Sorted
  <2>5. Sorting'
    BY <1>1, <1>2, <1>7 DEF IInv, Sorting, Waiting, Circle
  <2> QED BY <1>3, <1>4, <2>4, <2>5 DEF IInv
<1>8. CASE Len(sorted) # Cardinality(Active)
  <2>1. Rest # {}
    <3>1. Rest = {} => Sorted = Active
      BY <1>5
    <3> QED BY <3>1, <1>5, <1>8
  <2>2. ASSUME NEW p \in Rest PROVE \E q \in Rest : q.id \in Requirements(p)
    <3>1. p \in PluginType
      BY ActiveIsFinite DEF IInv, Shape, TypeOK
    <3>2. Cardinality(Waiting(p)) # 0
      BY <1>1 DEF IInv, Sorting
    <3>3. PICK i \in DOMAIN p.requires : p.requires[i] \notin SortedIDs
      BY <3>1, <3>2, WaitingIsFinite DEF Waiting
    <3>4. PICK q \in Active : q.id = p.requires[i]
      BY <1>5, <3>3 DEF Missing, Requirements, Range, ActiveIDs
    <3> QED BY <3>3, <3>4 DEF SortedIDs, Requirements, Range
  <2>3. Circle(Rest)
    BY <2>1, <2>2 DEF Circle
  <2>4. ~Sound'
    BY <1>2, <2>3 DEF Sound, Circle
  <2> QED BY <1>1, <1>3, <1>4, <1>8, <2>4 DEF IInv, Sorting, RefusesOnlyTheUnsound
<1> QED BY <1>7, <1>8

\* From the end of the sort on nothing changes but how far it has come.
LEMMA LaterKeeps == IInv /\ (InitPlugin \/ Run \/ ShutdownPlugin) => IInv'
<1> SUFFICES ASSUME IInv, InitPlugin \/ Run \/ ShutdownPlugin PROVE IInv'
  OBVIOUS
<1>1. /\ files' = files /\ disabled' = disabled /\ plugins' = plugins
      /\ inDegree' = inDegree /\ queue' = queue /\ sorted' = sorted
      /\ phase \in {"init", "run"} /\ phase' \in {"init", "run", "failed"}
  BY DEF InitPlugin, Run, ShutdownPlugin
<1>2. inited' \in 0..Len(sorted)
  BY LenProperties DEF InitPlugin, Run, ShutdownPlugin, IInv, Shape, TypeOK
<1>3. open' \in Seq(PluginType)
  <2>1. CASE ShutdownPlugin
    <3>1. open \in Seq(PluginType) /\ Len(open) \in Nat /\ Len(open) # 0
      BY <2>1, LenProperties, EmptySeq DEF ShutdownPlugin, IInv, Shape, TypeOK
    <3>2. \A i \in 1..(Len(open) - 1) : open[i] \in PluginType
      BY <3>1, ElementOfSeq
    <3> QED BY <2>1, <3>1, <3>2, SubSeqProperties DEF ShutdownPlugin
  <2> QED BY <2>1 DEF InitPlugin, Run, IInv, Shape, TypeOK
<1>4. /\ Active' = Active /\ Sorted' = Sorted /\ ActiveIDs' = ActiveIDs /\ Missing' = Missing
      /\ SortedIDs' = SortedIDs
  BY <1>1 DEF Active, ActiveIDs, Missing, Sorted, SortedIDs
<1>5. Shape'
  BY <1>1, <1>2, <1>3, <1>4 DEF IInv, Shape, TypeOK
<1>6. Sorting' /\ Ordered'
  BY <1>1, <1>4 DEF IInv, Sorting, Ordered, Waiting, Circle
<1>7. RefusesOnlyTheUnsound'
  BY <1>1, <1>4 DEF IInv, RefusesOnlyTheUnsound, Sound, Circle
<1> QED BY <1>5, <1>6, <1>7 DEF IInv

LEMMA StepInvariant == IInv /\ [Next]_vars => IInv'
<1> SUFFICES ASSUME IInv, [Next]_vars PROVE IInv'
  OBVIOUS
<1>1. CASE UNCHANGED vars
  <2>1. /\ files' = files /\ disabled' = disabled /\ plugins' = plugins /\ inDegree' = inDegree
        /\ queue' = queue /\ sorted' = sorted /\ inited' = inited /\ open' = open /\ phase' = phase
    BY <1>1 DEF vars
  <2>2. /\ Active' = Active /\ Sorted' = Sorted /\ ActiveIDs' = ActiveIDs /\ Missing' = Missing
        /\ SortedIDs' = SortedIDs
    BY <2>1 DEF Active, ActiveIDs, Missing, Sorted, SortedIDs
  <2>3. Shape'
    BY <2>1, <2>2 DEF IInv, Shape, TypeOK
  <2>4. Sorting' /\ Ordered'
    BY <2>1, <2>2 DEF IInv, Sorting, Ordered, Waiting, Circle
  <2>5. RefusesOnlyTheUnsound'
    BY <2>1, <2>2 DEF IInv, RefusesOnlyTheUnsound, Sound, Circle
  <2> QED BY <2>3, <2>4, <2>5 DEF IInv
<1> QED BY <1>1, LoadKeeps, RefuseKeeps, BeginSortKeeps, TakeKeeps, EndSortKeeps, LaterKeeps
        DEF Next

LEMMA Invariant == Spec => []IInv
BY InitInvariant, StepInvariant, PTL DEF Spec

-----------------------------------------------------------------------------
(* Theorems                                                                *)

\* The variables keep their types; in particular no plugin's count of missing requirements
\* falls below zero, though lists may name an ID twice.
THEOREM TypeCorrect == Spec => []TypeOK
<1>1. IInv => TypeOK
  BY DEF IInv, Shape
<1> QED BY <1>1, Invariant, PTL

\* InitPlugins initialises every plugin after those it requires.
THEOREM RequirementsComeFirst == Spec => []RequiredFirst
<1>1. IInv => RequiredFirst
  <2> SUFFICES ASSUME IInv PROVE RequiredFirst
    OBVIOUS
  <2>1. \A i \in 1..inited : i \in DOMAIN sorted
    BY LenProperties DEF IInv, Shape, TypeOK
  <2> QED BY <2>1 DEF IInv, Ordered, RequiredFirst
<1> QED BY <1>1, Invariant, PTL

\* topoSort finds an order of all active plugins exactly when there is one.
THEOREM SortIsComplete == Spec => []RefusesOnlyTheUnsound
<1>1. IInv => RefusesOnlyTheUnsound
  BY DEF IInv
<1> QED BY <1>1, Invariant, PTL

-----------------------------------------------------------------------------
(* Induction                                                               *)

\* A set of naturals that is not empty has a least member.
LEMMA LeastNatural ==
  ASSUME NEW T \in SUBSET Nat, T # {}
  PROVE  \E n \in T : \A k \in T : n <= k
<1> DEFINE R == {ss \in Nat \X Nat : ss[1] < ss[2]}
<1>1. IsWellFoundedOn(R, Nat)
  BY NatLessThanWellFounded DEF OpToRel
<1>2. PICK n \in T : \A k \in T : ~(<<k, n>> \in R)
  <2> HIDE DEF R
  <2> QED BY <1>1, WFMin
<1>3. ASSUME NEW k \in T PROVE n <= k
  <2>1. <<k, n>> \in Nat \X Nat /\ <<k, n>>[1] = k /\ <<k, n>>[2] = n
    OBVIOUS
  <2>2. ~(k < n)
    BY <1>2, <2>1
  <2> QED BY <2>2
<1> QED BY <1>3

\* Mathematical induction, for a set of naturals.
LEMMA Induction ==
  ASSUME NEW T, 0 \in T, \A n \in Nat : n \in T => n + 1 \in T
  PROVE  Nat \subseteq T
<1> SUFFICES ASSUME Nat \ T # {} PROVE FALSE
  OBVIOUS
<1>1. PICK n \in Nat \ T : \A k \in Nat \ T : n <= k
  BY LeastNatural
<1>2. n - 1 \in Nat /\ n - 1 \in T /\ (n - 1) + 1 = n
  BY <1>1
<1> QED BY <1>1, <1>2

LEMMA GreatestOf ==
  ASSUME NEW n \in Nat, NEW T \in SUBSET (1..n), T # {}
  PROVE  \E x \in T : \A y \in T : x >= y
<1> DEFINE Above == {n - x : x \in T}
<1>1. PICK m \in Above : \A k \in Above : m <= k
  <2>1. Above \in SUBSET Nat /\ Above # {}
    <3>1. \A x \in T : x \in Int /\ x <= n /\ n - x \in Nat
      OBVIOUS
    <3> QED BY <3>1
  <2> HIDE DEF Above
  <2> QED BY <2>1, LeastNatural
<1>2. PICK x \in T : m = n - x
  BY <1>1
<1>3. ASSUME NEW y \in T PROVE x >= y
  <2>1. n - x <= n - y
    BY <1>1, <1>2
  <2> QED BY <2>1
<1> QED BY <1>3

\* A fold over the members of a finite set: pick says which member of a set
\* comes last, step what it adds to the result for the others.
Foldable(I, V, base, pick, step) ==
  /\ IsFiniteSet(I) /\ base \in V /\ step \in [I \X V -> V]
  /\ \A T \in SUBSET I : T # {} => pick[T] \in T

IsFold(g, I, base, pick, step) ==
  \A T \in SUBSET I :
    g[T] = IF T = {} THEN base ELSE step[<<pick[T], g[T \ {pick[T]}]>>]

LEMMA FoldsExist ==
  ASSUME NEW I, NEW V, NEW base, NEW pick, NEW step, Foldable(I, V, base, pick, step)
  PROVE  \E g \in [SUBSET I -> V] : IsFold(g, I, base, pick, step)
<1> USE DEF Foldable, IsFold
<1> DEFINE Small(n) == {T \in SUBSET I : Cardinality(T) <= n}
           Folds(n, g) == \A T \in Small(n) :
             g[T] = IF T = {} THEN base ELSE step[<<pick[T], g[T \ {pick[T]}]>>]
           Reached == {n \in Nat : \E g \in [Small(n) -> V] : Folds(n, g)}
<1>0. \A T \in SUBSET I : IsFiniteSet(T) /\ Cardinality(T) \in Nat
  BY FS_Subset, FS_CardinalityType
<1>1. 0 \in Reached
  <2> DEFINE g == [T \in Small(0) |-> base]
  <2>1. \A T \in Small(0) : T = {}
    BY <1>0, FS_EmptySet
  <2>2. g \in [Small(0) -> V] /\ Folds(0, g)
    BY <2>1
  <2> QED BY <2>2
<1>2. ASSUME NEW n \in Nat, n \in Reached PROVE n + 1 \in Reached
  <2>1. PICK g \in [Small(n) -> V] : Folds(n, g)
    BY <1>2
  <2> DEFINE h == [T \in Small(n + 1) |->
                     IF T = {} THEN base ELSE step[<<pick[T], g[T \ {pick[T]}]>>]]
  <2>2. \A T \in Small(n + 1) : T # {} => pick[T] \in I /\ T \ {pick[T]} \in Small(n)
    <3> SUFFICES ASSUME NEW T \in Small(n + 1), T # {}
                 PROVE  pick[T] \in I /\ T \ {pick[T]} \in Small(n)
      OBVIOUS
    <3>1. Cardinality(T \ {pick[T]}) = Cardinality(T) - 1
      BY <1>0, FS_RemoveElement
    <3> QED BY <3>1, <1>0
  <2>3. Small(n) \subseteq Small(n + 1)
    BY <1>0
  <2>4. \A T \in Small(n) : h[T] = g[T]
    BY <2>1, <2>3
  <2>5. h \in [Small(n + 1) -> V]
    BY <2>2
  <2>6. Folds(n + 1, h)
    BY <2>2, <2>4
  <2>7. n + 1 \in Nat /\ \E f \in [Small(n + 1) -> V] : Folds(n + 1, f)
    <3> HIDE DEF h, Folds, Small
    <3> QED BY <2>5, <2>6
  <2> QED BY <2>7
<1>3. Cardinality(I) \in Reached
  <2>1. Nat \subseteq Reached
    <3> HIDE DEF Reached
    <3> QED BY <1>1, <1>2, Induction
  <2> QED BY <2>1, <1>0
<1>4. Small(Cardinality(I)) = SUBSET I
  BY <1>0, FS_Subset
<1> QED BY <1>3, <1>4

-----------------------------------------------------------------------------
(* Ballchasing: replays and their matches                                  *)

\* The loop body of matchReplayFiles.
Taken(taken, r, listed) ==
  LET best == B!Best({m \in listed \ DOMAIN taken : B!Fits(r, m)}) IN
  [m \in DOMAIN taken \cup best |-> IF m \in best THEN r ELSE taken[m]]

NoneTaken == [m \in {} |-> 0]

\* t: what is taken after each of the n rounds of matchReplayFiles.
Rounds(t, n, s, listed) ==
  /\ t[0] = NoneTaken
  /\ \A i \in 1..n : t[i] = Taken(t[i - 1], s[i], listed)
  /\ B!MatchReplayFiles(s, listed) = t[n]

\* matchReplayFiles goes through the files one after the other.
LEMMA MatchingUnfolds ==
  ASSUME NEW n \in Nat, NEW s \in [1..n -> Replays], NEW listed
  PROVE  \E t : Rounds(t, n, s, listed)
<1> DEFINE V == UNION {[M -> Replays] : M \in SUBSET listed}
           I == 1..n
           pick == [T \in SUBSET I |-> B!Max(T)]
           step == [x \in I \X V |-> Taken(x[2], s[x[1]], listed)]
           Folds(g) == g = [T \in SUBSET I |->
             IF T = {} THEN NoneTaken
             ELSE LET x == B!Max(T) IN Taken(g[T \ {x}], s[x], listed)]
<1>1. IsFiniteSet(I) /\ NoneTaken \in V /\ DOMAIN s = I
  <2>1. NoneTaken \in [{} -> Replays] /\ {} \in SUBSET listed
    BY DEF NoneTaken
  <2>2. IsFiniteSet(1..n)
    BY FS_Interval
  <2> QED BY <2>1, <2>2
<1>2. \A T \in SUBSET I : T # {} => B!Max(T) \in T /\ \A y \in T : B!Max(T) >= y
  BY GreatestOf DEF B!Max
<1>3. step \in [I \X V -> V]
  <2> SUFFICES ASSUME NEW i \in I, NEW taken \in V
               PROVE  Taken(taken, s[i], listed) \in V
    OBVIOUS
  <2>1. PICK M \in SUBSET listed : taken \in [M -> Replays]
    OBVIOUS
  <2> DEFINE best == B!Best({m \in listed \ DOMAIN taken : B!Fits(s[i], m)})
  <2>2. best \subseteq listed
    BY DEF B!Best
  <2>3. Taken(taken, s[i], listed) \in [M \cup best -> Replays]
    BY <2>1 DEF Taken
  <2> QED BY <2>2, <2>3
<1>4. PICK g \in [SUBSET I -> V] : IsFold(g, I, NoneTaken, pick, step)
  <2>1. Foldable(I, V, NoneTaken, pick, step)
    <3>1. \A T \in SUBSET I : T # {} => pick[T] \in T
      BY <1>2
    <3> HIDE DEF pick, step, V, I
    <3> QED BY <1>1, <1>3, <3>1 DEF Foldable
  <2> HIDE DEF pick, step, V, I
  <2> QED BY <2>1, FoldsExist
<1>5. Folds(g)
  <2>1. ASSUME NEW T \in SUBSET I, T # {}
        PROVE  g[T] = Taken(g[T \ {B!Max(T)}], s[B!Max(T)], listed)
    <3>1. pick[T] = B!Max(T) /\ B!Max(T) \in I /\ g[T \ {B!Max(T)}] \in V
      BY <1>2, <2>1
    <3>2. <<B!Max(T), g[T \ {B!Max(T)}]>> \in I \X V
      BY <3>1
    <3>3. step[<<B!Max(T), g[T \ {B!Max(T)}]>>] = Taken(g[T \ {B!Max(T)}], s[B!Max(T)], listed)
      BY <3>2
    <3> QED BY <1>4, <2>1, <3>1, <3>3 DEF IsFold
  <2>2. g[{}] = NoneTaken
    BY <1>4 DEF IsFold
  <2>3. g = [T \in SUBSET I |-> g[T]]
    OBVIOUS
  <2> HIDE DEF I, V
  <2> QED BY <2>1, <2>2, <2>3
<1> DEFINE h == CHOOSE f : Folds(f)
<1>6. Folds(h)
  <2> HIDE DEF Folds
  <2> QED BY <1>5
<1>7. B!MatchReplayFiles(s, listed) = h[I]
  BY <1>1 DEF B!MatchReplayFiles, B!FoldLeft, B!MapThenFoldSet, Taken, NoneTaken
<1> DEFINE t == [i \in 0..n |-> h[1..i]]
<1> HIDE DEF h
<1>8. t[0] = NoneTaken
  <2>1. 1..0 = {} /\ {} \in SUBSET I
    OBVIOUS
  <2> QED BY <1>6, <2>1
<1>9. ASSUME NEW i \in 1..n PROVE t[i] = Taken(t[i - 1], s[i], listed)
  <2>1. 1..i \in SUBSET I /\ 1..i # {} /\ i - 1 \in 0..n /\ (1..i) \ {i} = 1..(i - 1)
    OBVIOUS
  <2>2. B!Max(1..i) = i
    <3> DEFINE K == 1..i
    <3>1. i \in K /\ K \in SUBSET I /\ K \subseteq Int
      OBVIOUS
    <3>2. B!Max(K) \in K /\ B!Max(K) >= i
      <4> HIDE DEF K, I
      <4> QED BY <1>2, <3>1
    <3> QED BY <3>2
  <2>3. h[1..i] = Taken(h[(1..i) \ {i}], s[i], listed)
    BY <1>6, <2>1, <2>2
  <2>4. t[i] = h[1..i] /\ t[i - 1] = h[1..(i - 1)]
    BY <2>1
  <2> QED BY <2>1, <2>3, <2>4
<1>10. t[n] = h[I]
  OBVIOUS
<1> HIDE DEF t
<1> QED BY <1>7, <1>8, <1>9, <1>10 DEF Rounds

BcConstants == PlayTime \in Nat \ {0} /\ PerSecond \in Nat \ {0} /\ Window \in Nat

\* A timely file takes its own match, if that is free: the later ones that it
\* fits began after the second it was written in.
LEMMA BestIsOwn ==
  ASSUME B!TypeOK, NEW r \in B!SessionFiles, B!Timely(r), BcConstants,
         NEW free \in SUBSET matches, of[r] \in free
  PROVE  B!Best({m \in free : B!Fits(r, m)}) = {of[r]}
<1> DEFINE fitting == {m \in free : B!Fits(r, m)}
<1>1. r \in DOMAIN replayFiles /\ replayFiles[r] \in Nat /\ matches \subseteq Nat
  BY DEF B!TypeOK, B!SessionFiles
<1>2. of[r] \in fitting
  BY DEF B!Timely
<1>3. \A m \in matches : B!StartedAt(m) \in Int
  BY <1>1 DEF BcConstants, B!StartedAt
<1>4. ASSUME NEW m \in fitting PROVE m <= of[r]
  <2>1. m \in matches /\ m \in Nat /\ of[r] \in Nat /\ B!StartedAt(m) \in Int
    BY <1>1, <1>2, <1>3
  <2>2. m > of[r] => replayFiles[r] <= B!StartedAt(m)
    BY <2>1 DEF B!Timely
  <2>3. B!StartedAt(m) < replayFiles[r]
    BY DEF B!Fits
  <2> QED BY <1>1, <2>1, <2>2, <2>3
<1>5. of[r] \in Nat /\ fitting \subseteq Nat
  BY <1>1, <1>2
<1> HIDE DEF fitting
<1>6. \A m \in fitting : (\A k \in fitting : m >= k) <=> m = of[r]
  BY <1>2, <1>4, <1>5
<1>7. B!Best(fitting) = {of[r]}
  BY <1>2, <1>6 DEF B!Best
<1> QED BY <1>7 DEF fitting

\* Cardinality is the same operator in an instance.
LEMMA SameCardinality == \A T : B!Cardinality(T) = Cardinality(T)
BY DEF B!Cardinality, Cardinality

\* A sequence that has every file of a finite set once.
LEMMA OrderHasAll ==
  ASSUME NEW F, IsFiniteSet(F), NEW s \in B!InOrder(F)
  PROVE  /\ Cardinality(F) \in Nat /\ s \in [1..Cardinality(F) -> F]
         /\ \A i, j \in 1..Cardinality(F) : s[i] = s[j] => i = j
         /\ \A r \in F : \E i \in 1..Cardinality(F) : s[i] = r
<1> DEFINE n == Cardinality(F)
<1>1. n \in Nat
  BY FS_CardinalityType
<1>2. s \in [1..n -> F] /\ \A i, j \in 1..n : s[i] = s[j] => i = j
  BY SameCardinality DEF B!InOrder, B!SetToSeqs
<1>3. IsFiniteSet(1..n) /\ Cardinality(1..n) = n
  BY <1>1, FS_Interval
<1>4. s \in Injection(1..n, F)
  BY <1>2 DEF Injection, IsInjective
<1>5. s \in Surjection(1..n, F)
  BY <1>3, <1>4, FS_Injection
<1> QED BY <1>1, <1>2, <1>5 DEF Surjection

\* The file r has round k.  No file before it fits its match, since all that
\* are not written after r were written before the match began; so the match
\* is free in round k, r takes it, and it stays taken.
LEMMA MatchingIsRight ==
  ASSUME B!TypeOK, IsFiniteSet(DOMAIN of), BcConstants
  PROVE  ReplaysMeetTheirMatch
<1> DEFINE F == B!SessionFiles
<1> SUFFICES ASSUME NEW s \in B!InOrder(F), NEW listed \in SUBSET matches,
                    NEW r \in F, B!Timely(r), B!First(r), of[r] \in listed
             PROVE  LET shown == B!MatchReplayFiles(s, listed) IN
                    of[r] \in DOMAIN shown /\ shown[of[r]] = r
  BY DEF ReplaysMeetTheirMatch, B!ReplaysMeetTheirMatch
<1>1. F \subseteq DOMAIN replayFiles /\ F \subseteq Replays /\ F \subseteq DOMAIN of
      /\ of[r] \in matches /\ matches \subseteq Nat
      /\ \A x \in F : replayFiles[x] \in Nat
  BY DEF B!TypeOK, B!SessionFiles
<1>2. IsFiniteSet(F)
  BY <1>1, FS_Subset
<1>3. B!StartedAt(of[r]) \in Int
  <2> DEFINE m == of[r]
  <2>1. m \in Nat /\ PerSecond \in Nat \ {0}
    BY <1>1 DEF BcConstants
  <2> HIDE DEF m
  <2>2. B!StartedAt(m) \in Int
    BY <2>1 DEF B!StartedAt
  <2> QED BY <2>2 DEF m
<1>4. \A x \in F \ {r} : replayFiles[x] <= replayFiles[r] => ~B!Fits(x, of[r])
  <2> SUFFICES ASSUME NEW x \in F \ {r}, replayFiles[x] <= replayFiles[r]
               PROVE  ~B!Fits(x, of[r])
    OBVIOUS
  <2>1. replayFiles[x] <= B!StartedAt(of[r]) \/ replayFiles[r] < replayFiles[x]
    BY DEF B!First
  <2> QED BY <1>1, <1>3, <2>1 DEF B!Fits
<1> DEFINE n == Cardinality(F)
<1>5. /\ DOMAIN s = 1..Len(s)
      /\ \A i, j \in DOMAIN s : i < j => replayFiles[s[i]] <= replayFiles[s[j]]
  BY DEF B!InOrder, B!SetToSeqs
<1> HIDE DEF F
<1>6. /\ n \in Nat /\ s \in [1..n -> F]
      /\ \A i, j \in 1..n : s[i] = s[j] => i = j
      /\ \A x \in F : \E i \in 1..n : s[i] = x
  BY <1>2, OrderHasAll
<1> HIDE DEF n
<1>7. s \in [1..n -> Replays]
  BY <1>1, <1>6
<1>8. PICK t : Rounds(t, n, s, listed)
  BY <1>6, <1>7, MatchingUnfolds
<1>9. PICK k \in 1..n : s[k] = r
  BY <1>6
<1> DEFINE best == [i \in 1..n |-> B!Best({m \in listed \ DOMAIN t[i - 1] : B!Fits(s[i], m)})]
<1>10. \A i \in 1..n : /\ DOMAIN t[i] = DOMAIN t[i - 1] \cup best[i]
                       /\ \A m \in DOMAIN t[i] :
                            t[i][m] = IF m \in best[i] THEN s[i] ELSE t[i - 1][m]
  <2> SUFFICES ASSUME NEW i \in 1..n
               PROVE  /\ DOMAIN t[i] = DOMAIN t[i - 1] \cup best[i]
                      /\ \A m \in DOMAIN t[i] :
                           t[i][m] = IF m \in best[i] THEN s[i] ELSE t[i - 1][m]
    OBVIOUS
  <2>1. t[i] = [m \in DOMAIN t[i - 1] \cup best[i] |->
                  IF m \in best[i] THEN s[i] ELSE t[i - 1][m]]
    BY <1>8 DEF Rounds, Taken
  <2> HIDE DEF best
  <2> QED BY <2>1
<1>11. ASSUME NEW i \in 1..n
       PROVE  best[i] \subseteq {m \in listed \ DOMAIN t[i - 1] : B!Fits(s[i], m)}
  BY DEF B!Best
<1> HIDE DEF best
<1> DEFINE Free == {i \in Nat : i < k => of[r] \notin DOMAIN t[i]}
           Kept == {i \in Nat : k + i <= n => of[r] \in DOMAIN t[k + i] /\ t[k + i][of[r]] = r}
<1>12. of[r] \notin DOMAIN t[k - 1]
  <2>1. 0 \in Free
    BY <1>8 DEF Rounds, NoneTaken
  <2>2. ASSUME NEW i \in Nat, i \in Free PROVE i + 1 \in Free
    <3> SUFFICES ASSUME i + 1 < k PROVE of[r] \notin DOMAIN t[i + 1]
      OBVIOUS
    <3>1. i + 1 \in 1..n /\ (i + 1) - 1 = i /\ i < k /\ i + 1 < k /\ n \in Nat
      BY <1>6
    <3>2. s[i + 1] \in F \ {r} /\ replayFiles[s[i + 1]] <= replayFiles[r]
      BY <1>5, <1>6, <1>9, <3>1
    <3>3. of[r] \notin best[i + 1]
      BY <1>4, <1>11, <3>1, <3>2
    <3>4. DOMAIN t[i + 1] = DOMAIN t[i] \cup best[i + 1]
      BY <1>10, <3>1
    <3> QED BY <2>2, <3>1, <3>3, <3>4
  <2>3. Nat \subseteq Free
    <3> HIDE DEF Free
    <3> QED BY <2>1, <2>2, Induction
  <2>4. k - 1 \in Nat /\ k - 1 < k
    BY <1>6
  <2> QED BY <2>3, <2>4
<1>13. best[k] = {of[r]}
  <2> DEFINE free == listed \ DOMAIN t[k - 1]
  <2>1. free \in SUBSET matches /\ of[r] \in free
    BY <1>12
  <2>2. r \in B!SessionFiles
    BY DEF F
  <2> HIDE DEF free
  <2>3. B!Best({m \in free : B!Fits(r, m)}) = {of[r]}
    BY <2>1, <2>2, BestIsOwn
  <2> QED BY <1>9, <2>3 DEF free, best
<1>14. n - k \in Kept
  <2>1. 0 \in Kept
    <3>1. k + 0 = k
      BY <1>6
    <3>2. of[r] \in DOMAIN t[k] /\ t[k][of[r]] = r
      BY <1>9, <1>10, <1>13
    <3> QED BY <3>1, <3>2
  <2>2. ASSUME NEW i \in Nat, i \in Kept PROVE i + 1 \in Kept
    <3> SUFFICES ASSUME k + (i + 1) <= n
                 PROVE  of[r] \in DOMAIN t[k + (i + 1)] /\ t[k + (i + 1)][of[r]] = r
      OBVIOUS
    <3> DEFINE j == k + (i + 1)
    <3>1. j \in 1..n /\ j - 1 = k + i /\ k + i <= n
      BY <1>6
    <3>2. of[r] \in DOMAIN t[j - 1] /\ t[j - 1][of[r]] = r
      BY <2>2, <3>1
    <3> HIDE DEF j
    <3>3. of[r] \notin best[j]
      BY <1>11, <3>1, <3>2
    <3>4. of[r] \in DOMAIN t[j] /\ t[j][of[r]] = r
      BY <1>10, <3>1, <3>2, <3>3
    <3> QED BY <3>4 DEF j
  <2>3. Nat \subseteq Kept
    <3> HIDE DEF Kept
    <3> QED BY <2>1, <2>2, Induction
  <2>4. n - k \in Nat
    BY <1>6
  <2> HIDE DEF Kept
  <2> QED BY <2>3, <2>4
<1>15. k + (n - k) = n /\ B!MatchReplayFiles(s, listed) = t[n]
  BY <1>6, <1>8 DEF Rounds
<1> QED BY <1>14, <1>15

BcInv ==
  /\ B!TypeOK /\ IsFiniteSet(DOMAIN of)
  /\ remote \subseteq accepted /\ uploads \subseteq accepted /\ removed \subseteq accepted

LEMMA BcAssumption == BcConstants
BY GuestsAssumption DEF B!BallchasingAssumption, BcConstants

LEMMA BcInitially == B!Init => BcInv
<1> SUFFICES ASSUME B!Init PROVE BcInv
  OBVIOUS
<1>1. DOMAIN of = {} /\ DOMAIN replayFiles = {} /\ of = [x \in {} |-> 0]
      /\ replayFiles = [x \in {} |-> 0]
  BY DEF B!Init, B!NoFiles
<1>2. B!TypeOK
  <2>1. of \in [{} -> {}] /\ replayFiles \in [{} -> 1..1]
    BY <1>1
  <2>2. /\ time = 1 /\ startup = 1 /\ matches = {} /\ deleteAfterUpload = FALSE
        /\ remote \cup uploads \cup removed = {}
    BY DEF B!Init
  <2>3. of \in [DOMAIN of -> matches] /\ replayFiles \in [DOMAIN replayFiles -> 1..time]
    BY <1>1, <2>1, <2>2
  <2>4. DOMAIN of = {} /\ DOMAIN replayFiles = {}
    BY <1>1
  <2>5. time \in 1..PlayTime /\ startup \in 1..time
    BY <2>2, BcAssumption DEF BcConstants
  <2> QED BY <2>2, <2>3, <2>4, <2>5 DEF B!TypeOK
<1> QED BY <1>1, <1>2, FS_EmptySet DEF B!Init, BcInv

\* What a step of the guest's handlers changes, one case for each.
LEMMA BcStep == BcInv /\ B!Next => BcInv'
<1> SUFFICES ASSUME BcInv, B!Next PROVE BcInv'
  OBVIOUS
<1> USE BcAssumption DEF BcInv, BcConstants
<1>1. CASE B!Tick
  BY <1>1 DEF B!Tick, B!TypeOK
<1>2. CASE B!MatchBegins
  <2>1. B!TypeOK'
    <3>1. of' \in [DOMAIN of' -> matches']
      BY <1>2 DEF B!MatchBegins, B!TypeOK
    <3>2. matches' \subseteq 1..time'
      BY <1>2 DEF B!MatchBegins, B!TypeOK
    <3> QED BY <1>2, <3>1, <3>2 DEF B!MatchBegins, B!TypeOK
  <2> QED BY <1>2, <2>1 DEF B!MatchBegins
<1>3. CASE B!ChangeRemote
  BY <1>3 DEF B!ChangeRemote, B!TypeOK
<1>4. CASE B!InitPlugin
  BY <1>4 DEF B!InitPlugin, B!TypeOK
<1>5. CASE B!ApplySettings
  BY <1>5 DEF B!ApplySettings, B!TypeOK
<1>6. ASSUME NEW r \in Replays, NEW m \in matches, B!SaveReplay(r, m) PROVE BcInv'
  <2>1. /\ DOMAIN of' = DOMAIN of \cup {r} /\ DOMAIN replayFiles' = DOMAIN replayFiles \cup {r}
        /\ of'[r] = m /\ replayFiles'[r] = time
        /\ \A x \in DOMAIN of : of'[x] = of[x]
        /\ \A x \in DOMAIN replayFiles : x # r /\ replayFiles'[x] = replayFiles[x]
    BY <1>6 DEF B!SaveReplay, B!TypeOK
  <2>2. of' \in [DOMAIN of' -> matches'] /\ replayFiles' \in [DOMAIN replayFiles' -> 1..time']
    BY <1>6, <2>1 DEF B!SaveReplay, B!TypeOK
  <2>3. \A x \in DOMAIN replayFiles' : of'[x] < replayFiles'[x]
    BY <1>6, <2>1 DEF B!SaveReplay, B!TypeOK
  <2>4. B!TypeOK'
    BY <1>6, <2>1, <2>2, <2>3 DEF B!SaveReplay, B!TypeOK
  <2>5. IsFiniteSet(DOMAIN of')
    BY <2>1, FS_AddElement
  <2> QED BY <1>6, <2>4, <2>5 DEF B!SaveReplay
<1>7. ASSUME NEW r \in Replays, NEW o \in B!UploadOutcomes, B!HandleUpload(r, o) PROVE BcInv'
  <2>1. B!Done(o) => o.taken
    BY DEF B!UploadOutcomes, B!Done
  <2>2. r \in DOMAIN replayFiles /\ remote \subseteq remote' /\ remote' \subseteq remote \cup {r}
        /\ accepted' = accepted \cup remote' /\ (o.taken => r \in remote')
    BY <1>7 DEF B!HandleUpload
  <2>3. uploads' \subseteq accepted' /\ uploads' \subseteq DOMAIN of
    BY <1>7, <2>1, <2>2 DEF B!HandleUpload, B!Upserted, B!TypeOK
  <2>4. /\ DOMAIN replayFiles' \subseteq DOMAIN replayFiles
        /\ \A x \in DOMAIN replayFiles' : replayFiles'[x] = replayFiles[x]
        /\ replayFiles' \in [DOMAIN replayFiles' -> 1..time]
        /\ removed' \subseteq accepted' /\ removed' \subseteq DOMAIN of
    BY <1>7, <2>1, <2>2 DEF B!HandleUpload, B!Unlink, B!TypeOK
  <2>5. UNCHANGED <<time, matches, startup, of, deleteAfterUpload>>
    BY <1>7 DEF B!HandleUpload
  <2>6. B!TypeOK'
    BY <2>2, <2>3, <2>4, <2>5 DEF B!TypeOK
  <2> QED BY <2>2, <2>3, <2>4, <2>5, <2>6
<1>8. CASE B!HandleSync
  BY <1>8 DEF B!HandleSync, B!Upserted, B!TypeOK
<1>9. CASE B!HandlePurge
  <2>1. /\ DOMAIN replayFiles' \subseteq DOMAIN replayFiles
        /\ \A x \in DOMAIN replayFiles' : replayFiles'[x] = replayFiles[x]
        /\ replayFiles' \in [DOMAIN replayFiles' -> 1..time]
        /\ removed' \subseteq removed \cup uploads
    BY <1>9 DEF B!HandlePurge, B!Unlink, B!TypeOK
  <2>2. UNCHANGED <<time, matches, startup, of, remote, uploads, deleteAfterUpload, accepted>>
    BY <1>9 DEF B!HandlePurge
  <2> QED BY <2>1, <2>2 DEF B!TypeOK
<1> QED BY <1>1, <1>2, <1>3, <1>4, <1>5, <1>6, <1>7, <1>8, <1>9 DEF B!Next

LEMMA BcStutters == BcInv /\ UNCHANGED bcVars => BcInv'
BY DEF BcInv, bcVars, B!TypeOK

LEMMA BcAlways == GuestsSpec => []BcInv
<1>1. GuestsInit => BcInv
  BY BcInitially DEF GuestsInit
<1>2. BcInv /\ [GuestsNext]_guestVars => BcInv'
  BY BcStep, BcStutters DEF GuestsNext, SessionSteps, DejaVuSteps, BallchasingSteps, guestVars
<1> QED BY <1>1, <1>2, PTL DEF GuestsSpec

\* Uploading, syncing, purging and removing after an upload: the plugin never
\* deletes a replay that the service has not accepted once, for any replays and
\* outcomes.
THEOREM NothingIsLost == GuestsSpec => []OnlyUploadedAreRemoved
<1>1. BcInv => OnlyUploadedAreRemoved
  BY DEF BcInv, OnlyUploadedAreRemoved, B!OnlyUploadedAreRemoved
<1> QED BY <1>1, BcAlways, PTL

\* matchReplayFiles shows a replay that was written in time, and first, with
\* its own match, for any number of replays and matches, whatever the others.
THEOREM ReplaysAreMatched == GuestsSpec => []ReplaysMeetTheirMatch
<1>1. BcInv => ReplaysMeetTheirMatch
  BY BcAssumption, MatchingIsRight DEF BcInv, BcConstants
<1> QED BY <1>1, BcAlways, PTL

-----------------------------------------------------------------------------
(* Sessions                                                                *)

Positive == Nat \ {0}

SessionConstants == PerSecond \in Positive /\ {SessionTime, MaxMatches, MaxSaved} \subseteq Positive

LEMMA SessionAssumed == SessionConstants
BY GuestsAssumption DEF S!SessionAssumption, SessionConstants, Positive

\* Cutting off the fraction keeps the order, and tells whole seconds apart.
LEMMA Seconds ==
  ASSUME NEW t \in Nat
  PROVE  /\ S!Second(t) \in Nat /\ S!Second(t) * PerSecond \in Nat
         /\ S!Second(t) * PerSecond <= t /\ t < S!Second(t) * PerSecond + PerSecond
         /\ S!Second(t + 1) <= S!Second(t) + 1
BY SessionAssumed DEF S!Second, SessionConstants, Positive

LEMMA SecondsAreOrdered ==
  ASSUME NEW t \in Nat, NEW u \in Nat, t <= u
  PROVE  S!Second(t) <= S!Second(u)
BY SessionAssumed DEF S!Second, SessionConstants, Positive

LEMMA SecondsCompare ==
  ASSUME NEW a \in Nat, NEW b \in Nat
  PROVE  a * PerSecond >= b * PerSecond <=> a >= b
BY SessionAssumed DEF SessionConstants, Positive

\* The sessions saved one after the other: a session ends no later than now,
\* and no more than a second after the next one begins; every moment since the
\* first began is in one of them, or after the running one began.
Ends == \A s \in S!InChain : s.end <= S!Second(now)

Overlaps ==
  since # S!NotSet =>
    /\ \A s \in S!InChain : s.end <= S!Second(since) + 1
    /\ \A s, t \in S!InChain : s.id < t.id => s.end <= t.start + 1

Covered ==
  since # S!NotSet =>
    \A t \in Nat : chain.from <= t =>
      \/ S!Second(t) >= S!Second(since)
      \/ \E s \in S!InChain : s.start <= S!Second(t) /\ S!Second(t) < s.end

SessionInv == S!TypeOK /\ Ends /\ Overlaps /\ Covered

TellsApart ==
  \A m \in played : \A s \in saved :
    m \in S!MatchesOf(s) <=> s.start <= S!Second(m.at) /\ S!Second(m.at) < s.end

LEMMA MatchesOfSaved == S!TypeOK => TellsApart
<1> SUFFICES ASSUME S!TypeOK, NEW m \in played, NEW s \in saved
             PROVE  m \in S!MatchesOf(s) <=> s.start <= S!Second(m.at) /\ S!Second(m.at) < s.end
  BY DEF TellsApart
<1>1. m.at \in Nat /\ S!Second(m.at) \in Nat
  BY Seconds DEF S!TypeOK
<1>2. S!Second(SessionTime) \in Nat
  BY SessionAssumed, Seconds DEF SessionConstants, Positive
<1>3. s.start \in Nat /\ s.end \in Nat
  BY <1>2 DEF S!TypeOK
<1>4. s.end * PerSecond # S!NotSet /\ s.end * PerSecond \in Int
  BY <1>3, SessionAssumed DEF S!NotSet, SessionConstants, Positive
<1>5. /\ S!Second(m.at) * PerSecond >= s.start * PerSecond <=> S!Second(m.at) >= s.start
      /\ S!Second(m.at) * PerSecond >= s.end * PerSecond <=> S!Second(m.at) >= s.end
  BY <1>1, <1>3, SecondsCompare
<1>6. S!Second(m.at) * PerSecond \in Nat
  BY <1>1, Seconds
<1>7. S!Second(m.at) * PerSecond < s.end * PerSecond <=> S!Second(m.at) < s.end
  BY <1>1, <1>3, <1>4, <1>5, <1>6
<1> QED BY <1>1, <1>3, <1>4, <1>5, <1>7 DEF S!MatchesOf, S!Between, S!StartOf

LEMMA NoMatchIsMissed == SessionInv => SessionsKeepEveryMatch
<1> SUFFICES ASSUME SessionInv, since # S!NotSet, NEW m \in played
             PROVE  /\ chain.from <= m.at =>
                         \/ S!Second(m.at) >= S!Second(since)
                         \/ \E s \in S!InChain : m \in S!MatchesOf(s)
                    /\ \A s, t \in S!InChain :
                         s.id < t.id /\ m \in S!MatchesOf(s) \cap S!MatchesOf(t)
                           => S!Second(m.at) = t.start
  BY DEF SessionsKeepEveryMatch, S!SessionsKeepEveryMatch
<1>1. S!TypeOK /\ TellsApart /\ S!InChain \subseteq saved
  BY MatchesOfSaved DEF SessionInv, S!InChain
<1>2. m.at \in Nat /\ S!Second(m.at) \in Nat
  BY <1>1, Seconds DEF S!TypeOK
<1>3. chain.from <= m.at =>
        \/ S!Second(m.at) >= S!Second(since)
        \/ \E s \in S!InChain : m \in S!MatchesOf(s)
  BY <1>1, <1>2 DEF SessionInv, Covered, TellsApart
<1>4. ASSUME NEW s \in S!InChain, NEW t \in S!InChain, s.id < t.id,
             m \in S!MatchesOf(s), m \in S!MatchesOf(t)
      PROVE  S!Second(m.at) = t.start
  <2>1. s.end <= t.start + 1
    BY <1>4 DEF SessionInv, Overlaps
  <2>2. S!Second(m.at) < s.end /\ t.start <= S!Second(m.at)
    BY <1>1, <1>4 DEF TellsApart
  <2>3. s.end \in Int /\ t.start \in Int
    <3>1. S!Second(SessionTime) \in Nat
      BY SessionAssumed, Seconds DEF SessionConstants, Positive
    <3> QED BY <1>1, <3>1 DEF S!TypeOK
  <2> QED BY <1>2, <2>1, <2>2, <2>3
<1> QED BY <1>3, <1>4

LEMMA LastSecond == S!Second(SessionTime) \in Nat /\ \A t \in 0..SessionTime : S!Second(t) \in 0..S!Second(SessionTime)
<1>1. SessionTime \in Nat
  BY SessionAssumed DEF SessionConstants, Positive
<1>2. ASSUME NEW t \in 0..SessionTime PROVE S!Second(t) \in 0..S!Second(SessionTime)
  BY <1>1, Seconds, SecondsAreOrdered
<1> QED BY <1>1, <1>2, Seconds

LEMMA SessionInitially == S!Init => SessionInv
<1> SUFFICES ASSUME S!Init PROVE SessionInv
  OBVIOUS
<1>1. S!TypeOK
  <2>1. SessionTime \in Nat /\ MaxSaved \in Nat
    BY SessionAssumed DEF SessionConstants, Positive
  <2>2. now = 0 /\ since = S!NotSet /\ saved = {} /\ nextId = 0 /\ match = S!NotSet
        /\ played = {} /\ started = FALSE /\ chain = [from |-> S!NotSet, ids |-> {}]
    BY DEF S!Init, S!NewChain
  <2>3. chain \in [from : {S!NotSet} \cup 0..SessionTime, ids : SUBSET (0..nextId - 1)]
    BY <2>2
  <2>4. now \in 0..SessionTime /\ since \in {S!NotSet} \cup 0..SessionTime /\ nextId \in 0..MaxSaved
    BY <2>1, <2>2
  <2>5. match \in {S!NotSet, S!Starting} \cup 0..now /\ started \in BOOLEAN
    BY <2>2
  <2>6. played \subseteq [at : 0..now, outcome : S!Outcomes]
    BY <2>2
  <2> QED BY <2>2, <2>3, <2>4, <2>5, <2>6 DEF S!TypeOK
<1> QED BY <1>1 DEF S!Init, SessionInv, Ends, Overlaps, Covered, S!InChain

\* The steps that leave the sessions and the running one alone.
LEMMA OtherStepsKeepSessions ==
  ASSUME SessionInv, S!TypeOK', UNCHANGED <<since, saved, chain>>, now' >= now
  PROVE  SessionInv'
<1>1. S!InChain' = S!InChain /\ now \in Nat /\ now' \in Nat
  <2>1. SessionTime \in Nat
    BY SessionAssumed DEF SessionConstants, Positive
  <2> QED BY <2>1 DEF S!InChain, SessionInv, S!TypeOK
<1>2. Ends'
  <2>1. S!Second(now) <= S!Second(now') /\ S!Second(now) \in Nat /\ S!Second(now') \in Nat
    BY <1>1, Seconds, SecondsAreOrdered
  <2>2. \A s \in S!InChain : s.end \in Nat
    BY LastSecond DEF SessionInv, S!TypeOK, S!InChain
  <2>3. Ends' <=> \A s \in S!InChain' : s.end <= S!Second(now')
    BY DEF Ends, S!Second
  <2> QED BY <1>1, <2>1, <2>2, <2>3 DEF SessionInv, Ends
<1>3. Overlaps' /\ Covered'
  BY <1>1 DEF SessionInv, Overlaps, Covered, S!Second
<1> QED BY <1>2, <1>3 DEF SessionInv

\* A session that begins anew at t, with nothing saved after the other yet.
LEMMA NewChainsAreCovered ==
  ASSUME S!TypeOK', chain' = S!NewChain(since')
  PROVE  SessionInv'
<1>1. S!InChain' = {} /\ chain'.from = since'
  BY DEF S!InChain, S!NewChain
<1>2. Ends' /\ Overlaps'
  BY <1>1 DEF Ends, Overlaps
<1>3. ASSUME since' # S!NotSet, NEW t \in Nat, since' <= t
      PROVE  S!Second(t) >= S!Second(since')
  <2>1. since' \in Nat
    BY <1>3, SessionAssumed DEF S!TypeOK, S!NotSet, SessionConstants, Positive
  <2> QED BY <1>3, <2>1, Seconds, SecondsAreOrdered
<1>4. Covered'
  BY <1>1, <1>3 DEF Covered, S!Second, S!NotSet
<1> QED BY <1>2, <1>4 DEF SessionInv

LEMMA NowAndSince ==
  ASSUME S!TypeOK
  PROVE  now \in Nat /\ (since # S!NotSet => since \in Nat) /\ nextId \in Nat
         /\ SessionTime \in Nat /\ MaxSaved \in Nat
         /\ \A s \in saved : s.start \in Nat /\ s.end \in Nat /\ s.id \in 0..nextId - 1
BY SessionAssumed, LastSecond DEF S!TypeOK, S!NotSet, SessionConstants, Positive

\* "New session", when its row is stored: the running session joins the chain.
LEMMA SavingKeepsSessions ==
  ASSUME SessionInv, since # S!NotSet, NEW later \in now..now + 1, later <= SessionTime,
         now' = later, nextId < MaxSaved,
         saved' = saved \cup {S!Saves(nextId, later)}, nextId' = nextId + 1,
         chain' = [chain EXCEPT !.ids = @ \cup {nextId}], since' = now,
         UNCHANGED <<match, played, started>>
  PROVE  SessionInv'
<1> DEFINE new == S!Saves(nextId, later)
<1>1. now \in Nat /\ since \in Nat /\ nextId \in Nat /\ later \in Nat /\ SessionTime \in Nat
      /\ MaxSaved \in Nat /\ \A s \in saved : s.start \in Nat /\ s.end \in Nat /\ s.id \in 0..nextId - 1
  BY NowAndSince DEF SessionInv
<1>2. S!Second(now) \in Nat /\ S!Second(since) \in Nat /\ S!Second(later) \in Nat
      /\ S!Second(now) <= S!Second(later) /\ S!Second(later) <= S!Second(now) + 1
  <2>1. later = now \/ later = now + 1
    BY <1>1
  <2> QED BY <1>1, <2>1, Seconds, SecondsAreOrdered
<1>3. new.id = nextId /\ new.start = S!Second(since) /\ new.end = S!Second(later)
  BY DEF S!Saves, S!Row
<1>4. S!InChain' = S!InChain \cup {new} /\ chain'.from = chain.from
  <2>1. chain.ids \subseteq 0..nextId - 1 /\ chain'.ids = chain.ids \cup {nextId}
        /\ chain'.from = chain.from
    BY DEF SessionInv, S!TypeOK
  <2>2. nextId \notin chain.ids /\ \A s \in saved : s.id # nextId
    BY <1>1, <2>1
  <2> HIDE DEF new
  <2>3. saved' = saved \cup {new}
    BY DEF new
  <2>4. S!InChain' = {s \in saved' : s.id \in chain'.ids}
    BY DEF S!InChain
  <2>5. S!InChain = {s \in saved : s.id \in chain.ids}
    BY DEF S!InChain
  <2> QED BY <1>3, <2>1, <2>2, <2>3, <2>4, <2>5
<1>5. S!TypeOK'
  <2>1. since \in 0..SessionTime /\ now \in 0..SessionTime /\ later \in 0..SessionTime
    BY <1>1 DEF SessionInv, S!TypeOK
  <2>2. new \in [id : 0..nextId' - 1, start : 0..S!Second(SessionTime), end : 0..S!Second(SessionTime)]
    <3>1. /\ nextId \in 0..nextId' - 1 /\ S!Second(since) \in 0..S!Second(SessionTime)
          /\ S!Second(later) \in 0..S!Second(SessionTime)
      BY <1>1, <2>1, LastSecond
    <3> QED BY <3>1 DEF S!Saves, S!Row
  <2>3. saved' \subseteq [id : 0..nextId' - 1, start : 0..S!Second(SessionTime), end : 0..S!Second(SessionTime)]
    <3>1. 0..nextId - 1 \subseteq 0..nextId' - 1
      BY <1>1
    <3> QED BY <2>2, <3>1 DEF SessionInv, S!TypeOK
  <2>4. \A s, t \in saved' : s.id = t.id => s = t
    <3>1. \A s \in saved : s.id # nextId
      BY <1>1
    <3>2. \A s, t \in saved : s.id = t.id => s = t
      BY DEF SessionInv, S!TypeOK
    <3> QED BY <1>3, <3>1, <3>2
  <2>5. chain' \in [from : {S!NotSet} \cup 0..SessionTime, ids : SUBSET (0..nextId' - 1)]
    <3>1. chain.ids \cup {nextId} \subseteq 0..nextId' - 1
      BY <1>1 DEF SessionInv, S!TypeOK
    <3> QED BY <3>1 DEF SessionInv, S!TypeOK
  <2>6. match' \in {S!NotSet, S!Starting} \cup 0..now' /\ started' \in BOOLEAN
        /\ played' \subseteq [at : 0..now', outcome : S!Outcomes]
    <3>1. 0..now \subseteq 0..now'
      BY <1>1
    <3> QED BY <3>1 DEF SessionInv, S!TypeOK
  <2>7. now' \in 0..SessionTime /\ since' \in 0..SessionTime /\ nextId' \in 0..MaxSaved
    BY <1>1, <2>1
  <2> QED BY <2>3, <2>4, <2>5, <2>6, <2>7 DEF S!TypeOK, S!Second
<1>6. \A s \in S!InChain : s \in saved
  BY DEF S!InChain
<1> HIDE DEF new
<1>7. Ends'
  <2>1. \A s \in S!InChain : s.end <= S!Second(later)
    BY <1>1, <1>2, <1>6 DEF SessionInv, Ends
  <2> QED BY <1>2, <1>3, <1>4, <2>1 DEF Ends, S!Second
<1>8. Overlaps'
  <2>1. \A s \in S!InChain' : s.end <= S!Second(now) + 1
    BY <1>1, <1>2, <1>3, <1>4, <1>6 DEF SessionInv, Ends
  <2>2. ASSUME NEW s \in S!InChain', NEW t \in S!InChain', s.id < t.id
        PROVE  s.end <= t.start + 1
    <3>1. s \in S!InChain
      BY <1>1, <1>3, <1>4, <1>6, <2>2
    <3>2. CASE t = new
      BY <1>3, <3>1, <3>2 DEF SessionInv, Overlaps
    <3>3. CASE t \in S!InChain
      BY <2>2, <3>1, <3>3 DEF SessionInv, Overlaps
    <3> QED BY <1>4, <3>2, <3>3
  <2> QED BY <2>1, <2>2 DEF Overlaps, S!Second
<1>9. Covered'
  <2> SUFFICES ASSUME NEW t \in Nat, chain'.from <= t
               PROVE  \/ S!Second(t) >= S!Second(now)
                      \/ \E s \in S!InChain' : s.start <= S!Second(t) /\ S!Second(t) < s.end
    BY DEF Covered, S!Second
  <2>1. \/ S!Second(t) >= S!Second(since)
        \/ \E s \in S!InChain : s.start <= S!Second(t) /\ S!Second(t) < s.end
    BY <1>4 DEF SessionInv, Covered
  <2>2. S!Second(t) \in Nat
    BY Seconds
  <2>3. CASE S!Second(t) >= S!Second(since) /\ ~(S!Second(t) >= S!Second(now))
    BY <1>2, <1>3, <1>4, <2>2, <2>3
  <2> QED BY <1>4, <2>1, <2>3
<1> QED BY <1>5, <1>7, <1>8, <1>9 DEF SessionInv

\* A step of the session plugin or of the host that feeds it.
LEMMA SessionStep == SessionInv /\ S!Next => SessionInv'
<1> SUFFICES ASSUME SessionInv, S!Next PROVE SessionInv'
  OBVIOUS
<1>0. S!TypeOK /\ now \in Nat /\ (since # S!NotSet => since \in Nat) /\ nextId \in Nat
      /\ SessionTime \in Nat /\ MaxSaved \in Nat
  BY NowAndSince DEF SessionInv
<1>1. CASE S!Tick
  <2>1. now' = now + 1 /\ now' \in 0..SessionTime /\ 0..now \subseteq 0..now'
    BY <1>0, <1>1 DEF S!Tick
  <2>2. UNCHANGED <<since, saved, nextId, match, played, started, chain>>
    BY <1>1 DEF S!Tick
  <2>3. S!TypeOK'
    BY <1>0, <2>1, <2>2 DEF S!TypeOK, S!Second
  <2> QED BY <1>0, <2>1, <2>2, <2>3, OtherStepsKeepSessions
<1>2. CASE S!MatchStarts
  <2>1. S!TypeOK'
    BY <1>0, <1>2 DEF S!MatchStarts, S!TypeOK, S!Second
  <2> QED BY <1>0, <1>2, <2>1, OtherStepsKeepSessions DEF S!MatchStarts
<1>3. CASE S!RowIsMade
  <2>1. S!TypeOK'
    BY <1>0, <1>3 DEF S!RowIsMade, S!TypeOK, S!Second
  <2> QED BY <1>0, <1>3, <2>1, OtherStepsKeepSessions DEF S!RowIsMade
<1>4. CASE S!MatchEnds
  <2>1. match \in 0..now
    BY <1>0, <1>4 DEF S!MatchEnds, S!TypeOK, S!NotSet, S!Starting
  <2>2. PICK o \in S!Outcomes : played' = played \cup {[at |-> match, outcome |-> o]}
    BY <1>4 DEF S!MatchEnds
  <2>3. UNCHANGED <<now, since, saved, nextId, started, chain>> /\ match' = S!NotSet
    BY <1>4 DEF S!MatchEnds
  <2>4. S!TypeOK'
    <3>1. [at |-> match, outcome |-> o] \in [at : 0..now, outcome : S!Outcomes]
      BY <2>1
    <3>2. played' \subseteq [at : 0..now, outcome : S!Outcomes]
      BY <1>0, <2>2, <3>1 DEF S!TypeOK
    <3> QED BY <1>0, <2>3, <3>2 DEF S!TypeOK, S!Second
  <2> QED BY <1>0, <2>3, <2>4, OtherStepsKeepSessions
<1>5. CASE S!Restart
  <2>1. S!TypeOK'
    <3>1. since' = S!NotSet /\ started' = FALSE /\ match' \in {S!NotSet, match}
          /\ UNCHANGED <<now, saved, nextId, played>>
          /\ chain' = [from |-> S!NotSet, ids |-> {}]
      BY <1>5 DEF S!Restart, S!NewChain
    <3>2. chain' \in [from : {S!NotSet} \cup 0..SessionTime, ids : SUBSET (0..nextId - 1)]
      BY <3>1
    <3> QED BY <1>0, <3>1, <3>2 DEF S!TypeOK, S!Second
  <2> QED BY <1>5, <2>1, NewChainsAreCovered DEF S!Restart
<1>6. CASE S!OnEvent
  <2>1. CASE since = S!NotSet
    <3>1. since' = now /\ chain' = [from |-> now, ids |-> {}] /\ started' = FALSE
          /\ UNCHANGED <<now, saved, nextId, match, played>>
      BY <1>6, <2>1 DEF S!OnEvent, S!NewChain
    <3>2. now \in 0..SessionTime
      BY <1>0 DEF S!TypeOK
    <3>3. chain' \in [from : {S!NotSet} \cup 0..SessionTime, ids : SUBSET (0..nextId - 1)]
      BY <3>1, <3>2
    <3>4. S!TypeOK'
      BY <1>0, <3>1, <3>2, <3>3 DEF S!TypeOK, S!Second
    <3> QED BY <3>1, <3>4, NewChainsAreCovered DEF S!NewChain
  <2>2. CASE since # S!NotSet
    <3>1. S!TypeOK'
      BY <1>0, <1>6, <2>2 DEF S!OnEvent, S!TypeOK, S!Second
    <3> QED BY <1>0, <1>6, <2>2, <3>1, OtherStepsKeepSessions DEF S!OnEvent
  <2> QED BY <2>1, <2>2
<1>7. CASE S!HandleStart
  <2>1. PICK t \in {now} \cup 0..SessionTime : since' = t /\ chain' = S!NewChain(t)
    BY <1>7 DEF S!HandleStart
  <2>2. UNCHANGED <<now, saved, nextId, match, played, started>>
    BY <1>7 DEF S!HandleStart
  <2>3. t \in 0..SessionTime
    BY <1>0 DEF S!TypeOK
  <2>4. chain' \in [from : {S!NotSet} \cup 0..SessionTime, ids : SUBSET (0..nextId - 1)]
    BY <2>1, <2>3 DEF S!NewChain
  <2>5. S!TypeOK'
    BY <1>0, <2>1, <2>2, <2>3, <2>4 DEF S!TypeOK, S!Second
  <2> QED BY <2>1, <2>5, NewChainsAreCovered
<1>8. ASSUME NEW named \in BOOLEAN, NEW stored \in BOOLEAN, S!HandleNew(named, stored)
      PROVE  SessionInv'
  <2>1. PICK later \in {t \in now..now + 1 : t <= SessionTime} :
          /\ now' = later
          /\ IF named /\ stored /\ since # S!NotSet
             THEN /\ nextId < MaxSaved
                  /\ saved' = saved \cup {S!Saves(nextId, later)} /\ nextId' = nextId + 1
                  /\ chain' = [chain EXCEPT !.ids = @ \cup {nextId}]
             ELSE UNCHANGED <<saved, nextId>> /\ chain' = S!NewChain(now)
    BY <1>8 DEF S!HandleNew
  <2>2. since' = now /\ UNCHANGED <<match, played, started>>
    BY <1>8 DEF S!HandleNew
  <2>3. CASE named /\ stored /\ since # S!NotSet
    BY <2>1, <2>2, <2>3, SavingKeepsSessions
  <2>4. CASE ~(named /\ stored /\ since # S!NotSet)
    <3>1. UNCHANGED <<saved, nextId>> /\ chain' = S!NewChain(now)
      BY <2>1, <2>4
    <3>2. now \in 0..SessionTime /\ now' \in 0..SessionTime /\ 0..now \subseteq 0..now'
      BY <1>0, <2>1 DEF S!TypeOK
    <3>3. chain' \in [from : {S!NotSet} \cup 0..SessionTime, ids : SUBSET (0..nextId - 1)]
      BY <3>1, <3>2 DEF S!NewChain
    <3>4. S!TypeOK'
      BY <1>0, <2>2, <3>1, <3>2, <3>3 DEF S!TypeOK, S!Second
    <3> QED BY <2>2, <3>1, <3>4, NewChainsAreCovered
  <2> QED BY <2>3, <2>4
<1>9. ASSUME NEW s \in saved, S!HandleHistoryItem(s) PROVE SessionInv'
  <2>1. UNCHANGED <<now, since, nextId, match, played, started>>
        /\ chain' = IF s.id \in chain.ids THEN S!NewChain(since) ELSE chain
    BY <1>9 DEF S!HandleHistoryItem
  <2>2. /\ \A x \in saved' : x.id = s.id \/ x \in saved
        /\ \A x \in saved : x.id # s.id => x \in saved'
        /\ \A x, y \in saved' : x.id = y.id => x = y
        /\ saved' \subseteq [id : 0..nextId - 1, start : 0..S!Second(SessionTime), end : 0..S!Second(SessionTime)]
    <3>0. \A x \in saved : x.id = s.id => x = s
      BY <1>0 DEF S!TypeOK
    <3>1. CASE saved' = saved \ {s}
      BY <1>0, <3>0, <3>1 DEF S!TypeOK
    <3>2. ASSUME NEW a \in 0..S!Second(SessionTime), NEW b \in 0..S!Second(SessionTime),
                 saved' = (saved \ {s}) \cup {S!Row(s.id, a, b)}
          PROVE  <2>2
      <4>1. S!Row(s.id, a, b).id = s.id
            /\ S!Row(s.id, a, b) \in [id : 0..nextId - 1, start : 0..S!Second(SessionTime), end : 0..S!Second(SessionTime)]
        BY <1>0 DEF S!Row, S!TypeOK
      <4> QED BY <1>0, <3>0, <3>2, <4>1 DEF S!TypeOK
    <3> QED BY <1>9, <3>1, <3>2 DEF S!HandleHistoryItem
  <2>3. chain' \in [from : {S!NotSet} \cup 0..SessionTime, ids : SUBSET (0..nextId - 1)]
    BY <1>0, <2>1 DEF S!TypeOK, S!NewChain
  <2>4. S!TypeOK'
    BY <1>0, <2>1, <2>2, <2>3 DEF S!TypeOK, S!Second
  <2>5. CASE s.id \in chain.ids
    BY <2>1, <2>4, <2>5, NewChainsAreCovered
  <2>6. CASE s.id \notin chain.ids
    <3>1. S!InChain' = S!InChain
      <4>1. \A x \in saved' : x.id \in chain.ids => x \in saved
        BY <2>2, <2>6
      <4>2. \A x \in saved : x.id \in chain.ids => x \in saved'
        BY <2>2, <2>6
      <4> QED BY <2>1, <2>6, <4>1, <4>2 DEF S!InChain
    <3> QED BY <2>1, <2>4, <2>6, <3>1 DEF SessionInv, Ends, Overlaps, Covered, S!Second
  <2> QED BY <2>5, <2>6
<1> QED BY <1>1, <1>2, <1>3, <1>4, <1>5, <1>6, <1>7, <1>8, <1>9 DEF S!Next

LEMMA SessionStutters == SessionInv /\ UNCHANGED sessionVars => SessionInv'
BY DEF SessionInv, sessionVars, S!TypeOK, Ends, Overlaps, Covered, S!InChain, S!Second

LEMMA SessionAlways == GuestsSpec => []SessionInv
<1>1. GuestsInit => SessionInv
  BY SessionInitially DEF GuestsInit
<1>2. SessionInv /\ [GuestsNext]_guestVars => SessionInv'
  BY SessionStep, SessionStutters DEF GuestsNext, SessionSteps, DejaVuSteps, BallchasingSteps, guestVars
<1> QED BY <1>1, <1>2, PTL DEF GuestsSpec

\* Saving, editing, deleting and starting anew in any order, at any fractions
\* of a second: the sessions of a chain lose no match and share none but one
\* begun in the second in which they meet.
THEOREM SessionsLoseNothing == GuestsSpec => []SessionsKeepEveryMatch
BY SessionAlways, NoMatchIsMissed, PTL

\* What a session is saved as and what was shown while it ran.
LEMMA ShownAsSaved == S!TypeOK => LiveAgreesWithSaved
<1> SUFFICES ASSUME S!TypeOK, since # S!NotSet
             PROVE  LET kept == S!MatchesOf(S!Saves(nextId, now)) IN
                      /\ \A m \in S!LiveMatches \ kept : S!Second(m.at) >= S!Second(now)
                      /\ \A m \in kept \ S!LiveMatches : S!Second(m.at) = S!Second(since)
                      /\ \A m \in kept \cap S!LiveMatches : S!SavedResult(m) = S!LiveResult(m)
  BY DEF LiveAgreesWithSaved, S!LiveAgreesWithSaved
<1>1. now \in Nat /\ since \in Nat /\ S!Second(now) \in Nat /\ S!Second(since) \in Nat
      /\ S!Second(since) * PerSecond <= since /\ since < S!Second(since) * PerSecond + PerSecond
      /\ S!Second(since) * PerSecond \in Nat
  BY NowAndSince, Seconds
<1>2. S!Second(now) * PerSecond # S!NotSet /\ S!Second(now) * PerSecond \in Nat
  BY <1>1, Seconds DEF S!NotSet
<1> DEFINE kept == S!MatchesOf(S!Saves(nextId, now))
<1>3. ASSUME NEW m \in played
      PROVE  /\ m \in kept <=> S!Second(m.at) >= S!Second(since) /\ S!Second(m.at) < S!Second(now)
             /\ m \in S!LiveMatches <=> S!StartOf(m) >= since
             /\ m.at \in Nat /\ S!Second(m.at) \in Nat /\ S!StartOf(m) \in Nat
  <2>1. m.at \in Nat /\ S!Second(m.at) \in Nat /\ S!StartOf(m) \in Nat
    BY Seconds DEF S!TypeOK, S!StartOf
  <2>2. /\ S!StartOf(m) >= S!Second(since) * PerSecond <=> S!Second(m.at) >= S!Second(since)
        /\ S!StartOf(m) >= S!Second(now) * PerSecond <=> S!Second(m.at) >= S!Second(now)
    BY <1>1, <2>1, SecondsCompare DEF S!StartOf
  <2>3. m \in kept <=> S!StartOf(m) >= S!Second(since) * PerSecond
                       /\ S!StartOf(m) < S!Second(now) * PerSecond
    BY <1>2 DEF S!MatchesOf, S!Between, S!Saves, S!Row
  <2>4. m \in S!LiveMatches <=> S!StartOf(m) >= since
    BY DEF S!LiveMatches, S!Between
  <2> QED BY <1>1, <1>2, <2>1, <2>2, <2>3, <2>4
<1>4. kept \subseteq played /\ S!LiveMatches \subseteq played
  BY DEF S!MatchesOf, S!LiveMatches, S!Between
<1> HIDE DEF kept
<1>5. ASSUME NEW m \in S!LiveMatches \ kept PROVE S!Second(m.at) >= S!Second(now)
  <2>1. S!StartOf(m) >= S!Second(since) * PerSecond
    BY <1>1, <1>3, <1>4
  <2>2. S!Second(m.at) >= S!Second(since)
    BY <1>1, <1>3, <1>4, <2>1, SecondsCompare DEF S!StartOf
  <2> QED BY <1>1, <1>3, <1>4, <2>2
<1>6. ASSUME NEW m \in kept \ S!LiveMatches PROVE S!Second(m.at) = S!Second(since)
  <2>1. S!StartOf(m) < since /\ S!Second(m.at) >= S!Second(since)
    BY <1>1, <1>3, <1>4
  <2>2. S!StartOf(m) < (S!Second(since) + 1) * PerSecond
    <3>1. (S!Second(since) + 1) * PerSecond = S!Second(since) * PerSecond + PerSecond
          /\ PerSecond \in Nat
      BY <1>1, SessionAssumed DEF SessionConstants, Positive
    <3> QED BY <1>1, <1>3, <1>4, <2>1, <3>1
  <2>3. ~(S!Second(m.at) >= S!Second(since) + 1)
    <3>1. (S!Second(since) + 1) * PerSecond \in Int
      BY <1>1, SessionAssumed DEF SessionConstants, Positive
    <3> QED BY <1>1, <1>3, <1>4, <2>2, <3>1, SecondsCompare DEF S!StartOf
  <2> QED BY <1>1, <1>3, <1>4, <2>1, <2>3
<1>7. ASSUME NEW m \in kept \cap S!LiveMatches PROVE S!SavedResult(m) = S!LiveResult(m)
  <2>1. m.outcome \in S!Outcomes
    BY <1>4 DEF S!TypeOK
  <2>2. (\E w \in {-1, 0, 1} : m.outcome = [winner |-> w, incomplete |-> FALSE])
        \/ m.outcome = [winner |-> -1, incomplete |-> TRUE]
    BY <2>1, Zenon DEF S!Outcomes
  <2>3. m.outcome.incomplete => m.outcome.winner < 0
    BY <2>2
  <2> QED BY <2>2, <2>3 DEF S!SavedResult, S!LiveResult
<1> QED BY <1>5, <1>6, <1>7 DEF kept

\* Whatever moment "new session" is called at, and however the recorder left
\* the matches.
THEOREM ShownSessionIsSaved == GuestsSpec => []LiveAgreesWithSaved
<1>1. SessionInv => LiveAgreesWithSaved
  BY ShownAsSaved DEF SessionInv
<1> QED BY <1>1, SessionAlways, PTL

-----------------------------------------------------------------------------
(* The history of encounters                                               *)

Counts == [D!Sides -> [D!Results -> Nat]]

Hits(T, selected, t, side, result) ==
  {row \in T : row.target = t /\ D!Side(row, selected) = side /\ D!Result(row, selected) = result}

LEMMA DejaVuAssumed ==
  /\ IsFiniteSet(Guids) /\ IsFiniteSet(Players) /\ QueueSize \in Nat \ {0}
  /\ Unstable \subseteq Players /\ NoGuid \notin Guids
  /\ Games \subseteq [guid : Guids, roster : D!Rosters] /\ Past \in [Guids -> D!Matches]
<1>1. \A T : D!IsFiniteSet(T) <=> IsFiniteSet(T)
  BY DEF D!IsFiniteSet, IsFiniteSet
<1> QED BY <1>1, GuestsAssumption DEF D!DejaVuAssumption

LEMMA SameCardinalityD == \A T : D!Cardinality(T) = Cardinality(T)
BY DEF D!Cardinality, Cardinality

LEMMA RowsAreFinite ==
  ASSUME NEW selected, NEW guid, NEW targets \in SUBSET Players
  PROVE  IsFiniteSet(D!RowsOf(selected, guid, targets))
<1> DEFINE Rows == D!RowsOf(selected, guid, targets)
           f == [row \in Rows |-> <<row.target, row.match>>]
<1>1. \A row \in Rows : row.target \in targets /\ row.match \in Guids
                        /\ row = [target |-> row.target, match |-> row.match]
  BY DEF D!RowsOf, D!Encounters
<1>2. f \in Injection(Rows, Players \X Guids)
  <2>1. f \in [Rows -> Players \X Guids]
    <3> HIDE DEF Rows
    <3> QED BY <1>1
  <2>2. ASSUME NEW a \in Rows, NEW b \in Rows, f[a] = f[b] PROVE a = b
    <3>1. a.target = b.target /\ a.match = b.match
      BY <2>2
    <3> QED BY <1>1, <3>1
  <2> HIDE DEF f
  <2> QED BY <2>1, <2>2 DEF Injection, IsInjective
<1>3. IsFiniteSet(Players \X Guids)
  BY DejaVuAssumed, FS_Product
<1> QED BY <1>2, <1>3, FS_Injection

LEMMA SidesAndResults ==
  \A row, selected : D!Side(row, selected) \in D!Sides /\ D!Result(row, selected) \in D!Results
BY DEF D!Side, D!Result, D!Sides, D!Results

\* What one row adds.
LEMMA CountedOnce ==
  ASSUME NEW targets, NEW row, row.target \in targets, NEW selected,
         NEW aggs \in [targets -> Counts]
  PROVE  /\ D!Counted(row, selected, aggs) \in [targets -> Counts]
         /\ \A t \in targets, side \in D!Sides, result \in D!Results :
              D!Counted(row, selected, aggs)[t][side][result] =
                IF row.target = t /\ D!Side(row, selected) = side /\ D!Result(row, selected) = result
                THEN aggs[t][side][result] + 1 ELSE aggs[t][side][result]
<1>1. D!Side(row, selected) \in D!Sides /\ D!Result(row, selected) \in D!Results
  BY SidesAndResults
<1> DEFINE sd == D!Side(row, selected)
           rs == D!Result(row, selected)
           old == aggs[row.target]
           line == [old[sd] EXCEPT ![rs] = old[sd][rs] + 1]
           one == [old EXCEPT ![sd] = line]
<1>2. old \in [D!Sides -> [D!Results -> Nat]] /\ old[sd] \in [D!Results -> Nat]
  BY <1>1 DEF Counts
<1>5. D!Counted(row, selected, aggs) = [aggs EXCEPT ![row.target] = one]
  BY DEF D!Counted
<1> HIDE DEF sd, rs, old
<1>3. /\ line \in [D!Results -> Nat]
      /\ \A result \in D!Results : line[result] = IF rs = result THEN old[sd][result] + 1
                                                ELSE old[sd][result]
  BY <1>1, <1>2 DEF sd, rs
<1> HIDE DEF line
<1>4. /\ one \in Counts
      /\ \A side \in D!Sides, result \in D!Results :
        one[side][result] = IF sd = side /\ rs = result
                            THEN old[side][result] + 1 ELSE old[side][result]
  BY <1>1, <1>2, <1>3 DEF Counts, sd
<1> HIDE DEF one
<1> QED BY <1>4, <1>5 DEF old, sd, rs

\* aggregateEncounterRows counts every row once, in whatever order they come.
LEMMA AggregatesCount ==
  ASSUME NEW selected, NEW guid, NEW targets \in SUBSET Players
  PROVE  /\ D!Aggregates(selected, guid, targets) \in [targets -> Counts]
         /\ \A t \in targets, side \in D!Sides, result \in D!Results :
              D!Aggregates(selected, guid, targets)[t][side][result] =
                Cardinality(Hits(D!RowsOf(selected, guid, targets), selected, t, side, result))
<1> DEFINE I == D!RowsOf(selected, guid, targets)
           V == [targets -> Counts]
           base == [t \in targets |-> D!NoAgg]
           pick == [T \in SUBSET I |-> CHOOSE x \in T : TRUE]
           step == [x \in I \X V |-> D!Counted(x[1], selected, x[2])]
           Folds(g) == g = [T \in SUBSET I |->
             IF T = {} THEN base
             ELSE LET x == CHOOSE y \in T : TRUE IN D!Counted(x, selected, g[T \ {x}])]
<1>1. IsFiniteSet(I) /\ \A row \in I : row.target \in targets
  <2>1. \A row \in I : row.target \in targets
    BY DEF D!RowsOf, D!Encounters
  <2> QED BY <2>1, RowsAreFinite
<1>2. base \in V /\ \A t \in targets, side \in D!Sides, result \in D!Results : base[t][side][result] = 0
  BY DEF D!NoAgg, Counts
<1>3. step \in [I \X V -> V]
  <2>1. \A x \in I \X V : x[1].target \in targets /\ x[2] \in V
    BY <1>1
  <2>2. \A x \in I \X V : D!Counted(x[1], selected, x[2]) \in V
    <3> SUFFICES ASSUME NEW x \in I \X V PROVE D!Counted(x[1], selected, x[2]) \in V
      OBVIOUS
    <3> QED BY <2>1, CountedOnce
  <2> QED BY <2>2
<1>4. \A T \in SUBSET I : T # {} => (CHOOSE x \in T : TRUE) \in T
  OBVIOUS
<1>5. PICK g \in [SUBSET I -> V] : IsFold(g, I, base, pick, step)
  <2>1. Foldable(I, V, base, pick, step)
    <3>1. \A T \in SUBSET I : T # {} => pick[T] \in T
      BY <1>4
    <3> HIDE DEF pick, step, V, I, base
    <3> QED BY <1>1, <1>2, <1>3, <3>1 DEF Foldable
  <2> HIDE DEF pick, step, V, I, base
  <2> QED BY <2>1, FoldsExist
<1>6. Folds(g)
  <2>1. ASSUME NEW T \in SUBSET I, T # {}
        PROVE  g[T] = D!Counted(CHOOSE y \in T : TRUE, selected, g[T \ {CHOOSE y \in T : TRUE}])
    <3> DEFINE x == CHOOSE y \in T : TRUE
    <3>1. pick[T] = x /\ x \in I
      BY <1>4, <2>1
    <3>2. <<x, g[T \ {x}]>> \in I \X V
      <4> HIDE DEF I, V, x
      <4> QED BY <3>1
    <3>3. step[<<x, g[T \ {x}]>>] = D!Counted(x, selected, g[T \ {x}])
      BY <3>2
    <3> QED BY <1>5, <2>1, <3>1, <3>3 DEF IsFold
  <2>2. g[{}] = base
    BY <1>5 DEF IsFold
  <2>3. g = [T \in SUBSET I |-> g[T]]
    OBVIOUS
  <2> HIDE DEF I, V, base
  <2> QED BY <2>1, <2>2, <2>3
<1> DEFINE h == CHOOSE f : Folds(f)
<1>7. Folds(h)
  <2> HIDE DEF Folds
  <2> QED BY <1>6
<1>8. D!Aggregates(selected, guid, targets) = h[I]
  BY DEF D!Aggregates, D!FoldSet, D!MapThenFoldSet
<1> DEFINE Right(T) == /\ h[T] \in V
                       /\ \A t \in targets, side \in D!Sides, result \in D!Results :
                            h[T][t][side][result] = Cardinality(Hits(T, selected, t, side, result))
           Reached == {n \in Nat : \A T \in SUBSET I : Cardinality(T) = n => Right(T)}
<1> HIDE DEF h
<1>9. \A T \in SUBSET I : IsFiniteSet(T) /\ Cardinality(T) \in Nat
  BY <1>1, FS_Subset, FS_CardinalityType
<1>10. Right({})
  <2>1. h[{}] = base
    BY <1>7
  <2>2. \A t, side, result : Hits({}, selected, t, side, result) = {}
    BY DEF Hits
  <2> HIDE DEF base, V
  <2> QED BY <1>2, <2>1, <2>2, FS_EmptySet
<1>11. ASSUME NEW T \in SUBSET I, T # {}, NEW x, x = (CHOOSE y \in T : TRUE), Right(T \ {x})
       PROVE  Right(T)
  <2>1. x \in T /\ x \in I /\ x.target \in targets
    BY <1>1, <1>4, <1>11
  <2>2. h[T] = D!Counted(x, selected, h[T \ {x}])
    BY <1>7, <1>11
  <2>3. h[T] \in V
    <3>1. h[T \ {x}] \in [targets -> Counts]
      BY <1>11
    <3>2. x.target \in targets
      BY <2>1
    <3>3. D!Counted(x, selected, h[T \ {x}]) \in [targets -> Counts]
      <4> HIDE DEF Right, V, I, base, step, pick, Folds, Reached
      <4> QED BY <3>1, <3>2, CountedOnce
    <3> QED BY <2>2, <3>3
  <2>4. ASSUME NEW t \in targets, NEW side \in D!Sides, NEW result \in D!Results
        PROVE  h[T][t][side][result] = Cardinality(Hits(T, selected, t, side, result))
    <3> DEFINE P == Hits(T \ {x}, selected, t, side, result)
    <3>1. x \notin P /\ IsFiniteSet(P) /\ Cardinality(P) \in Nat
      <4>1. P \in SUBSET I /\ x \notin P
        BY DEF Hits
      <4> HIDE DEF P
      <4> QED BY <1>9, <4>1
    <3>2. h[T \ {x}][t][side][result] = Cardinality(P)
      BY <1>11
    <3>3. CASE x.target = t /\ D!Side(x, selected) = side /\ D!Result(x, selected) = result
      <4>1. Hits(T, selected, t, side, result) = P \cup {x}
        BY <2>1, <3>3 DEF Hits
      <4>2. h[T][t][side][result] = h[T \ {x}][t][side][result] + 1
        BY <1>11, <2>1, <2>2, <3>3, CountedOnce
      <4> HIDE DEF P
      <4> QED BY <3>1, <3>2, <4>1, <4>2, FS_AddElement
    <3>4. CASE ~(x.target = t /\ D!Side(x, selected) = side /\ D!Result(x, selected) = result)
      <4>1. Hits(T, selected, t, side, result) = P
        BY <2>1, <3>4 DEF Hits
      <4>2. h[T][t][side][result] = h[T \ {x}][t][side][result]
        BY <1>11, <2>1, <2>2, <3>4, CountedOnce
      <4> QED BY <3>2, <4>1, <4>2
    <3> QED BY <3>3, <3>4
  <2> QED BY <2>3, <2>4
<1>12. 0 \in Reached
  <2>1. \A T \in SUBSET I : Cardinality(T) = 0 => T = {}
    BY <1>9, FS_EmptySet
  <2> HIDE DEF Right, I
  <2> QED BY <1>10, <2>1
<1>13. ASSUME NEW n \in Nat, n \in Reached PROVE n + 1 \in Reached
  <2> SUFFICES ASSUME NEW T \in SUBSET I, Cardinality(T) = n + 1 PROVE Right(T)
    OBVIOUS
  <2> DEFINE x == CHOOSE y \in T : TRUE
  <2>1. T # {}
    BY FS_EmptySet
  <2>2. x \in T
    BY <2>1
  <2> HIDE DEF x, I
  <2>3. Cardinality(T \ {x}) = n
    BY <1>9, <2>2, FS_RemoveElement
  <2> HIDE DEF Right
  <2>4. Right(T \ {x})
    BY <1>13, <2>3
  <2> QED BY <1>11, <2>1, <2>4 DEF x
<1>14. Right(I)
  <2>1. Nat \subseteq Reached
    <3> HIDE DEF Reached
    <3> QED BY <1>12, <1>13, Induction
  <2> HIDE DEF Right, I
  <2> QED BY <1>9, <2>1
<1> QED BY <1>8, <1>14

\* The rows of two players, and the matches that they have in common: one row
\* for each.
LEMMA CountsAreRight ==
  ASSUME history \in [Guids -> D!Matches], NEW targets \in SUBSET Players, NEW guid,
         NEW selected, NEW t \in targets, NEW side \in D!Sides, NEW result \in D!Results
  PROVE  Cardinality(Hits(D!RowsOf(selected, guid, targets), selected, t, side, result)) =
           D!CountOf(selected, guid, t, side, result)
<1> DEFINE Rows == Hits(D!RowsOf(selected, guid, targets), selected, t, side, result)
           Common == {g \in Guids \ {guid} :
             LET m == history[g]
                 decided == ~m.incomplete /\ m.winner \in {0, 1}
             IN /\ {selected, t} \subseteq DOMAIN m.teams
                /\ m.teams[selected] \in {0, 1} /\ m.teams[t] \in {0, 1}
                /\ (side = "with") = (m.teams[selected] = m.teams[t])
                /\ (result = "none") = ~decided
                /\ decided => (result = "win") = (m.teams[selected] = m.winner)}
           row(g) == [target |-> t, match |-> g]
           f == [g \in Common |-> row(g)]
<1>1. \A r \in Rows : r.match \in Guids \ {guid} /\ r = row(r.match)
  <2> SUFFICES ASSUME NEW r \in Rows PROVE r.match \in Guids \ {guid} /\ r = row(r.match)
    OBVIOUS
  <2>1. r \in D!Encounters(selected, guid, targets) /\ r.target = t
    BY DEF Hits, D!RowsOf
  <2> QED BY <2>1 DEF D!Encounters
<1>2. ASSUME NEW g \in Guids \ {guid} PROVE row(g) \in Rows <=> g \in Common
  <2> DEFINE m == history[g]
  <2>1. m.incomplete \in BOOLEAN /\ m.winner \in {-1, 0, 1}
    BY DEF D!Matches
  <2>2. row(g).target = t /\ row(g).match = g
    OBVIOUS
  <2>3. row(g) \in D!Encounters(selected, guid, targets) <=> selected \in DOMAIN m.teams
    <3>1. ASSUME NEW e \in D!Encounters(selected, guid, targets)
          PROVE  e.match \in {h \in Guids \ {guid} : selected \in DOMAIN history[h].teams}
      BY DEF D!Encounters
    <3>2. ASSUME selected \in DOMAIN m.teams
          PROVE  row(g) \in D!Encounters(selected, guid, targets)
      <4>1. g \in {h \in Guids \ {guid} : selected \in DOMAIN history[h].teams}
        BY <3>2
      <4> QED BY <4>1 DEF D!Encounters
    <3>3. row(g) \in D!Encounters(selected, guid, targets) => selected \in DOMAIN m.teams
      BY <2>2, <3>1
    <3> QED BY <3>2, <3>3
  <2> DEFINE Both == /\ {selected, t} \subseteq DOMAIN m.teams
                     /\ m.teams[selected] \in {0, 1} /\ m.teams[t] \in {0, 1}
  <2>4. row(g) \in D!RowsOf(selected, guid, targets) <=> Both
    <3> HIDE DEF row
    <3> QED BY <2>2, <2>3 DEF D!RowsOf, D!ValidTeam
  <2>5. D!Side(row(g), selected) = side <=> ((side = "with") = (m.teams[selected] = m.teams[t]))
    <3> HIDE DEF row
    <3> QED BY <2>2 DEF D!Side, D!Sides
  <2>6. D!Result(row(g), selected) = result <=>
          /\ (result = "none") = ~(~m.incomplete /\ m.winner \in {0, 1})
          /\ (~m.incomplete /\ m.winner \in {0, 1}) =>
               ((result = "win") = (m.teams[selected] = m.winner))
    <3> HIDE DEF row
    <3>1. result \in {"win", "loss", "none"}
      BY DEF D!Results
    <3> QED BY <2>1, <2>2, <3>1 DEF D!Result, D!ValidTeam
  <2>7. row(g) \in Rows <=>
          Both /\ D!Side(row(g), selected) = side /\ D!Result(row(g), selected) = result
    <3> HIDE DEF row, Both
    <3> QED BY <2>2, <2>4 DEF Hits
  <2> HIDE DEF row, Rows
  <2> QED BY <2>5, <2>6, <2>7
<1>3. f \in Bijection(Common, Rows)
  <2> HIDE DEF Rows, Common
  <2>0. Common \subseteq Guids \ {guid}
    BY DEF Common
  <2>1. f \in [Common -> Rows]
    BY <1>2, <2>0
  <2>2. \A a, b \in Common : f[a] = f[b] => a = b
    <3> SUFFICES ASSUME NEW a \in Common, NEW b \in Common, f[a] = f[b] PROVE a = b
      OBVIOUS
    <3>1. row(a).match = a /\ row(b).match = b
      OBVIOUS
    <3> HIDE DEF row
    <3> QED BY <3>1
  <2>3. \A r \in Rows : \E g \in Common : f[g] = r
    <3> SUFFICES ASSUME NEW r \in Rows PROVE \E g \in Common : f[g] = r
      OBVIOUS
    <3>1. r.match \in Guids \ {guid} /\ r = row(r.match)
      BY <1>1
    <3>2. r.match \in Common
      BY <1>2, <3>1
    <3> HIDE DEF row
    <3> QED BY <3>1, <3>2
  <2> HIDE DEF f
  <2> QED BY <2>1, <2>2, <2>3 DEF Bijection, Injection, Surjection, IsInjective
<1>4. IsFiniteSet(Common)
  <2>1. Common \in SUBSET Guids
    OBVIOUS
  <2> HIDE DEF Common
  <2> QED BY <2>1, DejaVuAssumed, FS_Subset
<1>5. Cardinality(Rows) = Cardinality(Common)
  <2> HIDE DEF Rows, Common, f
  <2> QED BY <1>3, <1>4, FS_Bijection DEF ExistsBijection
<1>6. D!CountOf(selected, guid, t, side, result) = Cardinality(Common)
  BY SameCardinalityD DEF D!CountOf
<1> QED BY <1>5, <1>6

\* What a query finds is what the history says.
LEMMA QueriesAreRight ==
  ASSUME history \in [Guids -> D!Matches], NEW targets \in SUBSET Players, NEW guid, NEW selected
  PROVE  LET aggs == D!Aggregates(selected, guid, targets) IN
           /\ DOMAIN aggs = targets
           /\ \A t \in targets, side \in D!Sides, result \in D!Results :
                aggs[t][side][result] = D!CountOf(selected, guid, t, side, result)
BY AggregatesCount, CountsAreRight

-----------------------------------------------------------------------------
(* Recalls                                                                 *)

\* As long as the game stays where it was when the cache was filled, what is
\* kept is what the history says: only the row of that match may change.
Stays == stayed /\ cache.ready => game.guid \in {cache.key[1], NoGuid}

KeptIsRight ==
  stayed /\ cache.ready /\ ~cache.error =>
    /\ DOMAIN cache.aggs = cache.key[3]
    /\ \A t \in cache.key[3], side \in D!Sides, result \in D!Results :
         cache.aggs[t][side][result] = D!CountOf(cache.key[2], cache.key[1], t, side, result)

DejaInv == D!TypeOK /\ Stays /\ KeptIsRight /\ AnswersAreFresh

LEMMA NoMatchIsNone == /\ D!NoMatch.guid = NoGuid /\ D!NoCache.ready = FALSE /\ D!NoCache.error = FALSE
                       /\ D!NoAnswer.status = "none" /\ D!NoAnswer.selected = {}
                       /\ \A m \in Games : m.guid \in Guids /\ m.roster \in D!Rosters /\ m # D!NoMatch
<1>1. \A m \in Games : m.guid \in Guids /\ m.roster \in D!Rosters
  BY DejaVuAssumed
<1> QED BY <1>1, DejaVuAssumed DEF D!NoMatch, D!In, D!NoCache, D!NoAnswer

\* A history that differs in one match only counts the same for that match.
LEMMA OtherMatchesCount ==
  ASSUME NEW guid, \A g \in Guids \ {guid} : history'[g] = history[g]
  PROVE  \A selected, t, side, result :
           D!CountOf(selected, guid, t, side, result)' = D!CountOf(selected, guid, t, side, result)
<1> SUFFICES ASSUME NEW selected, NEW t, NEW side, NEW result
             PROVE  D!CountOf(selected, guid, t, side, result)' = D!CountOf(selected, guid, t, side, result)
  OBVIOUS
<1> DEFINE In1(h, g) ==
             LET m == h[g]
                 decided == ~m.incomplete /\ m.winner \in {0, 1}
             IN /\ {selected, t} \subseteq DOMAIN m.teams
                /\ m.teams[selected] \in {0, 1} /\ m.teams[t] \in {0, 1}
                /\ (side = "with") = (m.teams[selected] = m.teams[t])
                /\ (result = "none") = ~decided
                /\ decided => (result = "win") = (m.teams[selected] = m.winner)
<1>1. \A g \in Guids \ {guid} : In1(history', g) <=> In1(history, g)
  OBVIOUS
<1>2. D!CountOf(selected, guid, t, side, result) = Cardinality({g \in Guids \ {guid} : In1(history, g)})
  BY SameCardinalityD DEF D!CountOf
<1>3. D!CountOf(selected, guid, t, side, result)' = Cardinality({g \in Guids \ {guid} : In1(history', g)})
  BY SameCardinalityD DEF D!CountOf
<1>4. {g \in Guids \ {guid} : In1(history', g)} = {g \in Guids \ {guid} : In1(history, g)}
  <2> HIDE DEF In1
  <2> QED BY <1>1
<1> QED BY <1>2, <1>3, <1>4

\* A history that is the same counts the same.
LEMMA SameHistoryCounts ==
  ASSUME history' = history
  PROVE  \A selected, guid, t, side, result :
           D!CountOf(selected, guid, t, side, result)' = D!CountOf(selected, guid, t, side, result)
BY OtherMatchesCount

LEMMA DejaInitially == D!Init => DejaInv
<1> SUFFICES ASSUME D!Init PROVE DejaInv
  OBVIOUS
<1>1. game = D!NoMatch /\ state = D!NoMatch /\ events = <<>> /\ history = Past
      /\ cache = D!NoCache /\ answer = D!NoAnswer /\ stayed = FALSE
  BY DEF D!Init
<1>2. D!TypeOK
  <2>1. events \in Seq(Games \cup {D!NoMatch}) /\ Len(events) = 0
    BY <1>1
  <2>2. Len(events) <= QueueSize
    BY <2>1, DejaVuAssumed
  <2>3. history \in [Guids -> D!Matches]
    BY <1>1, DejaVuAssumed
  <2> QED BY <1>1, <2>1, <2>2, <2>3 DEF D!TypeOK
<1> QED BY <1>1, <1>2 DEF DejaInv, Stays, KeptIsRight, AnswersAreFresh, D!AnswersAreFresh

\* What the recorder leaves is a history.
LEMMA RecordedIsHistory ==
  ASSUME D!TypeOK, NEW winner \in {-1, 0, 1}, NEW incomplete \in BOOLEAN
  PROVE  /\ D!Recorded(winner, incomplete) \in [Guids -> D!Matches]
         /\ \A g \in Guids \ {game.guid} : D!Recorded(winner, incomplete)[g] = history[g]
<1>1. CASE game = D!NoMatch
  BY <1>1 DEF D!Recorded, D!TypeOK
<1>2. CASE game # D!NoMatch
  <2>1. game \in Games /\ game.guid \in Guids /\ history \in [Guids -> D!Matches]
    BY <1>2, NoMatchIsNone DEF D!TypeOK
  <2> DEFINE old == history[game.guid].teams
             teams == [p \in DOMAIN game.roster \cup DOMAIN old |->
                         IF p \in DOMAIN game.roster THEN game.roster[p] ELSE old[p]]
             new == [teams |-> teams, winner |-> winner, incomplete |-> incomplete]
  <2>2. game.roster \in D!Rosters /\ old \in D!Rosters
    BY <2>1, NoMatchIsNone DEF D!Matches
  <2>3. teams \in D!Rosters
    <3>1. PICK P \in SUBSET Players : game.roster \in [P -> D!Teams]
      BY <2>2 DEF D!Rosters
    <3>2. PICK Q \in SUBSET Players : old \in [Q -> D!Teams]
      BY <2>2 DEF D!Rosters
    <3>3. teams \in [P \cup Q -> D!Teams]
      BY <3>1, <3>2
    <3> QED BY <3>3 DEF D!Rosters
  <2>4. new \in D!Matches
    BY <2>3 DEF D!Matches
  <2>5. D!Recorded(winner, incomplete) = [history EXCEPT ![game.guid] = new]
    BY <1>2 DEF D!Recorded
  <2> HIDE DEF new
  <2> QED BY <2>1, <2>4, <2>5
<1> QED BY <1>1, <1>2

LEMMA PostKeepsType ==
  ASSUME D!TypeOK, NEW e \in Games \cup {D!NoMatch}, D!Post(e)
  PROVE  events' \in Seq(Games \cup {D!NoMatch}) /\ Len(events') <= QueueSize
<1>1. events \in Seq(Games \cup {D!NoMatch}) /\ Len(events) <= QueueSize /\ QueueSize \in Nat
  BY DejaVuAssumed DEF D!TypeOK
<1>2. events' = IF Len(events) < QueueSize THEN Append(events, e) ELSE events
  BY DEF D!Post
<1> QED BY <1>1, <1>2

\* A step of the host: the answer is gone, and the history differs in the row
\* of the match that is left, if at all.
LEMMA HostStepsKeepAnswers ==
  ASSUME DejaInv, D!TypeOK', answer' = D!NoAnswer, UNCHANGED cache,
         \/ stayed' = FALSE
         \/ stayed' = stayed /\ game'.guid \in {game.guid, NoGuid}
            /\ (\A g \in Guids \ {game.guid} : history'[g] = history[g])
            /\ (game.guid = NoGuid => history' = history)
  PROVE  DejaInv'
<1>1. AnswersAreFresh'
  BY NoMatchIsNone DEF AnswersAreFresh, D!AnswersAreFresh
<1>2. CASE ~stayed'
  BY <1>1, <1>2 DEF DejaInv, Stays, KeptIsRight
<1>3. CASE stayed /\ stayed' = stayed /\ game'.guid \in {game.guid, NoGuid}
           /\ (\A g \in Guids \ {game.guid} : history'[g] = history[g])
           /\ (game.guid = NoGuid => history' = history)
  <2>1. cache.ready => \A g \in Guids \ {cache.key[1]} : history'[g] = history[g]
    BY <1>3 DEF DejaInv, Stays
  <2>2. cache.ready =>
          \A selected, t, side, result :
            D!CountOf(selected, cache.key[1], t, side, result)' =
              D!CountOf(selected, cache.key[1], t, side, result)
    <3> SUFFICES ASSUME cache.ready, NEW selected, NEW t, NEW side, NEW result
                 PROVE  D!CountOf(selected, cache.key[1], t, side, result)' =
                          D!CountOf(selected, cache.key[1], t, side, result)
      OBVIOUS
    <3> DEFINE guid == cache.key[1]
    <3>1. \A g \in Guids \ {guid} : history'[g] = history[g]
      BY <2>1
    <3>2. guid' = guid
      OBVIOUS
    <3> HIDE DEF guid
    <3> QED BY <3>1, <3>2, OtherMatchesCount DEF guid
  <2>3. Stays'
    BY <1>3 DEF DejaInv, Stays
  <2>4. KeptIsRight'
    BY <1>3, <2>2 DEF DejaInv, KeptIsRight, D!Sides, D!Results
  <2> QED BY <1>1, <2>3, <2>4 DEF DejaInv
<1>4. CASE stayed'
  <2>1. stayed' # FALSE
    BY <1>4
  <2>2. stayed' = stayed
    BY <2>1
  <2>3. stayed
    BY <1>4, <2>2
  <2>4. /\ game'.guid \in {game.guid, NoGuid}
        /\ \A g \in Guids \ {game.guid} : history'[g] = history[g]
        /\ game.guid = NoGuid => history' = history
    BY <2>1
  <2> QED BY <1>3, <2>2, <2>3, <2>4
<1> QED BY <1>2, <1>4

LEMMA StateUpdatedKeeps ==
  ASSUME DejaInv, NEW m \in Games, D!StateUpdated(m)
  PROVE  DejaInv'
<1>1. game' = m /\ answer' = D!NoAnswer /\ UNCHANGED <<state, cache>> /\ D!Post(m)
      /\ history' = (IF m.guid = game.guid THEN history ELSE D!Recorded(-1, TRUE))
      /\ stayed' = (stayed /\ m.guid = game.guid)
  BY DEF D!StateUpdated
<1>2. history' \in [Guids -> D!Matches]
  <2>1. -1 \in {-1, 0, 1} /\ TRUE \in BOOLEAN
    OBVIOUS
  <2> QED BY <1>1, <2>1, RecordedIsHistory DEF DejaInv, D!TypeOK
<1>3. events' \in Seq(Games \cup {D!NoMatch}) /\ Len(events') <= QueueSize
  BY <1>1, PostKeepsType DEF DejaInv
<1>4. stayed' \in BOOLEAN
  BY <1>1
<1>5. D!TypeOK'
  BY <1>1, <1>2, <1>3, <1>4 DEF DejaInv, D!TypeOK, D!NoCache, D!NoMatch, D!In, D!Matches, D!Rosters, D!Teams
<1>6. CASE m.guid = game.guid
  <2>1. stayed' = stayed /\ history' = history /\ game'.guid = game.guid
    BY <1>1, <1>6 DEF DejaInv, D!TypeOK
  <2> QED BY <1>1, <1>5, <2>1, HostStepsKeepAnswers
<1>7. CASE m.guid # game.guid
  <2>1. stayed' = FALSE
    BY <1>1, <1>7
  <2> QED BY <1>1, <1>5, <2>1, HostStepsKeepAnswers
<1> QED BY <1>6, <1>7

LEMMA MatchEndsKeeps ==
  ASSUME DejaInv, D!MatchEnds
  PROVE  DejaInv'
<1>1. game # D!NoMatch /\ game' = D!NoMatch /\ answer' = D!NoAnswer
      /\ UNCHANGED <<state, cache, stayed>> /\ D!Post(D!NoMatch)
  BY DEF D!MatchEnds
<1>2. PICK winner \in {-1, 0, 1}, incomplete \in BOOLEAN : history' = D!Recorded(winner, incomplete)
  BY DEF D!MatchEnds
<1>3. /\ history' \in [Guids -> D!Matches]
      /\ \A g \in Guids \ {game.guid} : history'[g] = history[g]
  BY <1>2, RecordedIsHistory DEF DejaInv
<1>4. events' \in Seq(Games \cup {D!NoMatch}) /\ Len(events') <= QueueSize
  BY <1>1, PostKeepsType DEF DejaInv
<1>5. D!TypeOK'
  BY <1>1, <1>3, <1>4 DEF DejaInv, D!TypeOK, D!NoCache, D!NoMatch, D!In, D!Matches, D!Rosters, D!Teams
<1>6. game.guid # NoGuid /\ game'.guid = NoGuid
  BY <1>1, NoMatchIsNone, DejaVuAssumed DEF DejaInv, D!TypeOK
<1> QED BY <1>1, <1>3, <1>5, <1>6, HostStepsKeepAnswers

LEMMA OnEventKeeps ==
  ASSUME DejaInv, D!OnEvent
  PROVE  DejaInv'
<1>1. events # <<>> /\ events' = Tail(events) /\ state' \in {Head(events), D!NoMatch}
      /\ cache' = (IF state' = D!NoMatch THEN D!NoCache ELSE cache)
      /\ answer' = D!NoAnswer /\ UNCHANGED <<game, history, stayed>>
  BY DEF D!OnEvent
<1>2. events \in Seq(Games \cup {D!NoMatch}) /\ Len(events) <= QueueSize /\ QueueSize \in Nat
  BY DejaVuAssumed DEF DejaInv, D!TypeOK
<1>3. events' \in Seq(Games \cup {D!NoMatch}) /\ Len(events') <= QueueSize
      /\ state' \in Games \cup {D!NoMatch}
  BY <1>1, <1>2
<1>4. D!TypeOK'
  BY <1>1, <1>3 DEF DejaInv, D!TypeOK, D!NoCache, D!NoMatch, D!In, D!Matches, D!Rosters, D!Teams
<1>5. AnswersAreFresh'
  BY <1>1, NoMatchIsNone DEF AnswersAreFresh, D!AnswersAreFresh
<1>6. CASE cache' = cache
  <2>1. Stays'
    BY <1>1, <1>6 DEF DejaInv, Stays
  <2>2. KeptIsRight'
    BY <1>1, <1>6, SameHistoryCounts DEF DejaInv, KeptIsRight, D!Sides, D!Results
  <2> QED BY <1>4, <1>5, <2>1, <2>2 DEF DejaInv
<1>7. CASE cache' = D!NoCache
  <2>1. cache'.ready = FALSE
    BY <1>7, NoMatchIsNone
  <2> QED BY <1>4, <1>5, <2>1 DEF DejaInv, Stays, KeptIsRight
<1> QED BY <1>1, <1>6, <1>7

LEMMA RefusalKeeps ==
  ASSUME DejaInv, NEW p \in Players, D!Refuse(p)
  PROVE  DejaInv'
<1>1. D!Refused(p) # "no" /\ answer'.status = D!Refused(p)
      /\ UNCHANGED <<game, history, events, state, cache, stayed>>
  BY DEF D!Refuse, D!Answer
<1>2. D!TypeOK'
  BY <1>1 DEF DejaInv, D!TypeOK, D!NoCache, D!NoMatch, D!In, D!Matches, D!Rosters, D!Teams
<1>3. D!Refused(p) \in {"no_active_match", "selected_not_in_roster", "selected_no_stable_id",
                        "selected_team_unclassified", "no"}
  BY DEF D!Refused
<1>4. answer'.status # "ok"
  BY <1>1, <1>3
<1>5. Stays' /\ KeptIsRight'
  BY <1>1, SameHistoryCounts DEF DejaInv, Stays, KeptIsRight, D!Sides, D!Results
<1> QED BY <1>2, <1>4, <1>5 DEF DejaInv, AnswersAreFresh, D!AnswersAreFresh

\* What a recall finds in the cache or in the database.
LEMMA RecallFinds ==
  ASSUME DejaInv, NEW p \in Players, NEW retry \in BOOLEAN, NEW fails \in BOOLEAN,
         D!Recall(p, retry, fails)
  PROVE  /\ state \in Games /\ D!Targets(p) \in SUBSET Players
         /\ cache'.ready /\ cache'.error \in BOOLEAN
         /\ cache'.key = <<state.guid, p, D!Targets(p)>>
         /\ answer'.status = D!Status(cache'.error) /\ answer'.guid = state.guid
         /\ answer'.selected = {p} /\ answer'.aggs = cache'.aggs /\ answer'.retry = retry
         /\ UNCHANGED <<game, history, events, state>>
         /\ \/ /\ cache' = cache /\ stayed' = stayed /\ D!Holds(cache, p)
               /\ ~(retry /\ cache.error)
            \/ /\ ~(D!Holds(cache, p) /\ ~cache.error)
               /\ stayed' = (game.guid = state.guid) /\ cache' = D!Query(p, fails)
               /\ (cache'.error => fails) /\ answer'.failed = fails
<1> DEFINE kept == D!Invalidate(p, retry)
           hit == D!Holds(kept, p)
           found == IF hit THEN kept ELSE D!Query(p, fails)
<1>1. /\ D!Refused(p) = "no" /\ cache' = found
      /\ stayed' = (IF hit THEN stayed ELSE game.guid = state.guid)
      /\ answer' = D!Answer(D!Status(found.error), p, found.aggs, retry, fails /\ ~hit)
      /\ UNCHANGED <<game, history, events, state>>
  BY DEF D!Recall
<1>2. state \in Games /\ D!Targets(p) \in SUBSET Players
  <2>1. state # D!NoMatch
    BY <1>1 DEF D!Refused
  <2>2. state \in Games /\ state.roster \in D!Rosters
    BY <2>1, NoMatchIsNone DEF DejaInv, D!TypeOK
  <2>3. DOMAIN state.roster \subseteq Players
    BY <2>2 DEF D!Rosters
  <2> QED BY <2>2, <2>3 DEF D!Targets
<1>3. cache.ready => cache # D!NoCache /\ cache.error \in BOOLEAN
  BY NoMatchIsNone DEF DejaInv, D!TypeOK
<1>4. hit => kept = cache /\ D!Holds(cache, p) /\ ~(retry /\ cache.error)
  <2> SUFFICES ASSUME hit PROVE kept = cache /\ D!Holds(cache, p) /\ ~(retry /\ cache.error)
    OBVIOUS
  <2>1. kept # D!NoCache
    BY NoMatchIsNone DEF D!Holds
  <2> QED BY <2>1 DEF D!Invalidate
<1>5. ~hit => ~(D!Holds(cache, p) /\ ~cache.error)
  BY DEF D!Invalidate
<1>6. D!Query(p, fails).ready /\ D!Query(p, fails).key = <<state.guid, p, D!Targets(p)>>
      /\ D!Query(p, fails).error = (fails /\ D!Targets(p) # {})
  BY DEF D!Query, D!HistoryKey
<1>7. hit => cache.ready /\ cache.key = <<state.guid, p, D!Targets(p)>>
  BY <1>4 DEF D!Holds, D!HistoryKey
<1>8. /\ answer'.status = D!Status(found.error) /\ answer'.guid = state.guid
      /\ answer'.selected = {p} /\ answer'.aggs = found.aggs /\ answer'.retry = retry
      /\ answer'.failed = (fails /\ ~hit)
  BY <1>1 DEF D!Answer
<1> HIDE DEF kept, hit
<1>9. CASE hit
  BY <1>1, <1>2, <1>3, <1>4, <1>7, <1>8, <1>9
<1>10. CASE ~hit
  BY <1>1, <1>2, <1>5, <1>6, <1>8, <1>10
<1> QED BY <1>9, <1>10

LEMMA RecallKeeps ==
  ASSUME DejaInv, NEW p \in Players, NEW retry \in BOOLEAN, NEW fails \in BOOLEAN,
         D!Recall(p, retry, fails)
  PROVE  DejaInv'
<1> DEFINE targets == D!Targets(p)
<1>1. /\ state \in Games /\ targets \in SUBSET Players
      /\ cache'.ready /\ cache'.error \in BOOLEAN
      /\ cache'.key = <<state.guid, p, targets>>
      /\ answer'.status = D!Status(cache'.error) /\ answer'.guid = state.guid
      /\ answer'.selected = {p} /\ answer'.aggs = cache'.aggs
      /\ UNCHANGED <<game, history, events, state>>
      /\ \/ cache' = cache /\ stayed' = stayed
         \/ stayed' = (game.guid = state.guid) /\ cache' = D!Query(p, fails)
  BY RecallFinds
<1>2. state.guid \in Guids
  BY <1>1, NoMatchIsNone
<1>3. D!TypeOK'
  <2>1. cache'.key \in Guids \X Players \X SUBSET Players
    BY <1>1, <1>2
  <2>2. stayed' \in BOOLEAN
    BY <1>1 DEF DejaInv, D!TypeOK
  <2> QED BY <1>1, <2>1, <2>2 DEF DejaInv, D!TypeOK, D!NoCache, D!NoMatch, D!In, D!Matches, D!Rosters, D!Teams
<1>4. Stays' /\ KeptIsRight'
  <2>1. CASE cache' = cache /\ stayed' = stayed
    BY <1>1, <2>1, SameHistoryCounts DEF DejaInv, Stays, KeptIsRight, D!Sides, D!Results
  <2>2. CASE stayed' = (game.guid = state.guid) /\ cache' = D!Query(p, fails)
    <3>1. Stays'
      <4>1. stayed' => game'.guid = cache'.key[1]
        <5>1. stayed' => game.guid = state.guid
          BY <2>2, Zenon
        <5> QED BY <1>1, <5>1
      <4>2. Stays' <=> (stayed' /\ cache'.ready => game'.guid \in {cache'.key[1], NoGuid})
        BY DEF Stays
      <4> QED BY <4>1, <4>2
    <3>2. ASSUME ~cache'.error
          PROVE  /\ DOMAIN cache'.aggs = targets
                 /\ \A t \in targets, side \in D!Sides, result \in D!Results :
                      cache'.aggs[t][side][result] = D!CountOf(p, state.guid, t, side, result)
      <4>1. cache'.aggs = D!Aggregates(p, state.guid, targets)
        BY <2>2, <3>2 DEF D!Query
      <4>2. history \in [Guids -> D!Matches]
        BY DEF DejaInv, D!TypeOK
      <4> HIDE DEF targets
      <4> QED BY <1>1, <4>1, <4>2, QueriesAreRight
    <3>3. KeptIsRight'
      <4> HIDE DEF targets
      <4> QED BY <1>1, <3>2, SameHistoryCounts DEF KeptIsRight, D!Sides, D!Results
    <3> QED BY <3>1, <3>3
  <2> QED BY <1>1, <2>1, <2>2
<1>5. AnswersAreFresh'
  <2> SUFFICES ASSUME answer'.status = "ok", stayed', NEW selected \in answer'.selected
               PROVE  /\ DOMAIN answer'.aggs = D!Targets(selected)'
                      /\ \A t \in D!Targets(selected)', side \in D!Sides, result \in D!Results :
                           answer'.aggs[t][side][result] =
                             D!CountOf(selected, answer.guid, t, side, result)'
    BY DEF AnswersAreFresh, D!AnswersAreFresh, D!Sides, D!Results
  <2>1. ~cache'.error /\ selected = p
    BY <1>1 DEF D!Status
  <2>2. D!Targets(selected)' = targets
    BY <1>1, <2>1 DEF D!Targets
  <2>3. \A t, side, result :
          D!CountOf(selected, answer.guid, t, side, result)' =
            D!CountOf(p, state.guid, t, side, result)
    BY <1>1, <2>1 DEF D!CountOf
  <2>4. /\ DOMAIN cache'.aggs = targets
        /\ \A t \in targets, side \in D!Sides, result \in D!Results :
             cache'.aggs[t][side][result] = D!CountOf(p, state.guid, t, side, result)
    <3> HIDE DEF targets
    <3> QED BY <1>1, <1>4, <2>1, SameHistoryCounts DEF KeptIsRight, D!Sides, D!Results
  <2> HIDE DEF targets
  <2> QED BY <1>1, <2>2, <2>3, <2>4
<1> QED BY <1>3, <1>4, <1>5 DEF DejaInv

LEMMA DejaStep == DejaInv /\ D!Next => DejaInv'
BY StateUpdatedKeeps, MatchEndsKeeps, OnEventKeeps, RefusalKeeps, RecallKeeps DEF D!Next

LEMMA DejaStutters == DejaInv /\ UNCHANGED dejavuVars => DejaInv'
<1> SUFFICES ASSUME DejaInv, UNCHANGED dejavuVars PROVE DejaInv'
  OBVIOUS
<1>1. UNCHANGED <<game, history, events, state, cache, answer, stayed>>
  BY DEF dejavuVars
<1>2. D!TypeOK'
  BY <1>1 DEF DejaInv, D!TypeOK, D!NoCache, D!NoMatch, D!In, D!Matches, D!Rosters, D!Teams
<1>3. Stays' /\ KeptIsRight'
  BY <1>1, SameHistoryCounts DEF DejaInv, Stays, KeptIsRight, D!Sides, D!Results
<1>4. AnswersAreFresh'
  BY <1>1, SameHistoryCounts DEF DejaInv, AnswersAreFresh, D!AnswersAreFresh, D!Targets, D!Sides, D!Results
<1> QED BY <1>2, <1>3, <1>4 DEF DejaInv

LEMMA DejaAlways == GuestsSpec => []DejaInv
<1>1. GuestsInit => DejaInv
  BY DejaInitially DEF GuestsInit
<1>2. DejaInv /\ [GuestsNext]_guestVars => DejaInv'
  BY DejaStep, DejaStutters DEF GuestsNext, SessionSteps, DejaVuSteps, BallchasingSteps, guestVars
<1> QED BY <1>1, <1>2, PTL DEF GuestsSpec

\* For any matches, rosters and history, and whatever is queued, dropped or
\* recorded again: the counts of an answer, kept or queried, are those of the
\* history.
THEOREM KeptAnswersAreFresh == GuestsSpec => []AnswersAreFresh
<1>1. DejaInv => AnswersAreFresh
  BY DEF DejaInv
<1> QED BY <1>1, DejaAlways, PTL

\* The step that answers with an error made the query that failed, or kept one
\* it was not told to retry.
LEMMA ErrorSteps ==
  DejaInv /\ [D!Next]_dejavuVars =>
    [\A selected \in answer'.selected :
       answer'.status = "history_error" =>
         /\ answer'.retry => answer'.failed
         /\ ~(D!Holds(cache, selected) /\ ~cache.error)]_D!dejavuVars
<1> SUFFICES ASSUME DejaInv, D!Next, NEW selected \in answer'.selected,
                    answer'.status = "history_error"
             PROVE  /\ answer'.retry => answer'.failed
                    /\ ~(D!Holds(cache, selected) /\ ~cache.error)
  BY DEF dejavuVars, D!dejavuVars
<1>1. CASE answer' = D!NoAnswer
  BY <1>1, NoMatchIsNone
<1>2. ASSUME NEW p \in Players, D!Refuse(p) PROVE FALSE
  <2>1. answer'.status = D!Refused(p)
    BY <1>2 DEF D!Refuse, D!Answer
  <2>2. D!Refused(p) # "history_error"
    BY DEF D!Refused
  <2> QED BY <2>1, <2>2
<1>3. ASSUME NEW p \in Players, NEW retry \in BOOLEAN, NEW fails \in BOOLEAN, D!Recall(p, retry, fails)
      PROVE  /\ answer'.retry => answer'.failed
             /\ ~(D!Holds(cache, selected) /\ ~cache.error)
  <2>1. /\ answer'.status = D!Status(cache'.error) /\ answer'.selected = {p}
        /\ answer'.retry = retry /\ cache'.error \in BOOLEAN
        /\ \/ cache' = cache /\ ~(retry /\ cache.error)
           \/ /\ ~(D!Holds(cache, p) /\ ~cache.error)
              /\ (cache'.error => fails) /\ answer'.failed = fails
    BY <1>3, RecallFinds
  <2>2. cache'.error /\ selected = p
    BY <2>1 DEF D!Status
  <2> QED BY <2>1, <2>2
<1> QED BY <1>1, <1>2, <1>3 DEF D!Next, D!StateUpdated, D!MatchEnds, D!OnEvent

\* The first and only recalls that meet an error, for any players and retries.
THEOREM RetriesAskAgain == GuestsSpec => ErrorsAreRetried
<1>1. [GuestsNext]_guestVars => [D!Next]_dejavuVars
  BY DEF GuestsNext, SessionSteps, DejaVuSteps, BallchasingSteps, guestVars
<1> QED BY <1>1, DejaAlways, ErrorSteps, PTL DEF GuestsSpec, ErrorsAreRetried, D!ErrorsAreRetried

-----------------------------------------------------------------------------
(* Types                                                                   *)

\* What the three guests keep has its type in every state.
THEOREM GuestsAreTyped == GuestsSpec => []GuestsTypes
<1>1. SessionInv /\ DejaInv /\ BcInv => GuestsTypes
  BY DEF SessionInv, DejaInv, BcInv, GuestsTypes
<1> QED BY <1>1, SessionAlways, DejaAlways, BcAlways, PTL
=============================================================================
