------------------------------ MODULE PartsProofs ------------------------------
(***************************************************************************)
(* The theorems about the parts that run on their own, for every value of  *)
(* their constants and bounds: one section for each, with the invariant of *)
(* that part, and at the end MCSpec, where they are put together and what  *)
(* the run of MCParts checks is stated.                                    *)
(***************************************************************************)
EXTENDS MCParts, FiniteSetTheorems, SequenceTheorems, WellFoundedInduction, TLAPS

(***************************************************************************)
(* Numbers and sets                                                        *)
(***************************************************************************)

\* Smaller is well-founded on the naturals.
Smaller == {pair \in Nat \X Nat : pair[1] < pair[2]}

\* A set of naturals has a least member.
LEMMA LeastNatural ==
  ASSUME NEW S, S \subseteq Nat, S # {}
  PROVE  \E least \in S : \A n \in S : least <= n
<1>1. IsWellFoundedOn(Smaller, Nat)
  <2>1. Smaller = OpToRel(<, Nat)
    BY Zenon DEF Smaller, OpToRel
  <2> QED
    BY <2>1, NatLessThanWellFounded
<1>2. PICK least \in S : \A n \in S : ~ (<<n, least>> \in Smaller)
  BY <1>1, WFMin
<1>3. ASSUME NEW n \in S
      PROVE  least <= n
  <2>1. least \in Nat /\ n \in Nat
    OBVIOUS
  <2>2. n < least => <<n, least>> \in Smaller
    BY Zenon, <2>1 DEF Smaller
  <2> QED
    BY <1>2, <2>1, <2>2
<1> QED
  BY <1>3

\* A bounded one has a greatest.
LEMMA GreatestNatural ==
  ASSUME NEW bound \in Nat, NEW S, S \subseteq 0 .. bound, S # {}
  PROVE  \E most \in S : \A n \in S : n <= most
<1> DEFINE T == {bound - n : n \in S}
<1>1. T \subseteq Nat /\ T # {}
  OBVIOUS
<1>2. PICK least \in T : \A n \in T : least <= n
  BY <1>1, LeastNatural
<1>3. PICK most \in S : least = bound - most
  OBVIOUS
<1>4. \A n \in S : bound - n \in T
  OBVIOUS
<1>5. ASSUME NEW n \in S
      PROVE  n <= most
  <2>1. least <= bound - n
    BY <1>2, <1>4
  <2> QED
    BY <1>3, <2>1
<1> QED
  BY <1>5

\* A set with one member at most.
LEMMA OneMember ==
  ASSUME NEW S, \A g, h \in S : g = h
  PROVE  IsFiniteSet(S) /\ Cardinality(S) <= 1
<1>1. CASE S = {}
  BY <1>1, FS_EmptySet
<1>2. CASE S # {}
  <2>1. PICK g \in S : TRUE
    BY <1>2
  <2>2. S = {g}
    BY <2>1
  <2>3. IsFiniteSet({g}) /\ Cardinality({g}) = 1
    BY FS_Singleton
  <2> QED
    BY <2>2, <2>3
<1> QED
  BY <1>1, <1>2

\* Of finite sets, one has the fewest members.
LEMMA LeastSet ==
  ASSUME NEW F, F # {}, \A S \in F : IsFiniteSet(S)
  PROVE  \E S \in F : \A T \in F : Cardinality(S) <= Cardinality(T)
<1> DEFINE sizes == {Cardinality(S) : S \in F}
<1>1. sizes \subseteq Nat /\ sizes # {}
  BY FS_CardinalityType
<1>2. \A T \in F : Cardinality(T) \in sizes
  OBVIOUS
<1>3. \A n \in sizes : \E S \in F : n = Cardinality(S)
  OBVIOUS
<1> HIDE DEF sizes
<1>4. PICK least \in sizes : \A n \in sizes : least <= n
  BY <1>1, LeastNatural
<1>5. PICK S \in F : least = Cardinality(S)
  BY <1>3
<1> QED
  BY <1>2, <1>4, <1>5

(***************************************************************************)
(* The reported usage of a summary                                         *)
(***************************************************************************)

\* What is known of the usage of a set of records: the sum of it, one record after another.
Known(S) == MapThenSumSet(LAMBDA r : r.usage, S)
Pick(S) == CHOOSE r \in S : TRUE
Adding(t, S) == IF S = {} THEN 0 ELSE Pick(S).usage + t[S \ {Pick(S)}]
Adds(t, S) == t = [set \in SUBSET S |-> Adding(t, set)]

\* A set without the record that is picked has one member less.
LEMMA OneLess ==
  ASSUME NEW S, IsFiniteSet(S), NEW r \in S
  PROVE  /\ IsFiniteSet(S \ {r}) /\ Cardinality(S \ {r}) = Cardinality(S) - 1
         /\ Cardinality(S) \in Nat \ {0} /\ Cardinality(S \ {r}) < Cardinality(S)
<1>1. IsFiniteSet(S \ {r}) /\ Cardinality(S \ {r}) = Cardinality(S) - 1
  BY FS_RemoveElement
<1>2. Cardinality(S) \in Nat /\ Cardinality(S \ {r}) \in Nat
  BY <1>1, FS_CardinalityType
<1> QED
  BY <1>1, <1>2

\* There is a function that adds: by the number of records it is defined for.
LEMMA AddsExists ==
  ASSUME NEW S, IsFiniteSet(S)
  PROVE  \E t : Adds(t, S)
<1> DEFINE Upto(m) == {set \in SUBSET S : Cardinality(set) <= m}
           Exists(m) == \E t : t = [set \in Upto(m) |-> Adding(t, set)]
           Without == {m \in Nat : ~ Exists(m)}
<1>1. \A set \in SUBSET S : /\ IsFiniteSet(set) /\ Cardinality(set) \in Nat
                            /\ Cardinality(set) <= Cardinality(S)
                            /\ Cardinality(set) = 0 <=> set = {}
  BY FS_Subset, FS_CardinalityType, FS_EmptySet
<1>2. Without = {}
  <2> SUFFICES ASSUME Without # {}
               PROVE  FALSE
    OBVIOUS
  <2>1. PICK least \in Without : \A m \in Without : least <= m
    <3>1. Without \subseteq Nat
      OBVIOUS
    <3> HIDE DEF Without
    <3> QED
      BY <3>1, LeastNatural
  <2>2. least \in Nat /\ ~ Exists(least)
    BY <2>1
  <2>3. CASE least = 0
    <3> DEFINE t == [set \in Upto(0) |-> 0]
    <3>1. \A set \in Upto(0) : Adding(t, set) = 0
      BY <1>1 DEF Adding
    <3>2. t = [set \in Upto(0) |-> Adding(t, set)]
      BY <3>1
    <3> QED
      BY <2>2, <2>3, <3>2
  <2>4. CASE least # 0
    <3>1. least - 1 \in Nat /\ ~ (least <= least - 1)
      BY <2>2, <2>4
    <3>2. PICK t : t = [set \in Upto(least - 1) |-> Adding(t, set)]
      BY <2>1, <3>1
    <3> DEFINE u == [set \in Upto(least) |-> IF Cardinality(set) = least THEN Adding(t, set)
                                                                       ELSE t[set]]
    <3>3. ASSUME NEW set \in Upto(least)
          PROVE  u[set] = Adding(u, set)
      <4>1. u[set] = Adding(t, set)
        <5>1. CASE Cardinality(set) = least
          BY <5>1
        <5>2. CASE Cardinality(set) # least
          <6>1. Cardinality(set) <= least - 1
            BY <1>1, <2>2, <5>2
          <6>2. set \in Upto(least - 1)
            BY <6>1
          <6> QED
            BY <3>2, <5>2, <6>2
        <5> QED
          BY <5>1, <5>2
      <4>2. CASE set = {}
        BY <4>1, <4>2 DEF Adding
      <4>3. CASE set # {}
        <5> DEFINE rest == set \ {Pick(set)}
        <5>1. Pick(set) \in set /\ set \in SUBSET S /\ IsFiniteSet(set)
          BY <1>1, <4>3 DEF Pick
        <5>2. Cardinality(rest) < Cardinality(set) /\ rest \in SUBSET S
          BY <5>1, OneLess
        <5>3. Cardinality(rest) <= least /\ Cardinality(rest) # least
          BY <1>1, <2>2, <5>1, <5>2
        <5>4. u[rest] = t[rest]
          BY <5>2, <5>3
        <5> QED
          BY <4>1, <4>3, <5>4, Zenon DEF Adding
      <4> QED
        BY <4>2, <4>3
    <3>4. u = [set \in Upto(least) |-> Adding(u, set)]
      BY <3>3
    <3> QED
      BY <2>2, <3>4
  <2> QED
    BY <2>3, <2>4
<1>3. Upto(Cardinality(S)) = SUBSET S /\ Cardinality(S) \in Nat
  BY <1>1
<1>4. Exists(Cardinality(S))
  BY <1>2, <1>3
<1> QED
  BY <1>3, <1>4, Zenon DEF Adds

\* All of them agree.
LEMMA AddsAgree ==
  ASSUME NEW S, IsFiniteSet(S), NEW T, IsFiniteSet(T), NEW t, Adds(t, S), NEW u, Adds(u, T),
         NEW set \in (SUBSET S) \cap (SUBSET T)
  PROVE  t[set] = u[set]
<1> DEFINE Differ == {g \in (SUBSET S) \cap (SUBSET T) : t[g] # u[g]}
<1> SUFFICES ASSUME Differ # {}
             PROVE  FALSE
  OBVIOUS
<1>1. \A g \in Differ : IsFiniteSet(g)
  BY FS_Subset
<1>2. PICK g \in Differ : \A h \in Differ : Cardinality(g) <= Cardinality(h)
  BY <1>1, LeastSet
<1>3. t[g] = Adding(t, g) /\ u[g] = Adding(u, g)
  BY DEF Adds
<1>4. g # {}
  BY <1>3 DEF Adding
<1> DEFINE rest == g \ {Pick(g)}
<1>5. Pick(g) \in g
  BY <1>4 DEF Pick
<1>6. Cardinality(rest) < Cardinality(g) /\ Cardinality(g) \in Nat /\ Cardinality(rest) \in Nat
  BY <1>1, <1>5, OneLess, FS_CardinalityType
<1>7. rest \notin Differ
  BY <1>2, <1>6
<1>8. t[rest] = u[rest]
  BY <1>7
<1> QED
  BY <1>3, <1>8, Zenon DEF Adding

\* What is known of no record is nothing, and of others the usage of one and of the rest.
LEMMA KnownUnfolds ==
  ASSUME NEW S, IsFiniteSet(S)
  PROVE  /\ S = {} => Known(S) = 0
         /\ S # {} => /\ Pick(S) \in S
                      /\ Known(S) = Pick(S).usage + Known(S \ {Pick(S)})
<1> DEFINE Of(set) == CHOOSE t : Adds(t, set)
<1>1. \A set : Known(set) = Of(set)[set]
  BY Zenon DEF Known, MapThenSumSet, MapThenFoldSet, Adds, Adding, Pick
<1>2. Adds(Of(S), S)
  BY AddsExists, Zenon
<1>3. Known(S) = Adding(Of(S), S)
  <2>1. Of(S)[S] = Adding(Of(S), S)
    BY <1>2 DEF Adds
  <2> QED
    BY <1>1, <2>1
<1>4. CASE S = {}
  BY <1>3, <1>4 DEF Adding
<1>5. CASE S # {}
  <2> DEFINE rest == S \ {Pick(S)}
  <2>1. Pick(S) \in S
    BY <1>5 DEF Pick
  <2>2. IsFiniteSet(rest) /\ rest \in (SUBSET S) \cap (SUBSET rest)
    BY <2>1, OneLess
  <2>3. Adds(Of(rest), rest)
    BY <2>2, AddsExists, Zenon
  <2> HIDE DEF Of
  <2>4. Of(S)[rest] = Of(rest)[rest]
    BY <1>2, <2>2, <2>3, AddsAgree
  <2> QED
    BY <1>1, <1>3, <1>5, <2>1, <2>4, Zenon DEF Adding
<1> QED
  BY <1>4, <1>5

Reporting(S) == IsFiniteSet(S) /\ \A r \in S : r.usage \in Nat

\* Every record counts as it counts when it is the one that is picked.
LEMMA KnownOfOne ==
  ASSUME NEW U, Reporting(U)
  PROVE  \A S \in SUBSET U : /\ Known(S) \in Nat
                            /\ \A r \in S : Known(S) = r.usage + Known(S \ {r})
<1> DEFINE Good(S) == Known(S) \in Nat /\ \A r \in S : Known(S) = r.usage + Known(S \ {r})
           Bad == {S \in SUBSET U : ~ Good(S)}
<1> SUFFICES ASSUME Bad # {}
             PROVE  FALSE
  OBVIOUS
<1>1. \A S \in SUBSET U : IsFiniteSet(S) /\ \A r \in S : r.usage \in Nat
  BY FS_Subset DEF Reporting
<1>2. PICK S \in Bad : \A T \in Bad : Cardinality(S) <= Cardinality(T)
  BY <1>1, LeastSet
<1>3. S \in SUBSET U /\ ~ Good(S) /\ IsFiniteSet(S)
  BY <1>1, <1>2
<1>4. ASSUME NEW r \in S
      PROVE  Good(S \ {r})
  <2>1. /\ Cardinality(S \ {r}) < Cardinality(S)
        /\ Cardinality(S \ {r}) \in Nat /\ Cardinality(S) \in Nat
    BY <1>3, OneLess, FS_CardinalityType
  <2>2. S \ {r} \notin Bad
    <3>1. ~ (Cardinality(S) <= Cardinality(S \ {r}))
      BY <2>1
    <3> QED
      BY <1>2, <3>1, Zenon
  <2> HIDE DEF Good
  <2> QED
    BY <1>3, <2>2
<1>5. CASE S = {}
  BY <1>3, <1>5, KnownUnfolds
<1>6. CASE S # {}
  <2> DEFINE c == Pick(S)
  <2>1. c \in S /\ Known(S) = c.usage + Known(S \ {c})
    BY <1>3, <1>6, KnownUnfolds
  <2> HIDE DEF c
  <2>2. c.usage \in Nat /\ Known(S \ {c}) \in Nat
    BY <1>1, <1>3, <1>4, <2>1
  <2>3. ASSUME NEW r \in S
        PROVE  Known(S) = r.usage + Known(S \ {r})
    <3>1. CASE r = c
      BY <2>1, <3>1
    <3>2. CASE r # c
      <4>1. Known(S \ {c}) = r.usage + Known((S \ {c}) \ {r})
        BY <1>4, <2>1, <3>2
      <4>2. Known(S \ {r}) = c.usage + Known((S \ {r}) \ {c})
        BY <1>4, <2>1, <3>2
      <4>3. (S \ {c}) \ {r} = (S \ {r}) \ {c}
        OBVIOUS
      <4>4. r.usage \in Nat /\ Known((S \ {r}) \ {c}) \in Nat
        <5>1. r.usage \in Nat
          BY <1>1, <1>3
        <5>2. IsFiniteSet((S \ {r}) \ {c}) /\ (S \ {r}) \ {c} \in SUBSET U
          BY <1>1, <1>3
        <5>3. Cardinality((S \ {r}) \ {c}) < Cardinality(S)
          <6>1. /\ Cardinality(S \ {r}) < Cardinality(S) /\ IsFiniteSet(S \ {r})
            BY <1>3, OneLess
          <6>2. Cardinality((S \ {r}) \ {c}) < Cardinality(S \ {r})
            BY <2>1, <3>2, <6>1, OneLess
          <6>3. /\ Cardinality(S \ {r}) \in Nat /\ Cardinality((S \ {r}) \ {c}) \in Nat
                /\ Cardinality(S) \in Nat
            BY <1>3, <5>2, <6>1, FS_CardinalityType
          <6> QED
            BY <6>1, <6>2, <6>3
        <5>4. Cardinality(S) \in Nat /\ Cardinality((S \ {r}) \ {c}) \in Nat
          BY <1>3, <5>2, FS_CardinalityType
        <5>5. (S \ {r}) \ {c} \notin Bad
          <6>1. ~ (Cardinality(S) <= Cardinality((S \ {r}) \ {c}))
            BY <5>3, <5>4
          <6> QED
            BY <1>2, <6>1, Zenon
        <5> QED
          BY <5>1, <5>2, <5>5
      <4>5. Known(S \ {c}) = r.usage + Known((S \ {r}) \ {c})
        BY <4>1, <4>3
      <4> DEFINE i == c.usage
                 j == r.usage
                 k == Known((S \ {r}) \ {c})
      <4>6. i \in Nat /\ j \in Nat /\ k \in Nat
        BY <2>2, <4>4
      <4> HIDE DEF i, j, k
      <4>7. Known(S) = i + (j + k) /\ Known(S \ {r}) = i + k
        BY <2>1, <4>2, <4>5 DEF i, j, k
      <4>8. i + (j + k) = j + (i + k)
        BY <4>6
      <4> QED
        BY <4>7, <4>8 DEF j
    <3> QED
      BY <3>1, <3>2
  <2>4. Known(S) \in Nat
    BY <2>1, <2>2
  <2> QED
    BY <1>3, <2>3, <2>4
<1> QED
  BY <1>5, <1>6

\* More records report at least as much.
LEMMA KnownGrows ==
  ASSUME NEW U, Reporting(U), NEW S \in SUBSET U
  PROVE  Known(S) \in Nat /\ Known(U) \in Nat /\ Known(S) <= Known(U)
<1> DEFINE Bad == {T \in SUBSET U : S \subseteq T /\ ~ (Known(S) <= Known(T))}
<1>1. \A T \in SUBSET U : IsFiniteSet(T) /\ Known(T) \in Nat
  BY KnownOfOne, FS_Subset DEF Reporting
<1>2. Bad = {}
  <2> SUFFICES ASSUME Bad # {}
               PROVE  FALSE
    OBVIOUS
  <2>1. \A T \in Bad : IsFiniteSet(T)
    BY <1>1
  <2>2. PICK T \in Bad : \A V \in Bad : Cardinality(T) <= Cardinality(V)
    BY <2>1, LeastSet
  <2>3. S # T
    BY <1>1, <2>2
  <2>4. PICK r \in T : r \notin S
    BY <2>2, <2>3
  <2>5. /\ Cardinality(T \ {r}) < Cardinality(T) /\ Cardinality(T) \in Nat
        /\ Cardinality(T \ {r}) \in Nat
    BY <1>1, <2>2, OneLess, FS_CardinalityType
  <2>6. T \ {r} \notin Bad
    BY <2>2, <2>5
  <2>7. Known(S) <= Known(T \ {r})
    BY <2>2, <2>4, <2>6
  <2>8. Known(T) = r.usage + Known(T \ {r}) /\ r.usage \in Nat
    BY <2>2, KnownOfOne DEF Reporting
  <2>9. Known(T \ {r}) \in Nat /\ Known(T) \in Nat /\ Known(S) \in Nat
    BY <1>1, <2>2
  <2> QED
    BY <2>2, <2>7, <2>8, <2>9
<1> QED
  BY <1>1, <1>2

(***************************************************************************)
(* ObservationLedger                                                       *)
(***************************************************************************)

\* A set of records as a ledger can hold it: each run has one session, and two runs of a
\* session do not overlap.
Consistent(set) ==
  /\ set \in SUBSET Record
  /\ \A r, o \in set : r.run = o.run => r.session = o.session
  /\ \A r, o \in set : r.run # o.run /\ r.session = o.session
                         => ~ Overlap(Seqs(set, r.run), Seqs(set, o.run))

\* What is written is a part of what is held, and what is being written of what was written.
Saved ==
  /\ IsFiniteSet(records) /\ disk \subseteq records
  /\ temporary = None \/ (disk \subseteq temporary /\ temporary \subseteq records)

LedgerInv ==
  /\ Consistent(records)
  /\ Consistent(disk)
  /\ temporary = None \/ Consistent(temporary)
  /\ runs = Bound(records)
  /\ Saved

\* A run of a consistent set is bound to the session of its records, and to nothing without.
LEMMA BoundToItsRecords ==
  ASSUME NEW set, Consistent(set), NEW u \in Run
  PROVE  /\ \A r \in set : r.run = u => Bound(set)[u] = r.session
         /\ (\A r \in set : r.run # u) => Bound(set)[u] = None
<1>1. ASSUME NEW r \in set, r.run = u PROVE Bound(set)[u] = r.session
  <2> DEFINE o == CHOOSE o \in set : o.run = u
  <2>1. o \in set /\ o.run = u
    BY <1>1
  <2>2. Bound(set)[u] = o.session
    BY <1>1 DEF Bound
  <2> QED
    BY <1>1, <2>1, <2>2 DEF Consistent
<1>2. (\A r \in set : r.run # u) => Bound(set)[u] = None
  BY DEF Bound
<1> QED
  BY <1>1, <1>2

\* Fewer sequence numbers overlap less, and it does not matter which run is named first.
LEMMA OverlapIsMonotone ==
  ASSUME NEW S, NEW T, NEW A \in SUBSET S, NEW B \in SUBSET T, Overlap(A, B)
  PROVE  Overlap(S, T) /\ Overlap(T, S)
BY DEF Overlap

\* A part of the records has a part of the sequence numbers of a run.
LEMMA SeqsOfSubset ==
  ASSUME NEW set, NEW part \in SUBSET set, NEW u
  PROVE  Seqs(part, u) \subseteq Seqs(set, u)
BY DEF Seqs

\* Every record fits the part of its own set that is loaded before it.
LEMMA ConsistentLoads ==
  ASSUME NEW set, Consistent(set), None \notin Session
  PROVE  Loads(set)
<1> SUFFICES ASSUME NEW r \in set,
                    NEW before, before = {o \in set : o.session = r.session /\ o.seq < r.seq}
             PROVE  Fits(before, Bound(before), r)
  BY DEF Loads
<1>1. before \in SUBSET set
  OBVIOUS
<1>2. ASSUME NEW g \in before, NEW h \in before, g.run # h.run, g.session = h.session
      PROVE  ~ Overlap(Seqs(before, g.run), Seqs(before, h.run))
  <2>1. ~ Overlap(Seqs(set, g.run), Seqs(set, h.run))
    BY <1>1, <1>2 DEF Consistent
  <2>2. Seqs(before, g.run) \subseteq Seqs(set, g.run) /\ Seqs(before, h.run) \subseteq Seqs(set, h.run)
    BY <1>1, SeqsOfSubset
  <2> QED
    BY <2>1, <2>2, OverlapIsMonotone
<1>3. Consistent(before)
  BY <1>1, <1>2 DEF Consistent
<1>4. r.run \in Run /\ r \in Record
  BY DEF Consistent, Record
<1>5. Bound(before)[r.run] \in {None, r.session}
  <2>1. CASE \E o \in before : o.run = r.run
    <3>1. PICK o \in before : o.run = r.run
      BY <2>1
    <3>2. Bound(before)[r.run] = o.session
      BY <1>3, <1>4, <3>1, BoundToItsRecords
    <3>3. o.session = r.session
      OBVIOUS
    <3> QED
      BY <3>2, <3>3
  <2>2. CASE \A o \in before : o.run # r.run
    BY <1>3, <1>4, <2>2, BoundToItsRecords
  <2> QED
    BY <2>1, <2>2
<1>6. ASSUME NEW h \in Run \ {r.run}, Bound(before)[h] = r.session
      PROVE  ~ Overlap(Seqs(before, r.run) \cup {r.seq}, Seqs(before, h))
  <2>1. r.session # None
    BY <1>4 DEF Record
  <2>2. PICK o \in before : o.run = h
    BY <1>3, <1>6, <2>1, BoundToItsRecords
  <2>3. o.session = r.session
    <3>1. Bound(before)[h] = o.session
      BY <1>3, <2>2, BoundToItsRecords
    <3> QED
      BY <1>6, <3>1
  <2>4. ~ Overlap(Seqs(set, r.run), Seqs(set, h))
    BY <1>1, <1>6, <2>2, <2>3 DEF Consistent
  <2>5. Seqs(before, r.run) \cup {r.seq} \subseteq Seqs(set, r.run)
    BY <1>1, SeqsOfSubset DEF Seqs
  <2>6. Seqs(before, h) \subseteq Seqs(set, h)
    BY <1>1, SeqsOfSubset
  <2> QED
    BY <2>4, <2>5, <2>6, OverlapIsMonotone
<1> QED
  BY <1>5, <1>6 DEF Fits
\* What add lets in keeps the records consistent, and binds the run of the record.
LEMMA AddKeeps ==
  ASSUME Consistent(records), runs = Bound(records), None \notin Session,
         NEW r \in Record, Add(r)
  PROVE  Consistent(records') /\ runs' = Bound(records')
<1> DEFINE new == records \cup {r}
<1>1. records' = new /\ runs' = [runs EXCEPT ![r.run] = r.session]
  BY DEF Add
<1>2. /\ runs[r.run] \in {None, r.session}
      /\ \A h \in Run \ {r.run} :
           runs[h] = r.session => ~ Overlap(Seqs(records, r.run) \cup {r.seq}, Seqs(records, h))
  BY DEF Add, Fits
<1>3. new \in SUBSET Record /\ r.run \in Run /\ r.session \in Session
  BY DEF Consistent, Record
<1>4. ASSUME NEW o \in records, o.run = r.run PROVE o.session = r.session
  <2>1. runs[r.run] = o.session
    BY <1>3, <1>4, BoundToItsRecords
  <2>2. o.session \in Session
    BY DEF Consistent, Record
  <2> QED
    BY <1>2, <2>1, <2>2
<1>5. \A o, h \in new : o.run = h.run => o.session = h.session
  BY <1>4 DEF Consistent
<1>6. Seqs(new, r.run) = Seqs(records, r.run) \cup {r.seq}
  BY DEF Seqs
<1>7. \A h \in Run : h # r.run => Seqs(new, h) = Seqs(records, h)
  BY DEF Seqs
<1>8. ASSUME NEW o \in records, o.run # r.run, o.session = r.session
      PROVE  ~ Overlap(Seqs(new, r.run), Seqs(new, o.run)) /\ ~ Overlap(Seqs(new, o.run), Seqs(new, r.run))
  <2>1. o.run \in Run \ {r.run}
    BY <1>8 DEF Consistent, Record
  <2>2. runs[o.run] = r.session
    BY <1>8, <2>1, BoundToItsRecords
  <2>3. ~ Overlap(Seqs(new, r.run), Seqs(new, o.run))
    BY <1>2, <1>6, <1>7, <2>1, <2>2
  <2> QED
    BY <2>3, OverlapIsMonotone
<1>9. ASSUME NEW o \in new, NEW h \in new, o.run # h.run, o.session = h.session
      PROVE  ~ Overlap(Seqs(new, o.run), Seqs(new, h.run))
  <2>1. CASE o.run = r.run
    <3>1. h \in records /\ h.run # r.run /\ h.session = r.session
      BY <1>5, <1>9, <2>1
    <3> QED
      BY <1>8, <2>1, <3>1
  <2>2. CASE h.run = r.run
    <3>1. o \in records /\ o.run # r.run /\ o.session = r.session
      BY <1>5, <1>9, <2>2
    <3> QED
      BY <1>8, <2>2, <3>1
  <2>3. CASE o.run # r.run /\ h.run # r.run
    <3>1. o \in records /\ h \in records /\ o.run \in Run /\ h.run \in Run
      BY <1>3, <2>3 DEF Consistent, Record
    <3> QED
      BY <1>7, <1>9, <2>3, <3>1 DEF Consistent
  <2> QED
    BY <2>1, <2>2, <2>3
<1>10. Consistent(new)
  BY <1>3, <1>5, <1>9 DEF Consistent
<1>11. ASSUME NEW u \in Run PROVE runs'[u] = Bound(new)[u]
  <2>1. runs \in [Run -> {runs[h] : h \in Run}]
    BY DEF Bound
  <2>2. CASE u = r.run
    <3>1. Bound(new)[u] = r.session
      BY <1>10, <2>2, BoundToItsRecords
    <3> QED
      BY <1>1, <2>1, <2>2, <3>1
  <2>3. CASE u # r.run
    <3>1. runs'[u] = Bound(records)[u]
      BY <1>1, <2>1, <2>3
    <3>2. CASE \E o \in records : o.run = u
      BY <1>10, <3>1, <3>2, BoundToItsRecords
    <3>3. CASE \A o \in records : o.run # u
      BY <1>10, <2>3, <3>1, <3>3, BoundToItsRecords
    <3> QED
      BY <3>2, <3>3
  <2> QED
    BY <2>2, <2>3
<1>12. runs' = [u \in Run |-> runs'[u]] /\ Bound(new) = [u \in Run |-> Bound(new)[u]]
  BY <1>1 DEF Bound
<1> QED
  BY <1>1, <1>10, <1>11, <1>12

\* An empty ledger is consistent.
LEMMA LedgerStarts ==
  ASSUME LedgerInit
  PROVE  LedgerInv
<1>1. Consistent({}) /\ IsFiniteSet({})
  BY FS_EmptySet DEF Consistent
<1>2. runs = Bound({})
  BY DEF LedgerInit, Bound
<1> QED
  BY <1>1, <1>2 DEF LedgerInit, LedgerInv, Saved

\* Every step keeps the invariant: adding, saving, a crash and loading.
LEMMA LedgerSteps ==
  ASSUME None \notin Session, LedgerInv, LedgerNext \/ UNCHANGED ledgerVars
  PROVE  LedgerInv'
<1>1. ASSUME NEW r \in Record, Add(r) PROVE LedgerInv'
  <2>1. Consistent(records') /\ runs' = Bound(records')
    BY <1>1, AddKeeps DEF LedgerInv
  <2>2. disk' = disk /\ temporary' = temporary /\ records' = records \cup {r}
    BY <1>1 DEF Add
  <2>3. IsFiniteSet(records')
    BY <2>2, FS_AddElement DEF LedgerInv, Saved
  <2>4. Saved'
    BY <2>2, <2>3 DEF LedgerInv, Saved
  <2> QED
    BY <2>1, <2>2, <2>4 DEF LedgerInv
<1>2. CASE Ingest
  <2>1. PICK session \in Session, seq \in 1 .. MaxSeq, u \in Run,
             kind \in {"message", "attempt", "other"}, top \in Usage, embedded \in Usage :
               Add(Projection(session, seq, u, kind, top, embedded))
    BY <1>2 DEF Ingest
  <2>2. Projection(session, seq, u, kind, top, embedded) \in Record
    BY DEF Projection, Record
  <2> QED
    BY <1>1, <2>1, <2>2
<1>3. CASE Write
  BY <1>3 DEF Write, LedgerInv, Saved
<1>4. CASE WriteEnds
  BY <1>4 DEF WriteEnds, LedgerInv, Saved
<1>5. CASE Restart
  <2>1. IsFiniteSet(disk)
    BY FS_Subset DEF LedgerInv, Saved
  <2> QED
    BY <1>5, <2>1 DEF Restart, LedgerInv, Saved
<1>6. CASE UNCHANGED ledgerVars
  BY <1>6 DEF ledgerVars, LedgerInv, Saved
<1> QED
  BY <1>2, <1>3, <1>4, <1>5, <1>6 DEF LedgerNext

\* A consistent ledger and file are sound.
LEMMA LedgerInvIsSound ==
  ASSUME None \notin Session, LedgerInv
  PROVE  LedgerIsSound
<1>1. ASSUME NEW g \in Run, NEW h \in Run, g # h, runs[g] = runs[h],
             Overlap(Seqs(records, g), Seqs(records, h))
      PROVE  FALSE
  <2>1. PICK r \in records, o \in records : r.run = g /\ o.run = h
    BY <1>1 DEF Overlap, Seqs
  <2>2. r.session = o.session
    BY <1>1, <2>1, BoundToItsRecords DEF LedgerInv
  <2> QED
    BY <1>1, <2>1, <2>2 DEF LedgerInv, Consistent
<1>2. IntervalsDisjoint
  BY <1>1 DEF IntervalsDisjoint
<1>3. CheckpointLoads
  BY ConsistentLoads DEF LedgerInv, CheckpointLoads
<1> QED
  BY <1>2, <1>3 DEF LedgerIsSound


\* The types follow: a run is bound to the session of its records.
LEMMA LedgerTyped ==
  ASSUME LedgerInv
  PROVE  LedgerTypeOK
<1>1. ASSUME NEW u \in Run
      PROVE  runs[u] \in Session \cup {None}
  <2>1. CASE \E r \in records : r.run = u
    <3>1. PICK r \in records : r.run = u
      BY <2>1
    <3>2. r.session \in Session
      BY DEF LedgerInv, Consistent, Record
    <3> QED
      BY <3>1, <3>2, BoundToItsRecords DEF LedgerInv
  <2>2. CASE \A r \in records : r.run # u
    BY <2>2, BoundToItsRecords DEF LedgerInv
  <2> QED
    BY <2>1, <2>2
<1>2. runs = [u \in Run |-> runs[u]]
  BY DEF LedgerInv, Bound
<1>3. runs \in [Run -> Session \cup {None}]
  BY <1>1, <1>2
<1> QED
  BY <1>3 DEF LedgerInv, Consistent, LedgerTypeOK

\* The account of more records is not smaller.
LEMMA SummaryGrows ==
  ASSUME Tokens \subseteq Nat, NEW large \in SUBSET Record, IsFiniteSet(large),
         NEW small \in SUBSET large, NEW u \in Run
  PROVE  /\ Summary(large, u).attempts >= Summary(small, u).attempts
         /\ Summary(large, u).reported >= Summary(small, u).reported
<1> DEFINE Attempts(set) == {r \in set : r.run = u /\ r.kind # "other"}
           Missing(set) == {r \in Attempts(set) : r.usage = None}
           Counted(set) == Attempts(set) \ Missing(set)
<1>1. \A set : /\ Summary(set, u).attempts = Cardinality(Attempts(set))
               /\ Summary(set, u).reported = Known(Counted(set))
  BY DEF Summary, Known
<1>2. /\ Attempts(small) \subseteq Attempts(large) /\ Counted(small) \subseteq Counted(large)
      /\ Attempts(large) \subseteq large /\ Counted(large) \subseteq large
  OBVIOUS
<1>3. \A r \in Counted(large) : r.usage \in Nat
  BY DEF Record, Usage
<1> HIDE DEF Attempts, Missing, Counted
<1>4. IsFiniteSet(Attempts(large)) /\ IsFiniteSet(Counted(large))
  BY <1>2, FS_Subset
<1>5. /\ Cardinality(Attempts(small)) <= Cardinality(Attempts(large))
      /\ Cardinality(Attempts(small)) \in Nat /\ Cardinality(Attempts(large)) \in Nat
  BY <1>2, <1>4, FS_Subset, FS_CardinalityType
<1>6. /\ Known(Counted(small)) <= Known(Counted(large))
      /\ Known(Counted(small)) \in Nat /\ Known(Counted(large)) \in Nat
  BY <1>2, <1>3, <1>4, KnownGrows DEF Reporting
<1>7. Summary(large, u).attempts >= Summary(small, u).attempts
  BY <1>1, <1>5
<1>8. Summary(large, u).reported >= Summary(small, u).reported
  BY <1>1, <1>6
<1> QED
  BY <1>7, <1>8

\* Whatever is done to a ledger, its file and its memory keep what the file had.
LEMMA AccountsStep ==
  ASSUME None \notin Session, Tokens \subseteq Nat, LedgerInv,
         LedgerNext \/ UNCHANGED ledgerVars
  PROVE  AccountsKept
<1> SUFFICES ASSUME NEW u \in Run
             PROVE  LET old == Summary(disk, u)
                    IN \A account \in {Summary(disk', u), Summary(records', u)} :
                         account.attempts >= old.attempts /\ account.reported >= old.reported
  BY DEF AccountsKept
<1>1. disk \subseteq disk' /\ disk' \subseteq records'
  <2>1. Saved /\ Saved'
    BY LedgerSteps DEF LedgerInv
  <2>2. disk' = disk \/ (temporary # None /\ disk' = temporary)
    BY DEF LedgerNext, ledgerVars, Ingest, Add, Write, WriteEnds, Restart
  <2> QED
    BY <2>1, <2>2 DEF Saved
<1>2. records' \in SUBSET Record /\ IsFiniteSet(records')
  BY LedgerSteps DEF LedgerInv, Saved, Consistent
<1>3. IsFiniteSet(disk') /\ disk' \in SUBSET Record
  BY <1>1, <1>2, FS_Subset
<1>4. /\ Summary(records', u).attempts >= Summary(disk, u).attempts
      /\ Summary(records', u).reported >= Summary(disk, u).reported
  BY <1>1, <1>2, SummaryGrows
<1>5. /\ Summary(disk', u).attempts >= Summary(disk, u).attempts
      /\ Summary(disk', u).reported >= Summary(disk, u).reported
  BY <1>1, <1>3, SummaryGrows
<1> QED
  BY <1>4, <1>5

(***************************************************************************)
(* UploadProxy                                                             *)
(***************************************************************************)

\* A snapshot of the recovery file, and whose it is.
Snapshots == [files : SUBSET Upload, unacknowledged : 0 .. Proxied!Cardinality(Upload)]
Queued == [who : Upload \cup Proxied!Deleter, snapshot : Snapshots]

\* The service has the file of an upload, or may still make it.
MayExist(u) == u \in remote \/ upload[u] \in {"sent", "lost"}

\* The service has answered for an upload, or will not be asked: it makes no file any more.
Settled(u) == upload[u] \in {"saving", "done", "failed"}

\* A snapshot accounts for a set of uploads: it names them, or counts as many.
Accounts(s, set) ==
  \E pending \in SUBSET Upload :
    /\ Proxied!Cardinality(pending) = s.unacknowledged
    /\ set \subseteq s.files \cup pending

\* The uploads that a snapshot of the queue answers for: what may exist, and what is sent when
\* it or an earlier one is written.
Answerable(k) ==
  {u \in Upload : MayExist(u) \/ (/\ upload[u] = "recording"
                                /\ \E j \in 1 .. k : j \in DOMAIN writes /\ writes[j].who = u)}

UploadTypes ==
  /\ remote \in SUBSET Upload /\ owned \in SUBSET Upload /\ open \in SUBSET Upload
  /\ upload \in [Upload -> {"new", "recording", "sent", "saving", "done", "lost", "failed"}]
  /\ deletion \in [Proxied!Deleter -> [at : {"idle", "sent", "saving", "next", "done", "failed"},
                                       file : Upload \cup {None}]]
  /\ writes \in Seq(Queued) /\ recoveryFile \in Snapshots

\* What is owned, or is being deleted, is settled.
OwnedIsSettled ==
  /\ \A u \in owned : Settled(u)
  /\ \A d \in Proxied!Deleter : deletion[d].at = "sent" => deletion[d].file \in Upload /\ Settled(deletion[d].file)

\* The proxy knows of every file there may be.
ProxyKnows == \A u \in Upload : MayExist(u) \/ upload[u] = "recording" => u \in owned \cup open

\* The recovery file, and every snapshot that waits to become it, accounts for every file.
FileAccounts  == Accounts(recoveryFile, {u \in Upload : MayExist(u)})
QueueAccounts == \A k \in DOMAIN writes : Accounts(writes[k].snapshot, Answerable(k))

\* What was not received has no snapshot.
NewIsNotQueued == \A k \in DOMAIN writes : \A u \in Upload : writes[k].who = u => upload[u] # "new"

UploadInv ==
  UploadTypes /\ OwnedIsSettled /\ ProxyKnows /\ NewIsNotQueued /\ FileAccounts /\ QueueAccounts

\* Its cardinality is the one of the library.
LEMMA ProxyCardinality ==
  ASSUME NEW S
  PROVE  Proxied!Cardinality(S) = Cardinality(S)
BY DEF Proxied!Cardinality, Cardinality

\* A part of the uploads is counted by a number in the recovery file.
LEMMA PendingIsCounted ==
  ASSUME IsFiniteSet(Upload), NEW S \in SUBSET Upload
  PROVE  Proxied!Cardinality(S) \in 0 .. Proxied!Cardinality(Upload)
<1>1. IsFiniteSet(S) /\ Cardinality(S) <= Cardinality(Upload)
  BY FS_Subset
<1>2. Cardinality(S) \in Nat /\ Cardinality(Upload) \in Nat
  BY <1>1, FS_CardinalityType
<1> QED
  BY <1>1, <1>2, ProxyCardinality

\* Fewer uploads are accounted for by the same snapshot.
LEMMA AccountsForFewer ==
  ASSUME NEW s, NEW S, NEW T, Accounts(s, S), T \subseteq S
  PROVE  Accounts(s, T)
BY DEF Accounts

\* A proxy begins with nothing uploaded.
LEMMA UploadStarts ==
  ASSUME IsFiniteSet(Upload), Proxied!ProxyInit
  PROVE  UploadInv
<1>1. /\ remote = {} /\ owned = {} /\ open = {} /\ writes = << >>
      /\ upload = [u \in Upload |-> "new"]
      /\ deletion = [d \in Proxied!Deleter |-> [at |-> "idle", file |-> None]]
      /\ recoveryFile = [files |-> {}, unacknowledged |-> 0]
  BY DEF Proxied!ProxyInit
<1>2. Proxied!Cardinality({}) = 0
  BY FS_EmptySet, ProxyCardinality
<1>3. recoveryFile \in Snapshots
  <2>1. 0 \in 0 .. Proxied!Cardinality(Upload)
    BY <1>2, PendingIsCounted
  <2> QED
    BY <1>1, <2>1 DEF Snapshots
<1>4. UploadTypes
  BY <1>1, <1>3 DEF UploadTypes
<1>5. OwnedIsSettled /\ ProxyKnows /\ NewIsNotQueued
  BY <1>1 DEF OwnedIsSettled, ProxyKnows, NewIsNotQueued, MayExist
<1>6. {u \in Upload : MayExist(u)} = {}
  BY <1>1 DEF MayExist
<1>7. FileAccounts
  <2>1. recoveryFile.unacknowledged = 0
    BY <1>1
  <2> QED
    BY <1>2, <1>6, <2>1 DEF FileAccounts, Accounts
<1>8. QueueAccounts
  BY <1>1 DEF QueueAccounts
<1> QED
  BY <1>4, <1>5, <1>7, <1>8 DEF UploadInv

\* A snapshot that is taken accounts for what the proxy knows of.
LEMMA SnapshotAccounts ==
  ASSUME IsFiniteSet(Upload), NEW files_ \in SUBSET Upload, NEW pending \in SUBSET Upload,
         NEW S, S \subseteq files_ \cup pending
  PROVE  /\ Proxied!Snapshot(files_, pending) \in Snapshots
         /\ Accounts(Proxied!Snapshot(files_, pending), S)
<1>1. Proxied!Snapshot(files_, pending)
        = [files |-> files_, unacknowledged |-> Proxied!Cardinality(pending)]
  BY DEF Proxied!Snapshot
<1>2. Proxied!Cardinality(pending) \in 0 .. Proxied!Cardinality(Upload)
  BY PendingIsCounted
<1> QED
  BY <1>1, <1>2 DEF Snapshots, Accounts

\* What a step leaves: no more may exist, no more is recorded, and what is owned stays settled.
Lessens ==
  /\ \A u \in Upload : MayExist(u)' => MayExist(u)
  /\ \A u \in Upload : upload'[u] = "recording" /\ upload[u] # "recording" => upload[u] = "new"
  /\ \A u \in Upload : upload'[u] = "new" => upload[u] = "new"

\* After such a step the recovery file and the old snapshots account for what they did.
LEMMA LessIsAccountedFor ==
  ASSUME NewIsNotQueued, FileAccounts, QueueAccounts, Lessens
  PROVE  /\ Accounts(recoveryFile, {u \in Upload : MayExist(u)'})
         /\ \A k \in DOMAIN writes :
              Accounts(writes[k].snapshot,
                {u \in Upload : MayExist(u)' \/ (/\ upload'[u] = "recording"
                    /\ \E j \in 1 .. k : j \in DOMAIN writes /\ writes[j].who = u)})
<1>1. {u \in Upload : MayExist(u)'} \subseteq {u \in Upload : MayExist(u)}
  BY DEF Lessens
<1>2. ASSUME NEW k \in DOMAIN writes
      PROVE  {u \in Upload : MayExist(u)' \/ (/\ upload'[u] = "recording"
                    /\ \E j \in 1 .. k : j \in DOMAIN writes /\ writes[j].who = u)}
               \subseteq Answerable(k)
  BY DEF Lessens, Answerable, NewIsNotQueued
<1>3. Accounts(recoveryFile, {u \in Upload : MayExist(u)'})
  BY <1>1, AccountsForFewer DEF FileAccounts
<1>4. ASSUME NEW k \in DOMAIN writes
      PROVE  Accounts(writes[k].snapshot,
                {u \in Upload : MayExist(u)' \/ (/\ upload'[u] = "recording"
                    /\ \E j \in 1 .. k : j \in DOMAIN writes /\ writes[j].who = u)})
  <2>1. Accounts(writes[k].snapshot, Answerable(k))
    BY DEF QueueAccounts
  <2> QED
    BY <1>2, <2>1, AccountsForFewer
<1> QED
  BY <1>3, <1>4

\* Without a new snapshot.
LEMMA QueueStays ==
  ASSUME NewIsNotQueued, FileAccounts, QueueAccounts, Lessens,
         writes' = writes, recoveryFile' = recoveryFile
  PROVE  FileAccounts' /\ QueueAccounts' /\ NewIsNotQueued'
<1>1. FileAccounts'
  BY LessIsAccountedFor DEF FileAccounts
<1>2. QueueAccounts'
  BY LessIsAccountedFor DEF QueueAccounts, Answerable
<1>3. NewIsNotQueued'
  BY DEF NewIsNotQueued, Lessens
<1> QED
  BY <1>1, <1>2, <1>3

\* With a new snapshot, of what the proxy then knows.
LEMMA QueueGrows ==
  ASSUME IsFiniteSet(Upload), UploadTypes, NewIsNotQueued, FileAccounts, QueueAccounts, Lessens,
         NEW who \in Upload \cup Proxied!Deleter, Proxied!Persist(who),
         owned' \in SUBSET Upload, open' \in SUBSET Upload, ProxyKnows',
         recoveryFile' = recoveryFile,
         \A u \in Upload : who = u => upload'[u] # "new"
  PROVE  FileAccounts' /\ QueueAccounts' /\ NewIsNotQueued' /\ writes' \in Seq(Queued)
<1> DEFINE s == Proxied!Snapshot(owned', open')
<1> DEFINE S == {u \in Upload : MayExist(u)' \/ upload'[u] = "recording"}
<1>0. S \subseteq owned' \cup open'
  BY DEF ProxyKnows
<1>1. s \in Snapshots /\ Accounts(s, S)
  BY <1>0, SnapshotAccounts
<1>2. writes' = Append(writes, [who |-> who, snapshot |-> s])
  BY DEF Proxied!Persist
<1>3. [who |-> who, snapshot |-> s] \in Queued
  BY <1>1 DEF Queued
<1> HIDE DEF s
<1>4. writes \in Seq(Queued)
  BY DEF UploadTypes
<1>5. /\ writes' \in Seq(Queued) /\ Len(writes) \in Nat
      /\ DOMAIN writes = 1 .. Len(writes) /\ DOMAIN writes' = 1 .. Len(writes) + 1
      /\ \A k \in DOMAIN writes : writes'[k] = writes[k]
      /\ writes'[Len(writes) + 1].who = who /\ writes'[Len(writes) + 1].snapshot = s
  BY <1>2, <1>3, <1>4
<1>6. FileAccounts'
  BY LessIsAccountedFor DEF FileAccounts
<1>7. ASSUME NEW k \in DOMAIN writes'
      PROVE  Accounts(writes'[k].snapshot, Answerable(k)')
  <2>1. CASE k \in DOMAIN writes
    <3>1. Answerable(k)' \subseteq
            {u \in Upload : MayExist(u)' \/ (/\ upload'[u] = "recording"
                    /\ \E j \in 1 .. k : j \in DOMAIN writes /\ writes[j].who = u)}
      BY <1>5, <2>1 DEF Answerable
    <3> QED
      BY <1>5, <2>1, <3>1, LessIsAccountedFor, AccountsForFewer
  <2>2. CASE k = Len(writes) + 1
    <3>1. Answerable(k)' \subseteq S
      BY DEF Answerable
    <3> QED
      BY <1>1, <1>5, <2>2, <3>1, AccountsForFewer
  <2> QED
    BY <1>5, <2>1, <2>2
<1>8. QueueAccounts'
  BY <1>7 DEF QueueAccounts
<1>9. NewIsNotQueued'
  BY <1>5 DEF NewIsNotQueued, Lessens
<1> QED
  BY <1>5, <1>6, <1>8, <1>9

\* A step of an upload preserves the accounts.
LEMMA UploadMoves ==
  ASSUME IsFiniteSet(Upload), Proxied!Deleter \cap Upload = {}, UploadInv, NEW v \in Upload,
         \/ Proxied!Receive(v) \/ Proxied!Created(v) \/ Proxied!Acknowledged(v)
         \/ Proxied!NotAcknowledged(v) \/ Proxied!AnswerLost(v) \/ Proxied!Delete(v)
  PROVE  UploadInv'
<1> USE DEF UploadInv
<1>0. /\ remote \in SUBSET Upload /\ owned \in SUBSET Upload /\ open \in SUBSET Upload
      /\ upload \in [Upload -> {"new", "recording", "sent", "saving", "done", "lost", "failed"}]
  BY DEF UploadTypes
<1>1. CASE Proxied!Receive(v)
  <2> USE <1>1 DEF Proxied!Receive
  <2>1. UploadTypes /\ OwnedIsSettled /\ ProxyKnows
    OBVIOUS
  <2>2. Lessens
    BY <1>0 DEF Lessens, MayExist
  <2>3. OwnedIsSettled'
    BY <1>0, <2>1 DEF OwnedIsSettled, Settled
  <2>4. ProxyKnows'
    BY <1>0, <2>1 DEF ProxyKnows, MayExist
  <2>5. FileAccounts' /\ QueueAccounts' /\ NewIsNotQueued' /\ writes' \in Seq(Queued)
    BY <1>0, <2>1, <2>2, <2>4, QueueGrows
  <2>6. UploadTypes'
    BY <1>0, <2>1, <2>5 DEF UploadTypes
  <2> QED
    BY <2>3, <2>4, <2>5, <2>6
<1>2. CASE Proxied!Created(v)
  <2> USE <1>2 DEF Proxied!Created
  <2>1. UploadTypes /\ OwnedIsSettled /\ ProxyKnows
    OBVIOUS
  <2>2. Lessens
    BY <1>0 DEF Lessens, MayExist
  <2>3. OwnedIsSettled'
    BY <1>0, <2>1 DEF OwnedIsSettled, Settled
  <2>4. ProxyKnows'
    BY <1>0, <2>1, <2>2 DEF ProxyKnows, Lessens
  <2>5. FileAccounts' /\ QueueAccounts' /\ NewIsNotQueued'
    BY <2>2, QueueStays
  <2>6. UploadTypes'
    BY <1>0, <2>1 DEF UploadTypes
  <2> QED
    BY <2>3, <2>4, <2>5, <2>6
<1>3. CASE Proxied!Acknowledged(v)
  <2> USE <1>3 DEF Proxied!Acknowledged
  <2>1. UploadTypes /\ OwnedIsSettled /\ ProxyKnows
    OBVIOUS
  <2>2. Lessens
    BY <1>0 DEF Lessens, MayExist
  <2>3. OwnedIsSettled'
    BY <1>0, <2>1 DEF OwnedIsSettled, Settled
  <2>4. ProxyKnows'
    BY <1>0, <2>1 DEF ProxyKnows, MayExist
  <2>5. FileAccounts' /\ QueueAccounts' /\ NewIsNotQueued' /\ writes' \in Seq(Queued)
    BY <1>0, <2>1, <2>2, <2>4, QueueGrows
  <2>6. UploadTypes'
    BY <1>0, <2>1, <2>5 DEF UploadTypes
  <2> QED
    BY <2>3, <2>4, <2>5, <2>6
<1>4. CASE Proxied!NotAcknowledged(v)
  <2> USE <1>4 DEF Proxied!NotAcknowledged
  <2>1. UploadTypes /\ OwnedIsSettled /\ ProxyKnows
    OBVIOUS
  <2>2. Lessens
    BY <1>0 DEF Lessens, MayExist
  <2>3. OwnedIsSettled'
    BY <1>0, <2>1 DEF OwnedIsSettled, Settled
  <2>4. ProxyKnows'
    BY <1>0, <2>1 DEF ProxyKnows, MayExist
  <2>5. FileAccounts' /\ QueueAccounts' /\ NewIsNotQueued' /\ writes' \in Seq(Queued)
    BY <1>0, <2>1, <2>2, <2>4, QueueGrows
  <2>6. UploadTypes'
    BY <1>0, <2>1, <2>5 DEF UploadTypes
  <2> QED
    BY <2>3, <2>4, <2>5, <2>6
<1>5. CASE Proxied!AnswerLost(v)
  <2> USE <1>5 DEF Proxied!AnswerLost
  <2>1. UploadTypes /\ OwnedIsSettled /\ ProxyKnows
    OBVIOUS
  <2>2. Lessens
    BY <1>0 DEF Lessens, MayExist
  <2>3. OwnedIsSettled'
    BY <1>0, <2>1 DEF OwnedIsSettled, Settled
  <2>4. ProxyKnows'
    BY <1>0, <2>1 DEF ProxyKnows, MayExist
  <2>5. FileAccounts' /\ QueueAccounts' /\ NewIsNotQueued'
    BY <2>2, QueueStays
  <2>6. UploadTypes'
    BY <1>0, <2>1 DEF UploadTypes
  <2> QED
    BY <2>3, <2>4, <2>5, <2>6
<1>6. CASE Proxied!Delete(v)
  <2> USE <1>6 DEF Proxied!Delete
  <2>1. UploadTypes /\ OwnedIsSettled /\ ProxyKnows
    OBVIOUS
  <2>2. Lessens
    BY DEF Lessens, MayExist
  <2>3. OwnedIsSettled'
    BY <1>0, <2>1 DEF OwnedIsSettled, Settled, UploadTypes
  <2>4. ProxyKnows'
    BY <2>1 DEF ProxyKnows, MayExist
  <2>5. FileAccounts' /\ QueueAccounts' /\ NewIsNotQueued'
    BY <2>2, QueueStays
  <2>6. UploadTypes'
    BY <1>0, <2>1 DEF UploadTypes, Proxied!Deleter
  <2> QED
    BY <2>3, <2>4, <2>5, <2>6
<1> QED
  BY <1>1, <1>2, <1>3, <1>4, <1>5, <1>6

\* A step of a deletion preserves them.
LEMMA DeletionMoves ==
  ASSUME IsFiniteSet(Upload), Proxied!Deleter \cap Upload = {}, UploadInv,
         \/ Proxied!CleanUp \/ Proxied!CleanUpGoesOn
         \/ \E d \in Proxied!Deleter : Proxied!Deleted(d) \/ Proxied!DeletionFails(d)
  PROVE  UploadInv'
<1> USE DEF UploadInv
<1>0. /\ remote \in SUBSET Upload /\ owned \in SUBSET Upload /\ open \in SUBSET Upload
      /\ deletion \in [Proxied!Deleter -> [at : {"idle", "sent", "saving", "next", "done", "failed"},
                                           file : Upload \cup {None}]]
  BY DEF UploadTypes
<1>c. "cleanup" \in Proxied!Deleter
  BY DEF Proxied!Deleter
<1>1. CASE Proxied!CleanUp
  <2> USE <1>1 DEF Proxied!CleanUp
  <2>1. UploadTypes /\ OwnedIsSettled /\ ProxyKnows
    OBVIOUS
  <2>2. Lessens
    BY DEF Lessens, MayExist
  <2>3. OwnedIsSettled'
    BY <1>0, <1>c, <2>1 DEF OwnedIsSettled, Settled
  <2>4. ProxyKnows'
    BY <2>1 DEF ProxyKnows, MayExist
  <2>5. FileAccounts' /\ QueueAccounts' /\ NewIsNotQueued' /\ writes' \in Seq(Queued)
    BY <1>0, <1>c, <2>1, <2>2, <2>4, QueueGrows
  <2>6. UploadTypes'
    BY <1>0, <1>c, <2>1, <2>5 DEF UploadTypes
  <2> QED
    BY <2>3, <2>4, <2>5, <2>6
<1>2. CASE Proxied!CleanUpGoesOn
  <2>0. UNCHANGED <<remote, upload, owned, open, writes, recoveryFile, running>>
    BY <1>2 DEF Proxied!CleanUpGoesOn
  <2>d. \/ \E u \in owned : deletion' = [deletion EXCEPT !["cleanup"] = [at |-> "sent", file |-> u]]
        \/ \E e \in {"done", "failed"} :
             deletion' = [deletion EXCEPT !["cleanup"] = [at |-> e, file |-> None]]
    BY <1>2 DEF Proxied!CleanUpGoesOn
  <2> USE <2>0, <2>d
  <2>1. UploadTypes /\ OwnedIsSettled /\ ProxyKnows
    OBVIOUS
  <2>2. Lessens
    BY DEF Lessens, MayExist
  <2>3. OwnedIsSettled'
    BY <1>0, <1>c, <2>1 DEF OwnedIsSettled, Settled
  <2>4. ProxyKnows'
    BY <2>1 DEF ProxyKnows, MayExist
  <2>5. FileAccounts' /\ QueueAccounts' /\ NewIsNotQueued'
    BY <2>2, QueueStays
  <2>6. UploadTypes'
    BY <1>0, <1>c, <2>1 DEF UploadTypes
  <2> QED
    BY <2>3, <2>4, <2>5, <2>6
<1>3. ASSUME NEW d \in Proxied!Deleter, Proxied!Deleted(d)
      PROVE  UploadInv'
  <2> USE <1>3 DEF Proxied!Deleted
  <2>1. UploadTypes /\ OwnedIsSettled /\ ProxyKnows
    OBVIOUS
  <2>2. Lessens
    BY DEF Lessens, MayExist
  <2>3. OwnedIsSettled'
    BY <1>0, <2>1 DEF OwnedIsSettled, Settled
  <2>4. ProxyKnows'
    <3>1. deletion[d].file \in Upload /\ Settled(deletion[d].file)
      BY <2>1 DEF OwnedIsSettled
    <3> QED
      BY <2>1, <3>1 DEF ProxyKnows, MayExist, Settled
  <2>5. FileAccounts' /\ QueueAccounts' /\ NewIsNotQueued' /\ writes' \in Seq(Queued)
    BY <1>0, <2>1, <2>2, <2>4, QueueGrows
  <2>6. UploadTypes'
    BY <1>0, <2>1, <2>5 DEF UploadTypes
  <2> QED
    BY <2>3, <2>4, <2>5, <2>6
<1>4. ASSUME NEW d \in Proxied!Deleter, Proxied!DeletionFails(d)
      PROVE  UploadInv'
  <2>0. Proxied!Failed(d) \in {"idle", "failed"}
    BY DEF Proxied!Failed
  <2> USE <1>4 DEF Proxied!DeletionFails
  <2>1. UploadTypes /\ OwnedIsSettled /\ ProxyKnows
    OBVIOUS
  <2>2. Lessens
    BY DEF Lessens, MayExist
  <2>3. OwnedIsSettled'
    BY <1>0, <2>0, <2>1 DEF OwnedIsSettled, Settled
  <2>4. ProxyKnows'
    BY <2>1, <2>2 DEF ProxyKnows, Lessens
  <2>5. FileAccounts' /\ QueueAccounts' /\ NewIsNotQueued'
    BY <2>2, QueueStays
  <2>6. UploadTypes'
    BY <1>0, <2>0, <2>1 DEF UploadTypes
  <2> QED
    BY <2>3, <2>4, <2>5, <2>6
<1> QED
  BY <1>1, <1>2, <1>3, <1>4

\* So does the end of a write, and what its caller goes on to.
LEMMA WriteMoves ==
  ASSUME IsFiniteSet(Upload), Proxied!Deleter \cap Upload = {}, UploadInv, Proxied!Written
  PROVE  UploadInv'
<1> DEFINE who == writes[1].who
<1>0. UploadTypes /\ OwnedIsSettled /\ ProxyKnows /\ NewIsNotQueued /\ FileAccounts /\ QueueAccounts
  BY DEF UploadInv
<1>1. /\ remote \in SUBSET Upload /\ owned \in SUBSET Upload /\ open \in SUBSET Upload
      /\ upload \in [Upload -> {"new", "recording", "sent", "saving", "done", "lost", "failed"}]
      /\ deletion \in [Proxied!Deleter -> [at : {"idle", "sent", "saving", "next", "done", "failed"},
                                           file : Upload \cup {None}]]
      /\ writes \in Seq(Queued)
  BY <1>0 DEF UploadTypes
<1>2. writes # << >> /\ writes' = Tail(writes) /\ UNCHANGED <<remote, owned, open, running>>
  BY DEF Proxied!Written
<1>3. PICK ok \in BOOLEAN :
        /\ recoveryFile' = IF ok THEN Head(writes).snapshot ELSE recoveryFile
        /\ Proxied!Resumed(Head(writes).who, ok)
  BY DEF Proxied!Written
<1>4. /\ Len(writes) \in Nat /\ Len(writes) >= 1 /\ DOMAIN writes = 1 .. Len(writes)
      /\ writes' \in Seq(Queued) /\ DOMAIN writes' = 1 .. Len(writes) - 1
      /\ \A k \in DOMAIN writes' : k + 1 \in DOMAIN writes /\ writes'[k] = writes[k + 1]
      /\ Head(writes) = writes[1] /\ 1 \in DOMAIN writes /\ writes[1] \in Queued
  BY <1>1, <1>2
<1>5. recoveryFile' = IF ok THEN writes[1].snapshot ELSE recoveryFile
  BY <1>3, <1>4
<1>6. upload' = [u \in Upload |->
        IF u # who THEN upload[u]
        ELSE IF ~ ok THEN "failed" ELSE IF upload[u] = "recording" THEN "sent" ELSE "done"]
  BY <1>3, <1>4 DEF Proxied!Resumed
<1>7. deletion' = [d \in Proxied!Deleter |->
        IF d # who THEN deletion[d]
        ELSE [deletion[d] EXCEPT !.at = IF ~ ok THEN Proxied!Failed(d)
                                        ELSE IF d = "cleanup" THEN "next" ELSE "idle"]]
  BY <1>3, <1>4 DEF Proxied!Resumed
<1>8. \A u \in Upload : MayExist(u)' => MayExist(u) \/ (upload[u] = "recording" /\ who = u /\ ok)
  BY <1>1, <1>2, <1>6 DEF MayExist
<1>9. \A u \in Upload : upload'[u] \in {"recording", "new"} => upload'[u] = upload[u]
  BY <1>1, <1>6
<1>10. \A u \in Upload : upload[u] = "new" => who # u
  BY <1>0, <1>4 DEF NewIsNotQueued
<1> HIDE DEF who
<1>11. OwnedIsSettled'
  <2>1. \A u \in Upload : Settled(u) => Settled(u)'
    BY <1>1, <1>6 DEF Settled
  <2>2. \A d \in Proxied!Deleter : deletion'[d].at = "sent" => deletion'[d] = deletion[d]
    BY <1>1, <1>7 DEF Proxied!Failed
  <2> QED
    BY <1>0, <1>1, <1>2, <2>1, <2>2 DEF OwnedIsSettled
<1>12. ProxyKnows'
  BY <1>0, <1>2, <1>8, <1>9 DEF ProxyKnows
<1>13. NewIsNotQueued'
  BY <1>0, <1>4, <1>9 DEF NewIsNotQueued
<1>14. QueueAccounts'
  <2>1. ASSUME NEW k \in DOMAIN writes'
        PROVE  Accounts(writes'[k].snapshot, Answerable(k)')
    <3>1. k \in Nat /\ k + 1 \in DOMAIN writes /\ writes'[k] = writes[k + 1]
      BY <1>4, <2>1
    <3>2. ASSUME NEW u \in Upload, upload'[u] = "recording",
                 NEW j \in 1 .. k, j \in DOMAIN writes', writes'[j].who = u
          PROVE  u \in Answerable(k + 1)
      <4>1. j + 1 \in 1 .. k + 1 /\ j + 1 \in DOMAIN writes /\ writes[j + 1].who = u
        BY <1>4, <3>1, <3>2
      <4> QED
        BY <1>9, <3>2, <4>1 DEF Answerable
    <3>3. ASSUME NEW u \in Upload, MayExist(u)'
          PROVE  u \in Answerable(k + 1)
      <4>1. 1 \in 1 .. k + 1
        BY <3>1
      <4> QED
        BY <1>4, <1>8, <3>3, <4>1 DEF Answerable, who
    <3>4. Answerable(k)' \subseteq Answerable(k + 1)
      BY <3>2, <3>3 DEF Answerable
    <3>5. Accounts(writes[k + 1].snapshot, Answerable(k + 1))
      BY <1>0, <3>1 DEF QueueAccounts
    <3> QED
      BY <3>1, <3>4, <3>5, AccountsForFewer
  <2> QED
    BY <2>1 DEF QueueAccounts
<1>15. FileAccounts'
  <2>1. CASE ok
    <3>1. {u \in Upload : MayExist(u)'} \subseteq Answerable(1)
      BY <1>4, <1>8 DEF Answerable, who
    <3>2. Accounts(writes[1].snapshot, Answerable(1))
      BY <1>0, <1>4 DEF QueueAccounts
    <3> QED
      BY <1>5, <2>1, <3>1, <3>2, AccountsForFewer DEF FileAccounts
  <2>2. CASE ~ ok
    <3>1. {u \in Upload : MayExist(u)'} \subseteq {u \in Upload : MayExist(u)}
      BY <1>8, <2>2
    <3> QED
      BY <1>0, <1>5, <2>2, <3>1, AccountsForFewer DEF FileAccounts
  <2> QED
    BY <2>1, <2>2
<1>16. UploadTypes'
  <2>1. recoveryFile' \in Snapshots
    BY <1>0, <1>4, <1>5 DEF UploadTypes, Queued
  <2>2. upload' \in [Upload -> {"new", "recording", "sent", "saving", "done", "lost", "failed"}]
    BY <1>1, <1>6
  <2>3. deletion' \in [Proxied!Deleter -> [at : {"idle", "sent", "saving", "next", "done", "failed"},
                                           file : Upload \cup {None}]]
    BY <1>1, <1>7 DEF Proxied!Failed
  <2> QED
    BY <1>1, <1>2, <1>4, <2>1, <2>2, <2>3 DEF UploadTypes
<1> QED
  BY <1>11, <1>12, <1>13, <1>14, <1>15, <1>16 DEF UploadInv

\* Every step of the proxy preserves the accounts.
LEMMA UploadSteps ==
  ASSUME IsFiniteSet(Upload), Proxied!Deleter \cap Upload = {}, UploadInv,
         Proxied!ProxyNext \/ UNCHANGED uploadVars
  PROVE  UploadInv'
<1>1. CASE Proxied!Crash \/ UNCHANGED uploadVars
  <2>1. UNCHANGED <<remote, upload, owned, open, deletion, writes, recoveryFile>>
    BY <1>1 DEF Proxied!Crash, Proxied!memoryVars, uploadVars
  <2>2. UploadTypes' /\ OwnedIsSettled' /\ ProxyKnows'
    BY <2>1 DEF UploadInv, UploadTypes, OwnedIsSettled, ProxyKnows, Settled, MayExist
  <2>3. Lessens
    BY <2>1 DEF Lessens, MayExist
  <2> QED
    BY <2>1, <2>2, <2>3, QueueStays DEF UploadInv
<1>2. CASE Proxied!ProxyNext /\ ~ Proxied!Crash
  <2>1. \/ \E u \in Upload :
             \/ Proxied!Receive(u) \/ Proxied!Created(u) \/ Proxied!Acknowledged(u)
             \/ Proxied!NotAcknowledged(u) \/ Proxied!AnswerLost(u) \/ Proxied!Delete(u)
        \/ Proxied!CleanUp \/ Proxied!CleanUpGoesOn
        \/ \E d \in Proxied!Deleter : Proxied!Deleted(d) \/ Proxied!DeletionFails(d)
        \/ Proxied!Written
    BY <1>2, Zenon DEF Proxied!ProxyNext
  <2> QED
    BY <2>1, UploadMoves, DeletionMoves, WriteMoves
<1> QED
  BY <1>1, <1>2

\* The accounts give what is promised, and the types.
LEMMA UploadInvIsEnough ==
  ASSUME IsFiniteSet(Upload), UploadInv
  PROVE  Proxied!RecoveryFileCovers /\ Proxied!ProxyTypeOK
<1>0. UploadTypes /\ FileAccounts
  BY DEF UploadInv
<1>1. PICK pending \in SUBSET Upload :
        /\ Proxied!Cardinality(pending) = recoveryFile.unacknowledged
        /\ {u \in Upload : MayExist(u)} \subseteq recoveryFile.files \cup pending
  BY <1>0 DEF FileAccounts, Accounts
<1>2. remote \ recoveryFile.files \subseteq pending
  BY <1>0, <1>1 DEF UploadTypes, MayExist
<1>3. IsFiniteSet(pending)
  BY FS_Subset
<1>4. Cardinality(remote \ recoveryFile.files) <= Cardinality(pending)
  BY <1>2, <1>3, FS_Subset
<1>5. Proxied!RecoveryFileCovers
  BY <1>1, <1>4, ProxyCardinality DEF Proxied!RecoveryFileCovers
<1>6. Proxied!ProxyTypeOK
  BY <1>0 DEF UploadTypes, Snapshots, Proxied!ProxyTypeOK
<1> QED
  BY <1>5, <1>6

\* A cleanup that says it succeeded has left nothing.
LEMMA CleanupEndsClean ==
  ASSUME UploadInv, Proxied!ProxyNext \/ UNCHANGED uploadVars,
         deletion["cleanup"].at # "done", deletion'["cleanup"].at = "done"
  PROVE  remote' = {}
<1>0. UploadTypes /\ ProxyKnows
  BY DEF UploadInv
<1>1. /\ "cleanup" \in Proxied!Deleter /\ remote \in SUBSET Upload
      /\ deletion \in [Proxied!Deleter -> [at : {"idle", "sent", "saving", "next", "done", "failed"},
                                           file : Upload \cup {None}]]
  BY <1>0 DEF UploadTypes, Proxied!Deleter
<1>2. ~ UNCHANGED deletion
  OBVIOUS
<1>3. \A u \in Upload : ~ Proxied!Receive(u) /\ ~ Proxied!Created(u) /\ ~ Proxied!Acknowledged(u)
        /\ ~ Proxied!NotAcknowledged(u) /\ ~ Proxied!AnswerLost(u)
  BY <1>2 DEF Proxied!Receive, Proxied!Created, Proxied!Acknowledged, Proxied!NotAcknowledged,
         Proxied!AnswerLost
<1>4. \A u \in Upload : ~ Proxied!Delete(u)
  BY <1>1 DEF Proxied!Delete
<1>5. ~ Proxied!CleanUp
  BY <1>1 DEF Proxied!CleanUp
<1>6. \A d \in Proxied!Deleter : ~ Proxied!Deleted(d) /\ ~ Proxied!DeletionFails(d)
  BY <1>1 DEF Proxied!Deleted, Proxied!DeletionFails, Proxied!Failed
<1>7. ~ Proxied!Written
  BY <1>1 DEF Proxied!Written, Proxied!Resumed, Proxied!Failed
<1>8. ~ Proxied!Crash
  BY <1>2 DEF Proxied!Crash, Proxied!memoryVars
<1>9. Proxied!CleanUpGoesOn
  BY <1>2, <1>3, <1>4, <1>5, <1>6, <1>7, <1>8, Zenon DEF Proxied!ProxyNext, uploadVars
<1>10. owned = {} /\ open = {} /\ remote' = remote
  BY <1>1, <1>9 DEF Proxied!CleanUpGoesOn
<1> QED
  BY <1>0, <1>1, <1>10 DEF ProxyKnows, MayExist

(***************************************************************************)
(* ProofAudit                                                              *)
(***************************************************************************)

AuditRow == [kind : {"live", "durable"}, session : Audited, call : Call]

\* A row of a session after which the session has none.
IsLatest(i) == \A j \in DOMAIN audit : audit[j].session = audit[i].session => j <= i

\* A slot holds the call of its session's latest row, and the session has not completed it.
SlotsAreLive ==
  \A s \in Audited : slots[s] # None =>
    /\ loaded
    /\ slots[s] \notin completed[s]
    /\ \E i \in DOMAIN audit : audit[i] = Audit!Row("live", s, slots[s]) /\ IsLatest(i)

\* An active plugin knows what is durable.
DurableIsCompleted ==
  loaded => \A i \in DOMAIN audit : audit[i].kind = "durable" => audit[i].call \in completed[audit[i].session]

\* The row of a session before a durable one is the live row of its call.
WasLive(i) ==
  \E j \in DOMAIN audit :
    /\ j < i /\ audit[j] = Audit!Row("live", audit[i].session, audit[i].call)
    /\ \A k \in DOMAIN audit : k < i /\ audit[k].session = audit[i].session => k <= j

\* The row of a session after a live one is the durable row of its call.
BecameDurable(i) ==
  \E j \in DOMAIN audit :
    /\ j > i /\ audit[j] = Audit!Row("durable", audit[i].session, audit[i].call)
    /\ \A k \in DOMAIN audit : k > i /\ audit[k].session = audit[i].session => k >= j

Reported(i) == [session |-> audit[i].session, call |-> audit[i].call] \in health

\* A live row that is neither is the latest of its session, and its slot is still there or
\* is lost with the plugin.
Pending(i) == IsLatest(i) /\ (slots[audit[i].session] = audit[i].call \/ ~ loaded)

DurableRows ==
  \A i \in DOMAIN audit : audit[i].kind = "durable" =>
    /\ WasLive(i)
    /\ \A j \in DOMAIN audit : j > i => audit[j] # audit[i]

LiveRows ==
  \A i \in DOMAIN audit : audit[i].kind = "live" => BecameDurable(i) \/ Reported(i) \/ Pending(i)

AuditInv ==
  Audit!AuditTypeOK /\ SlotsAreLive /\ DurableIsCompleted /\ DurableRows /\ LiveRows

\* An audit begins empty.
LEMMA AuditStarts ==
  ASSUME Audit!AuditInit
  PROVE  AuditInv
<1>1. /\ audit = << >> /\ health = {} /\ loaded = TRUE
      /\ slots = [s \in Audited |-> None] /\ completed = [s \in Audited |-> {}]
  BY DEF Audit!AuditInit
<1>2. Audit!AuditTypeOK
  BY <1>1 DEF Audit!AuditTypeOK
<1>3. SlotsAreLive
  BY <1>1 DEF SlotsAreLive
<1>4. DurableIsCompleted /\ DurableRows /\ LiveRows
  BY <1>1 DEF DurableIsCompleted, DurableRows, LiveRows
<1> QED
  BY <1>2, <1>3, <1>4 DEF AuditInv

\* What a row is.
LEMMA RowTypes ==
  ASSUME Audit!AuditTypeOK
  PROVE  /\ audit \in Seq(AuditRow) /\ Len(audit) \in Nat /\ DOMAIN audit = 1 .. Len(audit)
         /\ \A i \in DOMAIN audit :
              /\ audit[i] \in AuditRow /\ audit[i].kind \in {"live", "durable"}
              /\ audit[i].session \in Audited /\ audit[i].call \in Call
<1>1. audit \in Seq(AuditRow)
  BY DEF Audit!AuditTypeOK, AuditRow
<1>2. Len(audit) \in Nat /\ DOMAIN audit = 1 .. Len(audit)
  BY <1>1
<1>3. \A i \in DOMAIN audit : audit[i] \in AuditRow
  BY <1>1, <1>2
<1>4. \A e \in AuditRow : e.kind \in {"live", "durable"} /\ e.session \in Audited /\ e.call \in Call
  BY DEF AuditRow
<1> QED
  BY <1>1, <1>2, <1>3, <1>4

\* What the file is after a row.
LEMMA RowIsAppended ==
  ASSUME Audit!AuditTypeOK, NEW row_ \in AuditRow, Audit!Appended(row_)
  PROVE  /\ Len(audit) \in Nat /\ DOMAIN audit = 1 .. Len(audit)
         /\ audit' \in Seq(AuditRow) /\ DOMAIN audit' = 1 .. Len(audit) + 1
         /\ \A i \in DOMAIN audit : i \in DOMAIN audit' /\ audit'[i] = audit[i] /\ i < Len(audit) + 1
         /\ Len(audit) + 1 \in DOMAIN audit' /\ audit'[Len(audit) + 1] = row_
         /\ \A i \in DOMAIN audit' : i \in DOMAIN audit \/ i = Len(audit) + 1
<1>1. audit \in Seq(AuditRow) /\ audit' = Append(audit, row_)
  BY DEF Audit!AuditTypeOK, Audit!Appended, AuditRow
<1> QED
  BY <1>1

\* What a row leaves as it was.
LEMMA RowsStay ==
  ASSUME Audit!AuditTypeOK, NEW row_ \in AuditRow, Audit!Appended(row_), health' = health
  PROVE  /\ \A i \in DOMAIN audit : WasLive(i) => WasLive(i)'
         /\ \A i \in DOMAIN audit : BecameDurable(i) => BecameDurable(i)'
         /\ \A i \in DOMAIN audit : Reported(i) => Reported(i)'
         /\ \A i \in DOMAIN audit : IsLatest(i) /\ audit[i].session # row_.session => IsLatest(i)'
         /\ \A i \in DOMAIN audit' : i = Len(audit) + 1 => IsLatest(i)'
<1> USE RowIsAppended
<1>1. ASSUME NEW i \in DOMAIN audit, WasLive(i)
      PROVE  WasLive(i)'
  <2>1. PICK j \in DOMAIN audit :
          /\ j < i /\ audit[j] = Audit!Row("live", audit[i].session, audit[i].call)
          /\ \A k \in DOMAIN audit : k < i /\ audit[k].session = audit[i].session => k <= j
    BY <1>1 DEF WasLive
  <2>2. j \in DOMAIN audit' /\ audit'[j] = audit[j] /\ audit'[i] = audit[i]
    OBVIOUS
  <2>3. \A k \in DOMAIN audit' : k < i /\ audit'[k].session = audit'[i].session => k <= j
    BY <2>1
  <2> QED
    BY <2>1, <2>2, <2>3 DEF WasLive, Audit!Row
<1>2. ASSUME NEW i \in DOMAIN audit, BecameDurable(i)
      PROVE  BecameDurable(i)'
  <2>1. PICK j \in DOMAIN audit :
          /\ j > i /\ audit[j] = Audit!Row("durable", audit[i].session, audit[i].call)
          /\ \A k \in DOMAIN audit : k > i /\ audit[k].session = audit[i].session => k >= j
    BY <1>2 DEF BecameDurable
  <2>2. j \in DOMAIN audit' /\ audit'[j] = audit[j] /\ audit'[i] = audit[i]
    OBVIOUS
  <2>3. \A k \in DOMAIN audit' : k > i /\ audit'[k].session = audit'[i].session => k >= j
    BY <2>1
  <2> QED
    BY <2>1, <2>2, <2>3 DEF BecameDurable, Audit!Row
<1>3. \A i \in DOMAIN audit : Reported(i) => Reported(i)'
  BY DEF Reported
<1>4. \A i \in DOMAIN audit : IsLatest(i) /\ audit[i].session # row_.session => IsLatest(i)'
  BY DEF IsLatest
<1>5. \A i \in DOMAIN audit' : i = Len(audit) + 1 => IsLatest(i)'
  BY DEF IsLatest
<1> QED
  BY <1>1, <1>2, <1>3, <1>4, <1>5

\* A live row.
LEMMA LiveKeepsAudit ==
  ASSUME None \notin Call, AuditInv, NEW s \in Audited, NEW c \in Call, Audit!Live(s, c)
  PROVE  AuditInv'
<1> DEFINE new == Audit!Row("live", s, c)
<1>0. Audit!AuditTypeOK /\ SlotsAreLive /\ DurableIsCompleted /\ DurableRows /\ LiveRows
  BY DEF AuditInv
<1>1. /\ loaded /\ slots[s] = None /\ c \notin completed[s] /\ Audit!Appended(new)
      /\ slots' = [slots EXCEPT ![s] = c]
      /\ health' = health /\ completed' = completed /\ loaded' = loaded
  BY DEF Audit!Live, Audit!Blocked
<1>2. /\ new \in AuditRow /\ new.kind = "live" /\ new.session = s /\ new.call = c
  BY DEF AuditRow, Audit!Row
<1>3. /\ slots \in [Audited -> Call \cup {None}] /\ completed \in [Audited -> SUBSET Call]
      /\ health \subseteq [session : Audited, call : Call] /\ loaded \in BOOLEAN
  BY <1>0 DEF Audit!AuditTypeOK
<1>4. /\ Len(audit) \in Nat /\ DOMAIN audit = 1 .. Len(audit)
      /\ audit' \in Seq(AuditRow) /\ DOMAIN audit' = 1 .. Len(audit) + 1
      /\ \A i \in DOMAIN audit : i \in DOMAIN audit' /\ audit'[i] = audit[i] /\ i < Len(audit) + 1
      /\ Len(audit) + 1 \in DOMAIN audit' /\ audit'[Len(audit) + 1] = new
      /\ \A i \in DOMAIN audit' : i \in DOMAIN audit \/ i = Len(audit) + 1
  BY <1>0, <1>1, <1>2, RowIsAppended
<1>5. /\ \A i \in DOMAIN audit : WasLive(i) => WasLive(i)'
      /\ \A i \in DOMAIN audit : BecameDurable(i) => BecameDurable(i)'
      /\ \A i \in DOMAIN audit : Reported(i) => Reported(i)'
      /\ \A i \in DOMAIN audit : IsLatest(i) /\ audit[i].session # s => IsLatest(i)'
      /\ \A i \in DOMAIN audit' : i = Len(audit) + 1 => IsLatest(i)'
  BY <1>0, <1>1, <1>2, RowsStay
<1> HIDE DEF new
<1>6. Audit!AuditTypeOK'
  BY <1>1, <1>3, <1>4 DEF Audit!AuditTypeOK, AuditRow
<1>7. SlotsAreLive'
  <2>1. ASSUME NEW t \in Audited, slots'[t] # None
        PROVE  /\ loaded' /\ slots'[t] \notin completed'[t]
               /\ \E i \in DOMAIN audit' : audit'[i] = Audit!Row("live", t, slots'[t]) /\ IsLatest(i)'
    <3>1. CASE t = s
      <4>1. slots'[t] = c /\ completed'[t] = completed[s]
        BY <1>1, <1>3, <3>1
      <4>2. PICK i \in DOMAIN audit' : i = Len(audit) + 1
        BY <1>4
      <4>3. IsLatest(i)' /\ audit'[i] = Audit!Row("live", t, c)
        BY <1>4, <1>5, <3>1, <4>2 DEF new
      <4> QED
        BY <1>1, <4>1, <4>3
    <3>2. CASE t # s
      <4>1. slots'[t] = slots[t]
        BY <1>1, <1>3, <3>2
      <4>2. loaded /\ slots[t] \notin completed[t]
        BY <1>0, <2>1, <4>1 DEF SlotsAreLive
      <4>3. PICK i \in DOMAIN audit : audit[i] = Audit!Row("live", t, slots[t]) /\ IsLatest(i)
        BY <1>0, <2>1, <4>1 DEF SlotsAreLive
      <4>4. audit[i].session = t
        BY <4>3 DEF Audit!Row
      <4>5. i \in DOMAIN audit' /\ audit'[i] = Audit!Row("live", t, slots'[t]) /\ IsLatest(i)'
        BY <1>4, <1>5, <3>2, <4>1, <4>3, <4>4
      <4> QED
        BY <1>1, <4>1, <4>2, <4>5
    <3> QED
      BY <3>1, <3>2
  <2> QED
    BY <2>1 DEF SlotsAreLive
<1>8. DurableIsCompleted'
  BY <1>0, <1>1, <1>2, <1>4 DEF DurableIsCompleted
<1>9. DurableRows'
  <2>1. ASSUME NEW i \in DOMAIN audit', audit'[i].kind = "durable"
        PROVE  WasLive(i)' /\ \A j \in DOMAIN audit' : j > i => audit'[j] # audit'[i]
    <3>1. i \in DOMAIN audit /\ audit[i].kind = "durable" /\ audit'[i] = audit[i]
      BY <1>2, <1>4, <2>1
    <3>2. WasLive(i) /\ \A j \in DOMAIN audit : j > i => audit[j] # audit[i]
      BY <1>0, <3>1 DEF DurableRows
    <3>3. \A j \in DOMAIN audit' : j > i => audit'[j] # audit'[i]
      BY <1>2, <1>4, <3>1, <3>2
    <3> QED
      BY <1>5, <3>1, <3>2, <3>3
  <2> QED
    BY <2>1 DEF DurableRows
<1>10. LiveRows'
  <2>1. ASSUME NEW i \in DOMAIN audit', audit'[i].kind = "live"
        PROVE  BecameDurable(i)' \/ Reported(i)' \/ Pending(i)'
    <3>1. CASE i = Len(audit) + 1
      <4>1. audit'[i].session = s /\ audit'[i].call = c /\ IsLatest(i)'
        BY <1>2, <1>4, <1>5, <3>1
      <4>2. slots'[s] = c
        BY <1>1, <1>3
      <4> QED
        BY <4>1, <4>2 DEF Pending
    <3>2. CASE i \in DOMAIN audit
      <4>1. audit'[i] = audit[i] /\ audit[i].session \in Audited /\ audit[i].call \in Call
        BY <1>0, <1>4, <3>2, RowTypes
      <4>2. BecameDurable(i) \/ Reported(i) \/ Pending(i)
        BY <1>0, <2>1, <3>2, <4>1 DEF LiveRows
      <4>3. ASSUME Pending(i)
            PROVE  Pending(i)'
        <5>1. IsLatest(i) /\ slots[audit[i].session] = audit[i].call
          BY <1>1, <4>3 DEF Pending
        <5>2. audit[i].session # s
          BY <1>1, <4>1, <5>1
        <5> QED
          BY <1>1, <1>3, <1>5, <3>2, <4>1, <5>1, <5>2 DEF Pending
      <4> QED
        BY <1>5, <3>2, <4>2, <4>3
    <3> QED
      BY <1>4, <3>1, <3>2
  <2> QED
    BY <2>1 DEF LiveRows
<1> QED
  BY <1>6, <1>7, <1>8, <1>9, <1>10 DEF AuditInv

\* A durable row.
LEMMA DurableKeepsAudit ==
  ASSUME None \notin Call, AuditInv, NEW s \in Audited, NEW c \in Call, Audit!Durable(s, c)
  PROVE  AuditInv'
<1> DEFINE new == Audit!Row("durable", s, c)
<1>0. Audit!AuditTypeOK /\ SlotsAreLive /\ DurableIsCompleted /\ DurableRows /\ LiveRows
  BY DEF AuditInv
<1>1. /\ loaded /\ slots[s] = c /\ c \notin completed[s] /\ Audit!Appended(new)
      /\ slots' = [slots EXCEPT ![s] = None]
      /\ completed' = [completed EXCEPT ![s] = @ \cup {c}]
      /\ health' = health /\ loaded' = loaded
  BY DEF Audit!Durable
<1>2. /\ new \in AuditRow /\ new.kind = "durable" /\ new.session = s /\ new.call = c
  BY DEF AuditRow, Audit!Row
<1>3. /\ slots \in [Audited -> Call \cup {None}] /\ completed \in [Audited -> SUBSET Call]
      /\ health \subseteq [session : Audited, call : Call] /\ loaded \in BOOLEAN
  BY <1>0 DEF Audit!AuditTypeOK
<1>4. /\ Len(audit) \in Nat /\ DOMAIN audit = 1 .. Len(audit)
      /\ audit' \in Seq(AuditRow) /\ DOMAIN audit' = 1 .. Len(audit) + 1
      /\ \A i \in DOMAIN audit : i \in DOMAIN audit' /\ audit'[i] = audit[i] /\ i < Len(audit) + 1
      /\ Len(audit) + 1 \in DOMAIN audit' /\ audit'[Len(audit) + 1] = new
      /\ \A i \in DOMAIN audit' : i \in DOMAIN audit \/ i = Len(audit) + 1
  BY <1>0, <1>1, <1>2, RowIsAppended
<1>5. /\ \A i \in DOMAIN audit : WasLive(i) => WasLive(i)'
      /\ \A i \in DOMAIN audit : BecameDurable(i) => BecameDurable(i)'
      /\ \A i \in DOMAIN audit : Reported(i) => Reported(i)'
      /\ \A i \in DOMAIN audit : IsLatest(i) /\ audit[i].session # s => IsLatest(i)'
      /\ \A i \in DOMAIN audit' : i = Len(audit) + 1 => IsLatest(i)'
  BY <1>0, <1>1, <1>2, RowsStay
<1> HIDE DEF new
<1>l. PICK live \in DOMAIN audit : audit[live] = Audit!Row("live", s, c) /\ IsLatest(live)
  BY <1>0, <1>1 DEF SlotsAreLive
<1>r. audit[live].session = s /\ audit[live].call = c /\ audit[live].kind = "live"
  BY <1>l DEF Audit!Row
<1>6. Audit!AuditTypeOK'
  BY <1>1, <1>3, <1>4 DEF Audit!AuditTypeOK, AuditRow
<1>7. SlotsAreLive'
  <2>1. ASSUME NEW t \in Audited, slots'[t] # None
        PROVE  /\ loaded' /\ slots'[t] \notin completed'[t]
               /\ \E i \in DOMAIN audit' : audit'[i] = Audit!Row("live", t, slots'[t]) /\ IsLatest(i)'
    <3>1. t # s /\ slots'[t] = slots[t] /\ completed'[t] = completed[t]
      BY <1>1, <1>3, <2>1
    <3>2. loaded /\ slots[t] \notin completed[t]
      BY <1>0, <2>1, <3>1 DEF SlotsAreLive
    <3>3. PICK i \in DOMAIN audit : audit[i] = Audit!Row("live", t, slots[t]) /\ IsLatest(i)
      BY <1>0, <2>1, <3>1 DEF SlotsAreLive
    <3>4. audit[i].session = t
      BY <3>3 DEF Audit!Row
    <3>5. i \in DOMAIN audit' /\ audit'[i] = Audit!Row("live", t, slots'[t]) /\ IsLatest(i)'
      BY <1>4, <1>5, <3>1, <3>3, <3>4
    <3> QED
      BY <1>1, <3>1, <3>2, <3>5
  <2> QED
    BY <2>1 DEF SlotsAreLive
<1>8. DurableIsCompleted'
  <2>1. ASSUME NEW i \in DOMAIN audit', audit'[i].kind = "durable"
        PROVE  audit'[i].call \in completed'[audit'[i].session]
    <3>1. CASE i = Len(audit) + 1
      BY <1>1, <1>2, <1>3, <1>4, <3>1
    <3>2. CASE i \in DOMAIN audit
      <4>1. audit'[i] = audit[i] /\ audit[i].session \in Audited
        BY <1>0, <1>4, <3>2, RowTypes
      <4> QED
        BY <1>0, <1>1, <1>3, <2>1, <3>2, <4>1 DEF DurableIsCompleted
    <3> QED
      BY <1>4, <3>1, <3>2
  <2> QED
    BY <2>1 DEF DurableIsCompleted
<1>9. DurableRows'
  <2>1. ASSUME NEW i \in DOMAIN audit', audit'[i].kind = "durable"
        PROVE  WasLive(i)' /\ \A j \in DOMAIN audit' : j > i => audit'[j] # audit'[i]
    <3>1. CASE i \in DOMAIN audit
      <4>1. audit[i].kind = "durable" /\ audit'[i] = audit[i]
        BY <1>4, <2>1, <3>1
      <4>2. WasLive(i) /\ \A j \in DOMAIN audit : j > i => audit[j] # audit[i]
        BY <1>0, <3>1, <4>1 DEF DurableRows
      <4>3. audit[i] # new
        <5>1. audit[i].call \in completed[audit[i].session]
          BY <1>0, <1>1, <3>1, <4>1 DEF DurableIsCompleted
        <5> QED
          BY <1>1, <1>2, <5>1
      <4>4. \A j \in DOMAIN audit' : j > i => audit'[j] # audit'[i]
        BY <1>4, <3>1, <4>1, <4>2, <4>3
      <4> QED
        BY <1>5, <3>1, <4>2, <4>4
    <3>2. CASE i = Len(audit) + 1
      <4>1. live \in DOMAIN audit' /\ live < i /\ audit'[live] = audit[live] /\ audit'[i] = new
        BY <1>4, <1>l, <3>2
      <4>2. \A k \in DOMAIN audit' : k < i /\ audit'[k].session = s => k <= live
        BY <1>4, <1>l, <1>r, <3>2 DEF IsLatest
      <4>3. WasLive(i)'
        BY <1>2, <1>l, <4>1, <4>2 DEF WasLive
      <4>4. \A j \in DOMAIN audit' : ~ j > i
        BY <1>4, <3>2
      <4> QED
        BY <4>3, <4>4
    <3> QED
      BY <1>4, <3>1, <3>2
  <2> QED
    BY <2>1 DEF DurableRows
<1>10. LiveRows'
  <2>1. ASSUME NEW i \in DOMAIN audit', audit'[i].kind = "live"
        PROVE  BecameDurable(i)' \/ Reported(i)' \/ Pending(i)'
    <3>1. i \in DOMAIN audit /\ audit'[i] = audit[i]
      BY <1>2, <1>4, <2>1
    <3>2. audit[i].session \in Audited /\ audit[i].call \in Call
      BY <1>0, <3>1, RowTypes
    <3>3. BecameDurable(i) \/ Reported(i) \/ Pending(i)
      BY <1>0, <2>1, <3>1 DEF LiveRows
    <3>4. ASSUME Pending(i)
          PROVE  BecameDurable(i)' \/ Pending(i)'
      <4>1. IsLatest(i) /\ slots[audit[i].session] = audit[i].call
        BY <1>1, <3>4 DEF Pending
      <4>2. CASE audit[i].session # s
        BY <1>1, <1>3, <1>5, <3>1, <3>2, <4>1, <4>2 DEF Pending
      <4>3. CASE audit[i].session = s
        <5>1. audit[i].call = c
          BY <1>1, <4>1, <4>3
        <5>2. \A k \in DOMAIN audit' : k > i /\ audit'[k].session = s => k >= Len(audit) + 1
          BY <1>4, <3>1, <4>1, <4>3 DEF IsLatest
        <5>3. Len(audit) + 1 > i
          BY <1>4, <3>1
        <5> QED
          BY <1>4, <3>1, <4>3, <5>1, <5>2, <5>3 DEF BecameDurable, new
      <4> QED
        BY <4>2, <4>3
    <3> QED
      BY <1>5, <3>1, <3>3, <3>4
  <2> QED
    BY <2>1 DEF LiveRows
<1> QED
  BY <1>6, <1>7, <1>8, <1>9, <1>10 DEF AuditInv

\* The plugin goes, with what it remembers.
LEMMA UnloadKeepsAudit ==
  ASSUME AuditInv, Audit!Unload
  PROVE  AuditInv'
<1>0. Audit!AuditTypeOK /\ SlotsAreLive /\ DurableIsCompleted /\ DurableRows /\ LiveRows
  BY DEF AuditInv
<1>1. /\ loaded' = FALSE /\ audit' = audit /\ health' = health
      /\ slots' = [s \in Audited |-> None] /\ completed' = [s \in Audited |-> {}]
  BY DEF Audit!Unload
<1>2. Audit!AuditTypeOK'
  BY <1>0, <1>1 DEF Audit!AuditTypeOK
<1>3. SlotsAreLive' /\ DurableIsCompleted'
  BY <1>1 DEF SlotsAreLive, DurableIsCompleted
<1>4. DurableRows'
  BY <1>0, <1>1 DEF DurableRows, WasLive
<1>5. LiveRows'
  BY <1>0, <1>1 DEF LiveRows, BecameDurable, Reported, Pending, IsLatest
<1> QED
  BY <1>2, <1>3, <1>4, <1>5 DEF AuditInv

\* It is loaded over the rows that are there, and reports what they leave open.
LEMMA LoadKeepsAudit ==
  ASSUME AuditInv, Audit!Load
  PROVE  AuditInv'
<1>0. Audit!AuditTypeOK /\ SlotsAreLive /\ DurableIsCompleted /\ DurableRows /\ LiveRows
  BY DEF AuditInv
<1>1. /\ ~ loaded /\ loaded' = TRUE /\ audit' = audit /\ slots' = slots
      /\ completed' = [s \in Audited |-> {audit[i].call : i \in Audit!Rows("durable", s)}]
      /\ health' = health \cup
           UNION {{[session |-> s, call |-> c] : c \in Audit!Orphaned(s)} : s \in Audited}
  BY DEF Audit!Load
<1>2. /\ audit \in Seq(AuditRow) /\ slots \in [Audited -> Call \cup {None}]
      /\ health \subseteq [session : Audited, call : Call]
      /\ DOMAIN audit = 1 .. Len(audit) /\ Len(audit) \in Nat
      /\ \A i \in DOMAIN audit : audit[i] \in AuditRow
  BY <1>0, RowTypes DEF Audit!AuditTypeOK
<1>3. \A s \in Audited : Audit!Orphaned(s) \subseteq Call
  BY <1>2 DEF Audit!Orphaned, Audit!Rows, AuditRow
<1>4. \A s \in Audited : {audit[i].call : i \in Audit!Rows("durable", s)} \subseteq Call
  BY <1>2 DEF Audit!Rows, AuditRow
<1>5. Audit!AuditTypeOK'
  <2>1. completed' \in [Audited -> SUBSET Call]
    BY <1>1, <1>4
  <2>2. health' \subseteq [session : Audited, call : Call]
    BY <1>1, <1>2, <1>3
  <2> QED
    BY <1>1, <1>2, <2>1, <2>2 DEF Audit!AuditTypeOK, AuditRow
<1>6. SlotsAreLive'
  BY <1>0, <1>1 DEF SlotsAreLive
<1>7. DurableIsCompleted'
  BY <1>1, <1>2 DEF DurableIsCompleted, Audit!Rows, AuditRow
<1>8. DurableRows'
  BY <1>0, <1>1 DEF DurableRows, WasLive
<1>9. LiveRows'
  <2>1. ASSUME NEW i \in DOMAIN audit, audit[i].kind = "live"
        PROVE  BecameDurable(i)' \/ Reported(i)'
    <3>1. CASE Pending(i)
      <4>1. IsLatest(i) /\ audit[i].session \in Audited
        BY <1>2, <3>1 DEF Pending, AuditRow
      <4>2. \A j \in Audit!Rows("durable", audit[i].session) : j \in DOMAIN audit /\ j <= i /\ j # i
        BY <2>1, <4>1 DEF Audit!Rows, IsLatest
      <4>3. \A j \in Audit!Rows("durable", audit[i].session) : j < i
        BY <1>2, <4>2
      <4>4. \A j \in Audit!Rows("live", audit[i].session) : j <= i
        BY <4>1 DEF Audit!Rows, IsLatest
      <4>5. i \in Audit!Rows("live", audit[i].session)
        BY <2>1 DEF Audit!Rows
      <4>6. audit[i].call \in Audit!Orphaned(audit[i].session)
        BY <4>3, <4>4, <4>5 DEF Audit!Orphaned
      <4> QED
        BY <1>1, <4>1, <4>6 DEF Reported
    <3>2. CASE BecameDurable(i)
      BY <1>1, <3>2 DEF BecameDurable
    <3>3. CASE Reported(i)
      BY <1>1, <3>3 DEF Reported
    <3> QED
      BY <1>0, <2>1, <3>1, <3>2, <3>3 DEF LiveRows
  <2> QED
    BY <1>1, <2>1 DEF LiveRows
<1> QED
  BY <1>5, <1>6, <1>7, <1>8, <1>9 DEF AuditInv

\* Every step of the plugin preserves what its rows say.
LEMMA AuditSteps ==
  ASSUME None \notin Call, AuditInv, Audit!AuditNext \/ UNCHANGED auditVars
  PROVE  AuditInv'
<1>1. CASE UNCHANGED auditVars
  BY <1>1 DEF AuditInv, Audit!AuditTypeOK, SlotsAreLive, DurableIsCompleted, DurableRows, LiveRows,
         WasLive, BecameDurable, Reported, Pending, IsLatest, auditVars
<1>2. CASE Audit!AuditNext
  BY <1>2, LiveKeepsAudit, DurableKeepsAudit, UnloadKeepsAudit, LoadKeepsAudit DEF Audit!AuditNext
<1> QED
  BY <1>1, <1>2

\* It says what is promised.
LEMMA AuditInvIsEnough ==
  ASSUME AuditInv
  PROVE  Audit!AuditTellsCalls
<1>0. Audit!AuditTypeOK /\ DurableRows /\ LiveRows
  BY DEF AuditInv
<1>1. /\ DOMAIN audit = 1 .. Len(audit) /\ Len(audit) \in Nat
      /\ \A i \in DOMAIN audit : audit[i].kind \in {"live", "durable"}
  BY <1>0, RowTypes
<1>2. ASSUME NEW i \in DOMAIN audit, audit[i].kind = "durable"
      PROVE  /\ \E j \in {j \in DOMAIN audit : j < i /\ audit[j].session = audit[i].session} :
                  /\ audit[j] = Audit!Row("live", audit[i].session, audit[i].call)
                  /\ \A k \in {k \in DOMAIN audit : k < i /\ audit[k].session = audit[i].session} : k <= j
             /\ \A j \in {j \in DOMAIN audit : j > i /\ audit[j].session = audit[i].session} :
                  audit[j] # audit[i]
  BY <1>0, <1>2 DEF DurableRows, WasLive, Audit!Row
<1>3. ASSUME NEW i \in DOMAIN audit, audit[i].kind = "live", BecameDurable(i)
      PROVE  \E j \in {j \in DOMAIN audit : j > i /\ audit[j].session = audit[i].session} :
                  /\ audit[j] = Audit!Row("durable", audit[i].session, audit[i].call)
                  /\ \A k \in {k \in DOMAIN audit : k > i /\ audit[k].session = audit[i].session} : k >= j
  BY <1>3 DEF BecameDurable, Audit!Row
<1>4. ASSUME NEW i \in DOMAIN audit, Pending(i)
      PROVE  \/ slots[audit[i].session] = audit[i].call
             \/ ~ loaded /\ {j \in DOMAIN audit : j > i /\ audit[j].session = audit[i].session} = {}
  BY <1>1, <1>4 DEF Pending, IsLatest
<1>5. \A i \in DOMAIN audit : audit[i].kind # "durable" => audit[i].kind = "live"
  BY <1>1
<1> QED
  BY <1>0, <1>2, <1>3, <1>4, <1>5 DEF Audit!AuditTellsCalls, LiveRows, Reported

(***************************************************************************)
(* ProofTool                                                               *)
(***************************************************************************)

\* The record of an attempt.
AttemptRecord ==
  [at : {"idle", "partition", "open", "write", "close", "succeeded", "undo", "undo directory", "failed"},
   made : BOOLEAN, owns : BOOLEAN, open : BOOLEAN, cleanup : BOOLEAN]

\* The variables of the tool have their types.
ToolTypes ==
  /\ mode \in {"single", "call"} /\ place \in [Attempt -> Tool!Path]
  /\ directory \in [Tool!Path -> Attempt \cup {Tool!Nobody}]
  /\ file \in [Tool!Path -> Attempt \cup {Tool!Nobody}]
  /\ attempt \in [Attempt -> AttemptRecord]

\* What an attempt has made and owns is at its path until it takes it back, and nothing there
\* is its own that it does not know of.
Holds(c) ==
  /\ attempt[c].at \in {"idle", "partition", "open"} => ~ attempt[c].owns
  /\ attempt[c].at \in {"idle", "partition"} => ~ attempt[c].made
  /\ ~ attempt[c].owns => file[place[c]] # c /\ ~ attempt[c].open
  /\ ~ attempt[c].made => directory[place[c]] # c
  /\ attempt[c].at \in {"write", "close", "succeeded"} => attempt[c].owns
  /\ attempt[c].at \in {"write", "close", "succeeded", "undo"} /\ attempt[c].owns => file[place[c]] = c
  /\ attempt[c].at \notin {"undo directory", "failed"} /\ attempt[c].made => directory[place[c]] = c
  /\ attempt[c].at = "undo directory" /\ attempt[c].made => directory[place[c]] = c
  /\ mode = "call" /\ attempt[c].at \in {"open", "write", "close", "succeeded"} => attempt[c].made
  /\ attempt[c].at = "succeeded" => ~ attempt[c].open
  /\ attempt[c].at \in {"undo directory", "failed"} /\ ~ attempt[c].cleanup =>
       ~ attempt[c].open /\ file[place[c]] # c
  /\ attempt[c].at = "failed" /\ ~ attempt[c].cleanup => directory[place[c]] # c

ToolInv == ToolTypes /\ \A c \in Attempt : Holds(c)

\* The faults of the tool are counted.
ToolCounts == ioFaults \in 0 .. MaxIoFaults

\* An attempt begins with nothing at any path.
LEMMA ToolStarts ==
  ASSUME MaxIoFaults \in Nat, Tool!Nobody \notin Attempt, Tool!ToolInit
  PROVE  ToolInv /\ ToolCounts
<1>1. ToolCounts
  BY DEF Tool!ToolInit, ToolCounts
<1>2. /\ mode \in {"single", "call"} /\ place \in [Attempt -> Tool!Path]
      /\ directory = [o \in Tool!Path |-> Tool!Nobody] /\ file = [o \in Tool!Path |-> Tool!Nobody]
      /\ attempt = [c \in Attempt |-> [at |-> "idle", made |-> FALSE, owns |-> FALSE,
                                       open |-> FALSE, cleanup |-> FALSE]]
  BY DEF Tool!ToolInit, Tool!Path
<1>3. ToolTypes
  BY <1>2 DEF ToolTypes, AttemptRecord
<1>4. ASSUME NEW c \in Attempt PROVE Holds(c)
  <2>1. file[place[c]] # c /\ directory[place[c]] # c
    BY <1>2
  <2>2. attempt[c] = [at |-> "idle", made |-> FALSE, owns |-> FALSE, open |-> FALSE, cleanup |-> FALSE]
    BY <1>2
  <2> QED
    BY <2>1, <2>2 DEF Holds
<1> QED
  BY <1>1, <1>3, <1>4 DEF ToolInv

\* What an attempt holds is its own: another attempt leaves it where it is.
LEMMA OthersHold ==
  ASSUME NEW c \in Attempt, Holds(c), attempt'[c] = attempt[c], UNCHANGED <<mode, place>>,
         \/ file'[place[c]] = file[place[c]]
         \/ file[place[c]] # c /\ file'[place[c]] # c,
         \/ directory'[place[c]] = directory[place[c]]
         \/ directory[place[c]] # c /\ directory'[place[c]] # c
  PROVE  Holds(c)'
BY DEF Holds

\* The step of an attempt.
ToolStep(d) ==
  \/ Tool!AbortCall(d) \/ Tool!Enters(d) \/ Tool!RootRefused(d) \/ Tool!CreatesPartition(d)
  \/ Tool!Opens(d) \/ Tool!Writes(d) \/ Tool!Closes(d) \/ Tool!IoFails(d)
  \/ \E closeFails, rmFails \in BOOLEAN : Tool!Undo(d, closeFails, rmFails)
  \/ \E fails \in BOOLEAN : Tool!UndoDirectory(d, fails)

\* A step that changes neither a file nor a directory.
LEMMA ToolMoves ==
  ASSUME ToolInv, NEW d \in Attempt, NEW r \in AttemptRecord,
         UNCHANGED <<mode, place, directory, file>>,
         attempt' = [attempt EXCEPT ![d] = r],
         Holds(d)'
  PROVE  ToolInv'
<1>1. ToolTypes'
  BY DEF ToolInv, ToolTypes
<1>2. ASSUME NEW c \in Attempt \ {d} PROVE Holds(c)'
  <2>1. attempt'[c] = attempt[c]
    BY DEF ToolInv, ToolTypes
  <2> QED
    BY <2>1, OthersHold DEF ToolInv
<1> QED
  BY <1>1, <1>2 DEF ToolInv

\* A step of an attempt at its own path, where it takes nothing of another attempt.
LEMMA ToolTakes ==
  ASSUME ToolInv, NEW d \in Attempt, NEW r \in AttemptRecord,
         NEW f \in {d, Tool!Nobody}, NEW g \in {d, Tool!Nobody}, Tool!Nobody \notin Attempt,
         UNCHANGED <<mode, place>>,
         attempt' = [attempt EXCEPT ![d] = r],
         file' = file \/ (file[place[d]] \in {d, Tool!Nobody} /\ file' = [file EXCEPT ![place[d]] = f]),
         directory' = directory
           \/ (directory[place[d]] \in {d, Tool!Nobody} /\ directory' = [directory EXCEPT ![place[d]] = g]),
         Holds(d)'
  PROVE  ToolInv'
<1>0. place[d] \in Tool!Path
  BY DEF ToolInv, ToolTypes
<1>1. ToolTypes'
  BY <1>0 DEF ToolInv, ToolTypes
<1>2. ASSUME NEW c \in Attempt \ {d} PROVE Holds(c)'
  <2>1. attempt'[c] = attempt[c] /\ place[c] \in Tool!Path
    BY DEF ToolInv, ToolTypes
  <2>2. file'[place[c]] = file[place[c]] \/ (file[place[c]] # c /\ file'[place[c]] # c)
    BY <1>0, <2>1 DEF ToolInv, ToolTypes
  <2>3. directory'[place[c]] = directory[place[c]] \/ (directory[place[c]] # c /\ directory'[place[c]] # c)
    BY <1>0, <2>1 DEF ToolInv, ToolTypes
  <2> QED
    BY <2>1, <2>2, <2>3, OthersHold DEF ToolInv
<1> QED
  BY <1>1, <1>2 DEF ToolInv

\* An attempt that goes on, or gives up, without having made anything.
LEMMA ToolGoes ==
  ASSUME ToolInv, NEW d \in Attempt, NEW l, UNCHANGED <<mode, place, directory, file>>,
         attempt' = [attempt EXCEPT ![d].at = l],
         \/ attempt[d].at = "idle" /\ (l \in {"failed", "partition"} \/ (l = "open" /\ mode = "single"))
         \/ attempt[d].at \in {"partition", "open", "write", "close"} /\ l = "undo"
         \/ attempt[d].at = "write" /\ l = "close"
  PROVE  ToolInv'
<1> DEFINE r == [attempt[d] EXCEPT !.at = l]
<1>1. attempt[d] \in AttemptRecord /\ Holds(d)
  BY DEF ToolInv, ToolTypes
<1>2. r \in AttemptRecord
  BY <1>1 DEF AttemptRecord
<1>3. attempt' = [attempt EXCEPT ![d] = r] /\ attempt'[d] = r
  BY DEF ToolInv, ToolTypes
<1>4. /\ r.at = l /\ r.made = attempt[d].made /\ r.owns = attempt[d].owns /\ r.open = attempt[d].open
      /\ r.cleanup = attempt[d].cleanup
  BY <1>1 DEF AttemptRecord
<1>5. /\ attempt'[d].at = l /\ attempt'[d].made = attempt[d].made /\ attempt'[d].owns = attempt[d].owns
      /\ attempt'[d].open = attempt[d].open /\ attempt'[d].cleanup = attempt[d].cleanup
  BY <1>3, <1>4
<1>6. Holds(d)'
  BY <1>1, <1>5 DEF Holds
<1> QED
  BY <1>2, <1>3, <1>6, ToolMoves

\* Making the directory of the call.
LEMMA CreatingKeepsInv ==
  ASSUME ToolInv, Tool!Nobody \notin Attempt, NEW d \in Attempt, Tool!CreatesPartition(d)
  PROVE  ToolInv'
<1> USE DEF Tool!At, Tool!Same, Tool!Goes
<1>1. CASE directory[place[d]] # Tool!Nobody
  BY <1>1, ToolGoes DEF Tool!CreatesPartition
<1>2. CASE directory[place[d]] = Tool!Nobody
  <2> DEFINE r == [attempt[d] EXCEPT !.at = "open", !.made = TRUE]
  <2>1. attempt[d] \in AttemptRecord /\ Holds(d) /\ place[d] \in Tool!Path
    BY DEF ToolInv, ToolTypes
  <2>2. r \in AttemptRecord
    BY <2>1 DEF AttemptRecord
  <2>3. attempt[d].at = "partition" /\ UNCHANGED <<mode, place, file>>
    BY DEF Tool!CreatesPartition
  <2>4. directory' = [directory EXCEPT ![place[d]] = d] /\ attempt' = [attempt EXCEPT ![d] = r]
    BY <1>2 DEF Tool!CreatesPartition
  <2>5. attempt'[d] = r /\ directory'[place[d]] = d
    BY <2>1, <2>4 DEF ToolInv, ToolTypes
  <2>6. /\ r.at = "open" /\ r.made = TRUE /\ r.owns = attempt[d].owns
        /\ r.open = attempt[d].open /\ r.cleanup = attempt[d].cleanup
    BY <2>1 DEF AttemptRecord
  <2>7. /\ attempt'[d].at = "open" /\ attempt'[d].made = TRUE /\ attempt'[d].owns = attempt[d].owns
        /\ attempt'[d].open = attempt[d].open
    BY <2>5, <2>6
  <2>8. Holds(d)'
    BY <2>1, <2>3, <2>5, <2>7 DEF Holds
  <2> QED
    BY <1>2, <2>2, <2>3, <2>4, <2>8, ToolTakes
<1> QED
  BY <1>1, <1>2

\* Opening the proof.
LEMMA OpeningKeepsInv ==
  ASSUME ToolInv, Tool!Nobody \notin Attempt, NEW d \in Attempt, Tool!Opens(d)
  PROVE  ToolInv'
<1> USE DEF Tool!At, Tool!Same, Tool!Goes
<1>1. CASE ~ (d \notin aborted /\ Tool!OpensProof(d))
  BY <1>1, ToolGoes DEF Tool!Opens
<1>2. CASE d \notin aborted /\ Tool!OpensProof(d)
  <2> DEFINE r == [attempt[d] EXCEPT !.at = "write", !.owns = TRUE, !.open = TRUE]
  <2>1. attempt[d] \in AttemptRecord /\ Holds(d) /\ place[d] \in Tool!Path
    BY DEF ToolInv, ToolTypes
  <2>2. r \in AttemptRecord
    BY <2>1 DEF AttemptRecord
  <2>3. attempt[d].at = "open" /\ UNCHANGED <<mode, place, directory>> /\ file[place[d]] = Tool!Nobody
    BY <1>2 DEF Tool!Opens, Tool!OpensProof
  <2>4. file' = [file EXCEPT ![place[d]] = d] /\ attempt' = [attempt EXCEPT ![d] = r]
    BY <1>2 DEF Tool!Opens
  <2>5. attempt'[d] = r /\ file'[place[d]] = d
    BY <2>1, <2>4 DEF ToolInv, ToolTypes
  <2>6. r.at = "write" /\ r.made = attempt[d].made /\ r.owns = TRUE
    BY <2>1 DEF AttemptRecord
  <2>7. attempt'[d].at = "write" /\ attempt'[d].made = attempt[d].made /\ attempt'[d].owns = TRUE
    BY <2>5, <2>6
  <2>8. Holds(d)'
    BY <2>1, <2>3, <2>5, <2>7 DEF Holds
  <2> QED
    BY <2>2, <2>3, <2>4, <2>8, ToolTakes
<1> QED
  BY <1>1, <1>2

\* Closing the proof.
LEMMA ClosingProofKeepsInv ==
  ASSUME ToolInv, NEW d \in Attempt, Tool!Closes(d)
  PROVE  ToolInv'
<1> DEFINE r == [attempt[d] EXCEPT !.at = "succeeded", !.open = FALSE]
<1>1. attempt[d] \in AttemptRecord /\ Holds(d)
  BY DEF ToolInv, ToolTypes
<1>2. r \in AttemptRecord
  BY <1>1 DEF AttemptRecord
<1>3. /\ attempt[d].at = "close" /\ UNCHANGED <<mode, place, directory, file>>
      /\ attempt' = [attempt EXCEPT ![d] = r]
  BY DEF Tool!Closes, Tool!At, Tool!Same
<1>4. attempt'[d] = r
  BY <1>3 DEF ToolInv, ToolTypes
<1>5. r.at = "succeeded" /\ r.made = attempt[d].made /\ r.owns = attempt[d].owns /\ r.open = FALSE
  BY <1>1 DEF AttemptRecord
<1>6. /\ attempt'[d].at = "succeeded" /\ attempt'[d].made = attempt[d].made
      /\ attempt'[d].owns = attempt[d].owns /\ attempt'[d].open = FALSE
  BY <1>4, <1>5
<1>7. Holds(d)'
  BY <1>1, <1>3, <1>6 DEF Holds
<1> QED
  BY <1>2, <1>3, <1>7, ToolMoves

\* The first half of the catch block: the handle is closed, the file removed.
LEMMA UndoingKeepsInv ==
  ASSUME ToolInv, Tool!Nobody \notin Attempt, NEW d \in Attempt,
         NEW closeFails \in BOOLEAN, NEW rmFails \in BOOLEAN, Tool!Undo(d, closeFails, rmFails)
  PROVE  ToolInv'
<1> DEFINE r == [attempt[d] EXCEPT !.at = "undo directory", !.open = @ /\ closeFails,
                                   !.cleanup = closeFails \/ rmFails]
<1>1. attempt[d] \in AttemptRecord /\ Holds(d) /\ place[d] \in Tool!Path
  BY DEF ToolInv, ToolTypes
<1>2. r \in AttemptRecord
  BY <1>1 DEF AttemptRecord
<1>3. /\ attempt[d].at = "undo" /\ UNCHANGED <<mode, place, directory>>
      /\ file' = IF attempt[d].owns /\ ~ rmFails THEN [file EXCEPT ![place[d]] = Tool!Nobody] ELSE file
      /\ attempt' = [attempt EXCEPT ![d] = r]
  BY DEF Tool!Undo, Tool!At, Tool!Same, Tool!Owns
<1>4. attempt'[d] = r
  BY <1>3 DEF ToolInv, ToolTypes
<1>5. /\ r.at = "undo directory" /\ r.made = attempt[d].made /\ r.owns = attempt[d].owns
      /\ r.open = (attempt[d].open /\ closeFails) /\ r.cleanup = (closeFails \/ rmFails)
  BY <1>1 DEF AttemptRecord
<1>6. /\ attempt'[d].at = "undo directory" /\ attempt'[d].made = attempt[d].made
      /\ attempt'[d].owns = attempt[d].owns
      /\ attempt'[d].open = (attempt[d].open /\ closeFails)
      /\ attempt'[d].cleanup = (closeFails \/ rmFails)
  BY <1>4, <1>5
<1>7. CASE attempt[d].owns /\ ~ rmFails
  <2>1. file[place[d]] = d
    BY <1>1, <1>3, <1>7 DEF Holds
  <2>2. file' = [file EXCEPT ![place[d]] = Tool!Nobody]
    BY <1>3, <1>7
  <2>3. file'[place[d]] # d
    BY <1>1, <2>2 DEF ToolInv, ToolTypes
  <2>4. Holds(d)'
    BY <1>1, <1>3, <1>6, <1>7, <2>3 DEF Holds
  <2> QED
    BY <1>2, <1>3, <2>1, <2>2, <2>4, ToolTakes
<1>8. CASE ~ (attempt[d].owns /\ ~ rmFails)
  <2>1. file' = file
    BY <1>3, <1>8
  <2>2. Holds(d)'
    BY <1>1, <1>3, <1>6, <1>8, <2>1 DEF Holds
  <2> QED
    BY <1>2, <1>3, <2>1, <2>2, ToolMoves
<1> QED
  BY <1>7, <1>8

\* The second half: the directory.
LEMMA UndoingDirectoryKeepsInv ==
  ASSUME ToolInv, Tool!Nobody \notin Attempt, NEW d \in Attempt, NEW fails \in BOOLEAN,
         Tool!UndoDirectory(d, fails)
  PROVE  ToolInv'
<1> DEFINE stays == fails \/ file[place[d]] # Tool!Nobody
           r == [attempt[d] EXCEPT !.at = "failed", !.cleanup = @ \/ (attempt[d].made /\ stays)]
<1>1. attempt[d] \in AttemptRecord /\ Holds(d) /\ place[d] \in Tool!Path
  BY DEF ToolInv, ToolTypes
<1>2. r \in AttemptRecord
  BY <1>1 DEF AttemptRecord
<1>3. /\ attempt[d].at = "undo directory" /\ UNCHANGED <<mode, place, file>>
      /\ directory' = IF attempt[d].made /\ ~ stays THEN [directory EXCEPT ![place[d]] = Tool!Nobody]
                      ELSE directory
      /\ attempt' = [attempt EXCEPT ![d] = r]
  BY DEF Tool!UndoDirectory, Tool!At, Tool!Same
<1>4. attempt'[d] = r
  BY <1>3 DEF ToolInv, ToolTypes
<1>5. /\ r.at = "failed" /\ r.made = attempt[d].made /\ r.owns = attempt[d].owns
      /\ r.open = attempt[d].open /\ r.cleanup = (attempt[d].cleanup \/ (attempt[d].made /\ stays))
  BY <1>1 DEF AttemptRecord
<1>6. /\ attempt'[d].at = "failed" /\ attempt'[d].made = attempt[d].made
      /\ attempt'[d].owns = attempt[d].owns /\ attempt'[d].open = attempt[d].open
      /\ attempt'[d].cleanup = (attempt[d].cleanup \/ (attempt[d].made /\ stays))
  BY <1>4, <1>5
<1> HIDE DEF stays
<1>7. CASE attempt[d].made /\ ~ stays
  <2>1. directory[place[d]] = d
    BY <1>1, <1>3, <1>7 DEF Holds
  <2>2. directory' = [directory EXCEPT ![place[d]] = Tool!Nobody]
    BY <1>3, <1>7
  <2>3. directory'[place[d]] # d
    BY <1>1, <2>2 DEF ToolInv, ToolTypes
  <2>4. Holds(d)'
    BY <1>1, <1>3, <1>6, <1>7, <2>3 DEF Holds
  <2> QED
    BY <1>2, <1>3, <2>1, <2>2, <2>4, ToolTakes
<1>8. CASE ~ (attempt[d].made /\ ~ stays)
  <2>1. directory' = directory
    BY <1>3, <1>8
  <2>2. Holds(d)'
    BY <1>1, <1>3, <1>6, <1>8, <2>1 DEF Holds
  <2> QED
    BY <1>2, <1>3, <2>1, <2>2, ToolMoves
<1> QED
  BY <1>7, <1>8

\* Every step of an attempt keeps the invariant.
LEMMA ToolSteps ==
  ASSUME Tool!Nobody \notin Attempt, ToolInv, Tool!ToolNext \/ UNCHANGED toolVars
  PROVE  ToolInv'
<1>1. ASSUME NEW d \in Attempt, ToolStep(d) PROVE ToolInv'
  <2>1. CASE Tool!AbortCall(d)
    BY <2>1 DEF Tool!AbortCall, ToolInv, ToolTypes, Holds
  <2>2. CASE Tool!Enters(d)
    <3>1. mode \in {"single", "call"}
      BY DEF ToolInv, ToolTypes
    <3> QED
      BY <2>2, <3>1, ToolGoes DEF Tool!Enters, Tool!At, Tool!Goes, Tool!Same
  <2>3. CASE Tool!RootRefused(d)
    BY <2>3, ToolGoes DEF Tool!RootRefused, Tool!At, Tool!Goes, Tool!Same
  <2>4. CASE Tool!Writes(d)
    BY <2>4, ToolGoes DEF Tool!Writes, Tool!At, Tool!Goes, Tool!Same
  <2>5. CASE Tool!IoFails(d)
    BY <2>5, ToolGoes DEF Tool!IoFails, Tool!Goes, Tool!Same
  <2> QED
    BY <1>1, <2>1, <2>2, <2>3, <2>4, <2>5, CreatingKeepsInv, OpeningKeepsInv, ClosingProofKeepsInv,
       UndoingKeepsInv, UndoingDirectoryKeepsInv DEF ToolStep
<1>2. CASE UNCHANGED toolVars
  BY <1>2 DEF toolVars, ToolInv, ToolTypes, Holds
<1> QED
  BY <1>1, <1>2 DEF Tool!ToolNext, ToolStep

\* Every fault of an attempt is counted.
LEMMA ToolCounting ==
  ASSUME MaxIoFaults \in Nat, ToolCounts, Tool!ToolNext \/ UNCHANGED toolVars
  PROVE  ToolCounts'
<1>1. CASE UNCHANGED toolVars
  BY <1>1 DEF toolVars, ToolCounts
<1>2. ASSUME NEW d \in Attempt, ToolStep(d) PROVE ToolCounts'
  <2>1. \/ ioFaults' = ioFaults
        \/ ioFaults < MaxIoFaults /\ ioFaults' = ioFaults + 1
    BY <1>2 DEF ToolStep, Tool!AbortCall, Tool!Enters, Tool!RootRefused, Tool!CreatesPartition,
       Tool!Opens, Tool!Writes, Tool!Closes, Tool!IoFails, Tool!Undo, Tool!UndoDirectory, Tool!IoFault
  <2> QED
    BY <2>1 DEF ToolCounts
<1> QED
  BY <1>1, <1>2 DEF Tool!ToolNext, ToolStep

\* The invariant is enough for what an attempt leaves.
LEMMA ToolInvIsEnough ==
  ASSUME Tool!Nobody \notin Attempt, ToolInv, ToolCounts
  PROVE  Tool!ToolTypeOK /\ Tool!AttemptsAreExact
<1>1. Tool!ToolTypeOK
  BY DEF ToolInv, ToolTypes, ToolCounts, Tool!ToolTypeOK
<1>2. ASSUME NEW c \in Attempt, attempt[c].at = "succeeded"
      PROVE  /\ file[place[c]] = c /\ ~ attempt[c].open
             /\ mode = "call" => directory[place[c]] = c
  <2>1. Holds(c)
    BY DEF ToolInv
  <2> QED
    BY <1>2, <2>1 DEF Holds
<1>3. ASSUME NEW c \in Attempt, attempt[c].at = "failed", ~ attempt[c].cleanup
      PROVE  ~ attempt[c].open /\ c \notin {file[place[c]], directory[place[c]]}
  <2>1. Holds(c)
    BY DEF ToolInv
  <2> QED
    BY <1>3, <2>1 DEF Holds
<1> QED
  BY <1>1, <1>2, <1>3 DEF Tool!AttemptsAreExact, Tool!At

(***************************************************************************)
(* ProofResource                                                           *)
(***************************************************************************)

\* What is acquired.
Acquired == Resource!Undone \cup {"opened"}

\* The rollback stack is empty when it was gone through, and the disposer has a step left until
\* all that it gives back is given back.
ResourceFits ==
  /\ taken \in Seq(Acquired)
  /\ resource = "acquiring" => Len(taken) < 6 /\ disposals = 0
  /\ resource \in {"rolling back", "failed", "active"} => disposals = 0
  /\ resource = "failed" => taken = << >>
  /\ resource = "disposing" => disposals < 4
  /\ resource = "gone" => disposals = 4 \/ Resource!Held \ {"proof", "file"} \subseteq leaked
  /\ leaked # {} => complained

ResourceInv == ResourceFits /\ Resource!ResourceTypeOK

\* The acquisitions and the steps of the disposer, one by one.
LEMMA ResourceLists ==
  /\ Len(Resource!Acquisition) = 6 /\ \A i \in 1 .. 6 : Resource!Acquisition[i] \in Acquired
  /\ Len(Resource!Disposal) = 4
  /\ {Resource!Disposal[i] : i \in 1 .. 4} = {"timer", "watcher", "closed", "handle"}
<1>1. Len(Resource!Acquisition) = 6 /\ Len(Resource!Disposal) = 4
  BY DEF Resource!Acquisition, Resource!Disposal
<1>2. \A i \in 1 .. 6 : Resource!Acquisition[i] \in Acquired
  BY DEF Resource!Acquisition, Acquired, Resource!Undone
<1>3. {Resource!Disposal[i] : i \in 1 .. 4} = {"timer", "watcher", "closed", "handle"}
  <2>1. 1 .. 4 = {1, 2, 3, 4}
    OBVIOUS
  <2>2. /\ Resource!Disposal[1] = "timer" /\ Resource!Disposal[2] = "watcher"
        /\ Resource!Disposal[3] = "closed" /\ Resource!Disposal[4] = "handle"
    BY DEF Resource!Disposal
  <2> QED
    BY <2>1, <2>2
<1> QED
  BY <1>1, <1>2, <1>3

\* Nothing is acquired at first.
LEMMA ResourceStarts ==
  ASSUME MaxResourceFaults \in Nat, Resource!ResourceInit
  PROVE  ResourceInv
<1>1. resourceFaults \in 0 .. MaxResourceFaults /\ disposals = 0 /\ taken = << >> /\ Len(<<>>) = 0
  BY DEF Resource!ResourceInit
<1>2. resource = "acquiring" /\ leaked = {} /\ complained = FALSE
  BY DEF Resource!ResourceInit
<1>3. taken \in Seq(Acquired) /\ Len(taken) < 6
  BY <1>1
<1>4. disposals \in 0 .. Len(Resource!Disposal)
  BY <1>1, ResourceLists
<1>5. ResourceFits
  BY <1>1, <1>2, <1>3 DEF ResourceFits
<1> QED
  BY <1>1, <1>2, <1>4, <1>5 DEF ResourceInv, Resource!ResourceTypeOK

\* Every step of the acquisition, of the rollback and of the disposer keeps the invariant.
LEMMA ResourceSteps ==
  ASSUME MaxResourceFaults \in Nat, ResourceInv, Resource!ResourceNext \/ UNCHANGED resourceVars
  PROVE  ResourceInv'
<1>0. /\ taken \in Seq(Acquired) /\ Len(taken) \in Nat /\ resourceFaults \in 0 .. MaxResourceFaults
      /\ disposals \in 0 .. 4 /\ leaked \subseteq Resource!Undone /\ complained \in BOOLEAN
  <2>1. taken \in Seq(Acquired) /\ Len(taken) \in Nat
    <3>1. taken \in Seq(Acquired)
      BY Zenon DEF ResourceInv, ResourceFits
    <3> QED
      BY <3>1
  <2>2. resourceFaults \in 0 .. MaxResourceFaults /\ disposals \in 0 .. Len(Resource!Disposal)
    BY DEF ResourceInv, Resource!ResourceTypeOK
  <2>3. leaked \subseteq Resource!Undone /\ complained \in BOOLEAN
    BY DEF ResourceInv, Resource!ResourceTypeOK
  <2>4. disposals \in 0 .. 4
    BY <2>2, ResourceLists
  <2> QED
    BY <2>1, <2>2, <2>3, <2>4
<1>a. Resource!ResourceFault => resourceFaults' \in 0 .. MaxResourceFaults
  BY <1>0 DEF Resource!ResourceFault
<1>1. CASE Resource!Acquires
  <2>1. /\ resource = "acquiring" /\ Len(taken) < 6 /\ disposals = 0
        /\ UNCHANGED <<leaked, disposals, complained, resourceFaults>>
    BY <1>1 DEF Resource!Acquires, ResourceInv, ResourceFits
  <2>2. taken' = Append(taken, Resource!Acquisition[Len(taken) + 1])
    BY <1>1 DEF Resource!Acquires
  <2>3. Len(taken) + 1 \in 1 .. 6
    BY <1>0, <2>1
  <2>4. Resource!Acquisition[Len(taken) + 1] \in Acquired
    BY <2>3, ResourceLists
  <2>5. taken' \in Seq(Acquired) /\ Len(taken') = Len(taken) + 1
    BY <1>0, <2>2, <2>4
  <2>6. resource' = IF Len(taken') = 6 THEN "active" ELSE resource
    BY <1>1, ResourceLists DEF Resource!Acquires
  <2>7. resource' = "active" \/ (resource' = "acquiring" /\ Len(taken') < 6)
    BY <1>0, <2>1, <2>5, <2>6
  <2>8. ResourceFits'
    BY <2>1, <2>5, <2>7 DEF ResourceInv, ResourceFits
  <2>9. Resource!ResourceTypeOK'
    BY <2>1, <2>7 DEF ResourceInv, Resource!ResourceTypeOK
  <2> QED
    BY <2>8, <2>9 DEF ResourceInv
<1>2. CASE Resource!AcquisitionFails
  <2>1. /\ resource = "acquiring" /\ resource' = "rolling back"
        /\ UNCHANGED <<taken, leaked, disposals, complained>> /\ resourceFaults' \in 0 .. MaxResourceFaults
    BY <1>a, <1>2 DEF Resource!AcquisitionFails
  <2> QED
    BY <2>1 DEF ResourceInv, ResourceFits, Resource!ResourceTypeOK
<1>3. ASSUME NEW ok \in BOOLEAN, Resource!RollsBack(ok) PROVE ResourceInv'
  <2> DEFINE last == taken[Len(taken)]
  <2>1. /\ resource = "rolling back" /\ taken # << >> /\ UNCHANGED <<resource, disposals>>
        /\ taken' = SubSeq(taken, 1, Len(taken) - 1)
    BY <1>3 DEF Resource!RollsBack
  <2>2. taken' \in Seq(Acquired)
    <3>1. \A i \in 1 .. Len(taken) - 1 : taken[i] \in Acquired
      BY <1>0
    <3> DEFINE m == Len(taken) - 1
    <3>2. m \in Int
      BY <1>0
    <3>3. \A i \in 1 .. m : taken[i] \in Acquired
      BY <3>1
    <3> HIDE DEF m
    <3>4. SubSeq(taken, 1, m) \in Seq(Acquired)
      BY <3>2, <3>3, SubSeqProperties
    <3> QED
      BY <2>1, <3>4 DEF m
  <2>3. \/ UNCHANGED <<leaked, complained, resourceFaults>>
        \/ /\ last \in Resource!Undone /\ resourceFaults' \in 0 .. MaxResourceFaults
           /\ leaked' = leaked \cup {last} /\ complained' = TRUE
    BY <1>a, <1>3 DEF Resource!RollsBack
  <2>4. /\ resourceFaults' \in 0 .. MaxResourceFaults /\ leaked' \subseteq Resource!Undone
        /\ complained' \in BOOLEAN
    BY <1>0, <2>3
  <2>5. leaked' # {} => complained'
    BY <2>3 DEF ResourceInv, ResourceFits
  <2>6. ResourceFits'
    BY <2>1, <2>2, <2>5 DEF ResourceInv, ResourceFits
  <2> QED
    BY <2>1, <2>4, <2>6 DEF ResourceInv, Resource!ResourceTypeOK
<1>4. CASE Resource!RolledBack \/ Resource!Unloads
  <2>1. /\ UNCHANGED <<taken, leaked, disposals, complained, resourceFaults>>
        /\ \/ resource = "rolling back" /\ resource' = "failed" /\ taken = << >>
           \/ resource = "active" /\ resource' = "disposing"
    BY <1>4 DEF Resource!RolledBack, Resource!Unloads
  <2>2. Resource!Held' = Resource!Held
    BY <2>1 DEF Resource!Held
  <2>4. ResourceFits
    BY DEF ResourceInv
  <2>5. ResourceFits'
    <3>1. CASE resource = "rolling back" /\ resource' = "failed" /\ taken = << >>
      BY <2>1, <2>4, <3>1 DEF ResourceFits
    <3>2. CASE resource = "active" /\ resource' = "disposing"
      BY <2>1, <2>4, <3>2 DEF ResourceFits
    <3> QED
      BY <2>1, <3>1, <3>2
  <2>3. Resource!ResourceTypeOK'
    BY <2>1 DEF ResourceInv, Resource!ResourceTypeOK
  <2> QED
    BY <2>3, <2>5 DEF ResourceInv
<1>5. ASSUME NEW ok \in BOOLEAN, Resource!Disposes(ok) PROVE ResourceInv'
  <2>1. resource = "disposing" /\ UNCHANGED taken /\ disposals < 4
    BY <1>5 DEF Resource!Disposes, ResourceInv, ResourceFits
  <2>2. CASE ok
    <3>1. /\ disposals' = disposals + 1 /\ resource' = (IF disposals' = 4 THEN "gone" ELSE resource)
          /\ UNCHANGED <<leaked, complained, resourceFaults>>
      BY <1>5, <2>2, ResourceLists DEF Resource!Disposes
    <3>2. /\ disposals' \in 0 .. 4
          /\ (resource' = "gone" /\ disposals' = 4) \/ (resource' = "disposing" /\ disposals' < 4)
      BY <1>0, <2>1, <3>1
    <3>3. ResourceFits'
      BY <2>1, <3>1, <3>2 DEF ResourceInv, ResourceFits
    <3>4. Resource!ResourceTypeOK'
      BY <3>1, <3>2, ResourceLists DEF ResourceInv, Resource!ResourceTypeOK
    <3> QED
      BY <3>3, <3>4 DEF ResourceInv
  <2>3. CASE ~ ok
    <3>1. /\ resource' = "gone" /\ complained' = TRUE /\ UNCHANGED disposals
          /\ leaked' = leaked \cup (Resource!Held \ {"proof", "file"})
          /\ resourceFaults' \in 0 .. MaxResourceFaults
      BY <1>a, <1>5, <2>3 DEF Resource!Disposes
    <3>2. Resource!Held \subseteq Resource!Undone /\ Resource!Held' = Resource!Held
      BY <2>1, <3>1 DEF Resource!Held
    <3>3. ResourceFits'
      BY <2>1, <3>1, <3>2 DEF ResourceInv, ResourceFits
    <3>4. Resource!ResourceTypeOK'
      BY <1>0, <3>1, <3>2 DEF ResourceInv, Resource!ResourceTypeOK
    <3> QED
      BY <3>3, <3>4 DEF ResourceInv
  <2> QED
    BY <2>2, <2>3
<1>6. CASE UNCHANGED resourceVars
  BY <1>6 DEF resourceVars, ResourceInv, ResourceFits, Resource!ResourceTypeOK, Resource!Held
<1> QED
  BY <1>1, <1>2, <1>3, <1>4, <1>5, <1>6 DEF Resource!ResourceNext

\* The invariant is enough for what is given back or told.
LEMMA ResourceInvIsEnough ==
  ASSUME ResourceInv
  PROVE  Resource!NothingLeaksSilently
<1>1. resource = "failed" => Resource!Held \subseteq leaked
  BY DEF ResourceInv, ResourceFits, Resource!Held
<1>2. disposals = 4 => Resource!Held \ {"proof", "file"} = {}
  BY ResourceLists DEF Resource!Held, Resource!Undone
<1> QED
  BY <1>1, <1>2 DEF ResourceInv, ResourceFits, Resource!NothingLeaksSilently

(***************************************************************************)
(* FakeRuntime                                                             *)
(***************************************************************************)

\* The runs of a session that it remembers.
Remembered(s) == {r \in FakeRun : of[r] = s /\ fake[r] = "succeeded"}

\* The variables of the fake runtime have their types.
FakeTypes ==
  /\ of \in [FakeRun -> FakeSession]
  /\ fake \in [FakeRun -> {"new", "delay", "work", "partition"} \cup Fake!Over]
  /\ memory \in [FakeSession -> Nat] /\ generation \in Nat
  /\ failNext \in {"none", "known", "uncertain"} /\ fakeFaults \in Nat
  /\ shutDown \in BOOLEAN

\* No two runs of a session are busy at a time.
OneAtATime == \A r, o \in Fake!Busy : r # o => of[r] # of[o]

\* Without a fault, a partition is of a turn its session remembers or of a run about to be.
NamesAreOld ==
  \A part \in partitions :
    \/ part.turn <= memory[part.session]
    \/ /\ part.turn <= memory[part.session] + 1
       /\ \E r \in FakeRun : fake[r] = "partition" /\ of[r] = part.session

FakeInv ==
  /\ FakeTypes /\ OneAtATime /\ Fake!FakeFailsOnlyIfAsked
  /\ partitions \subseteq [session : FakeSession, generation : Nat, turn : Nat]
  /\ failNext # "none" => fakeFaults > 0
  /\ fakeFaults = 0 => NamesAreOld

\* A run is called where no other run of its session is busy, so that nothing fails at first.
LEMMA FakeStarts ==
  ASSUME Fake!FakeInit
  PROVE  FakeInv
<1>1. FakeTypes
  BY DEF Fake!FakeInit, FakeTypes
<1>2. Fake!Busy = {} /\ \A r \in FakeRun : fake[r] = "new"
  BY DEF Fake!FakeInit, Fake!Busy
<1>3. OneAtATime /\ Fake!FakeFailsOnlyIfAsked
  BY <1>2 DEF OneAtATime, Fake!FakeFailsOnlyIfAsked
<1>4. partitions = {} /\ failNext = "none"
  BY DEF Fake!FakeInit
<1> QED
  BY <1>1, <1>3, <1>4 DEF FakeInv, NamesAreOld

\* A run that goes on alone: no other run gets busy by its step.
LEMMA FakeBecomes ==
  ASSUME FakeInv, NEW r \in FakeRun, NEW what \in {"delay", "work", "partition"} \cup Fake!Over,
         Fake!Becomes(r, what), UNCHANGED of,
         fake[r] = "new" /\ what \notin Fake!Over => \A o \in Fake!Busy : of[o] # of[r],
         fake[r] \notin Fake!Over
  PROVE  /\ fake' \in [FakeRun -> {"new", "delay", "work", "partition"} \cup Fake!Over]
         /\ fake'[r] = what /\ \A o \in FakeRun \ {r} : fake'[o] = fake[o]
         /\ OneAtATime'
<1>1. fake' = [fake EXCEPT ![r] = what]
  BY DEF Fake!Becomes
<1>2. fake \in [FakeRun -> {"new", "delay", "work", "partition"} \cup Fake!Over]
  BY DEF FakeInv, FakeTypes
<1>3. /\ fake' \in [FakeRun -> {"new", "delay", "work", "partition"} \cup Fake!Over]
      /\ fake'[r] = what /\ \A o \in FakeRun \ {r} : fake'[o] = fake[o]
  BY <1>1, <1>2
<1>4. ASSUME NEW c \in Fake!Busy', NEW o \in Fake!Busy', c # o PROVE of'[c] # of'[o]
  <2>1. \A d \in FakeRun \ {r} : d \in Fake!Busy' => d \in Fake!Busy
    BY <1>3 DEF Fake!Busy
  <2>2. c \in FakeRun /\ o \in FakeRun
    BY DEF Fake!Busy
  <2>3. CASE c # r /\ o # r
    BY <1>4, <2>1, <2>2, <2>3 DEF FakeInv, OneAtATime
  <2>4. CASE r \in {c, o}
    <3>1. what \notin Fake!Over
      BY <1>3, <2>4 DEF Fake!Busy
    <3>2. CASE fake[r] = "new"
      BY <1>4, <2>1, <2>2, <2>4, <3>1, <3>2
    <3>3. CASE fake[r] # "new"
      <4>1. r \in Fake!Busy
        BY <3>3 DEF Fake!Busy
      <4> QED
        BY <1>4, <2>1, <2>2, <2>4, <4>1 DEF FakeInv, OneAtATime
    <3> QED
      BY <3>2, <3>3
  <2> QED
    BY <2>3, <2>4
<1> QED
  BY <1>3, <1>4 DEF OneAtATime

\* The steps of a run: it is called, goes on, and ends as it was asked to or met.
LEMMA FakeRunKeepsInv ==
  ASSUME FakeInv, NEW r \in FakeRun, Fake!Called(r) \/ Fake!DelayOver(r) \/ Fake!Completes(r)
  PROVE  FakeInv'
<1>0. /\ FakeTypes /\ of[r] \in FakeSession /\ memory[of[r]] \in Nat
  BY DEF FakeInv, FakeTypes
<1>1. CASE Fake!Called(r) \/ Fake!DelayOver(r)
  <2>1. /\ UNCHANGED <<of, delayed, failNext, generation, shutDown, memory, partitions, fakeFaults>>
        /\ fake[r] \in {"new", "delay"}
    BY <1>1 DEF Fake!Called, Fake!DelayOver, Fake!FakeKept
  <2>2. \/ Fake!Becomes(r, "refused")
        \/ Fake!Becomes(r, "delay") /\ ~ shutDown
        \/ Fake!Becomes(r, "work")
    BY <1>1 DEF Fake!Called, Fake!DelayOver
  <2>3. fake[r] = "new" => \A o \in Fake!Busy : of[o] # of[r]
    BY <1>1 DEF Fake!Called, Fake!DelayOver
  <2>4. PICK what \in {"refused", "delay", "work"} : Fake!Becomes(r, what) /\ (what = "delay" => ~ shutDown)
    BY <2>2
  <2>5. what \in {"delay", "work", "partition"} \cup Fake!Over /\ fake[r] \notin Fake!Over
    BY <2>1 DEF Fake!Over
  <2>6. /\ fake' \in [FakeRun -> {"new", "delay", "work", "partition"} \cup Fake!Over]
        /\ fake'[r] = what /\ \A o \in FakeRun \ {r} : fake'[o] = fake[o]
        /\ OneAtATime'
    BY <2>1, <2>3, <2>4, <2>5, FakeBecomes
  <2>7. FakeTypes'
    BY <1>0, <2>1, <2>6 DEF FakeTypes
  <2>8. Fake!FakeFailsOnlyIfAsked'
    BY <2>1, <2>4, <2>6 DEF FakeInv, Fake!FakeFailsOnlyIfAsked
  <2>9. NamesAreOld => NamesAreOld'
    <3>1. \A o \in FakeRun : fake[o] = "partition" => fake'[o] = "partition"
      BY <2>1, <2>6
    <3> QED
      BY <2>1, <3>1 DEF NamesAreOld
  <2> QED
    BY <2>1, <2>6, <2>7, <2>8, <2>9 DEF FakeInv
<1>2. CASE Fake!Completes(r)
  <2>1. /\ UNCHANGED <<of, delayed, failNext, generation, shutDown, partitions, fakeFaults>>
        /\ fake[r] = "partition" /\ Fake!Becomes(r, "succeeded")
        /\ memory' = [memory EXCEPT ![of[r]] = @ + 1]
    BY <1>2 DEF Fake!Completes, Fake!FakeKept
  <2>2. "succeeded" \in Fake!Over /\ fake[r] \notin Fake!Over
    BY <2>1 DEF Fake!Over
  <2>3. /\ fake' \in [FakeRun -> {"new", "delay", "work", "partition"} \cup Fake!Over]
        /\ fake'[r] = "succeeded" /\ \A o \in FakeRun \ {r} : fake'[o] = fake[o]
        /\ OneAtATime'
    BY <2>1, <2>2, FakeBecomes
  <2>4. /\ memory' \in [FakeSession -> Nat] /\ memory'[of[r]] = memory[of[r]] + 1
        /\ \A s \in FakeSession \ {of[r]} : memory'[s] = memory[s]
    BY <1>0, <2>1 DEF FakeTypes
  <2>5. FakeTypes'
    BY <1>0, <2>1, <2>3, <2>4 DEF FakeTypes
  <2>6. Fake!FakeFailsOnlyIfAsked'
    BY <2>1, <2>3 DEF FakeInv, Fake!FakeFailsOnlyIfAsked
  <2>7. NamesAreOld => NamesAreOld'
    <3> SUFFICES ASSUME NamesAreOld, NEW part \in partitions
                 PROVE  \/ part.turn <= memory'[part.session]
                        \/ /\ part.turn <= memory'[part.session] + 1
                           /\ \E o \in FakeRun : fake'[o] = "partition" /\ of[o] = part.session
      BY <2>1 DEF NamesAreOld
    <3>1. part.session \in FakeSession /\ part.turn \in Nat /\ memory[part.session] \in Nat
      BY <1>0 DEF FakeInv, FakeTypes
    <3>2. CASE part.session = of[r]
      <4>1. part.turn <= memory[of[r]] + 1
        BY <3>1, <3>2 DEF NamesAreOld
      <4> QED
        BY <2>4, <3>2, <4>1
    <3>3. CASE part.session # of[r]
      <4>1. memory'[part.session] = memory[part.session]
        BY <2>4, <3>1, <3>3
      <4>2. \A o \in FakeRun : fake[o] = "partition" /\ of[o] = part.session => fake'[o] = "partition"
        BY <2>3, <3>3
      <4> QED
        BY <4>1, <4>2 DEF NamesAreOld
    <3> QED
      BY <3>2, <3>3
  <2> QED
    BY <2>1, <2>3, <2>5, <2>6, <2>7 DEF FakeInv
<1> QED
  BY <1>1, <1>2

\* A run that works: it fails if that was asked for, and its name is not taken otherwise.
LEMMA WorkingKeepsInv ==
  ASSUME FakeInv, NEW r \in FakeRun, Fake!Working(r)
  PROVE  FakeInv'
<1>0. /\ FakeTypes /\ of[r] \in FakeSession /\ memory[of[r]] \in Nat /\ generation \in Nat /\ fakeFaults \in Nat
  BY DEF FakeInv, FakeTypes
<1>1. /\ UNCHANGED <<of, delayed, generation, shutDown, memory, fakeFaults>>
      /\ fake[r] = "work" /\ failNext' = "none"
  BY DEF Fake!Working, Fake!FakeKept
<1>2. Fake!Named(r) \in [session : FakeSession, generation : Nat, turn : Nat]
      /\ Fake!Named(r).session = of[r] /\ Fake!Named(r).turn = memory[of[r]] + 1
  BY <1>0 DEF Fake!Named, Fake!Turn
<1>3. CASE failNext = "none" /\ Fake!Named(r) \notin partitions
  <2>1. Fake!Becomes(r, "partition") /\ partitions' = partitions \cup {Fake!Named(r)}
    BY <1>3 DEF Fake!Working
  <2>2. fake[r] \notin Fake!Over
    BY <1>1 DEF Fake!Over
  <2>3. /\ fake' \in [FakeRun -> {"new", "delay", "work", "partition"} \cup Fake!Over]
        /\ fake'[r] = "partition" /\ \A o \in FakeRun \ {r} : fake'[o] = fake[o]
        /\ OneAtATime'
    BY <1>1, <2>1, <2>2, FakeBecomes
  <2>4. FakeTypes'
    BY <1>0, <1>1, <2>3 DEF FakeTypes
  <2>5. Fake!FakeFailsOnlyIfAsked'
    BY <1>1, <2>3 DEF FakeInv, Fake!FakeFailsOnlyIfAsked
  <2>6. NamesAreOld => NamesAreOld'
    <3>1. \A o \in FakeRun : fake[o] = "partition" => fake'[o] = "partition"
      BY <1>1, <2>3
    <3>2. ASSUME NamesAreOld, NEW part \in partitions
          PROVE  \/ part.turn <= memory'[part.session]
                 \/ /\ part.turn <= memory'[part.session] + 1
                    /\ \E o \in FakeRun : fake'[o] = "partition" /\ of'[o] = part.session
      BY <1>1, <3>1, <3>2 DEF NamesAreOld
    <3>3. Fake!Named(r).turn <= memory'[of[r]] + 1
      BY <1>0, <1>1, <1>2
    <3> QED
      BY <1>1, <1>2, <2>1, <2>3, <3>2, <3>3 DEF NamesAreOld
  <2> QED
    BY <1>1, <1>2, <2>1, <2>3, <2>4, <2>5, <2>6 DEF FakeInv
<1>4. CASE failNext # "none" \/ Fake!Named(r) \in partitions
  <2>1. PICK what \in {"failed", "uncertain"} : Fake!Becomes(r, what)
    BY <1>4 DEF Fake!Working
  <2>2. UNCHANGED partitions
    BY <1>4 DEF Fake!Working
  <2>3. fakeFaults # 0
    <3>1. CASE failNext # "none"
      BY <3>1 DEF FakeInv
    <3>2. CASE fakeFaults = 0 /\ Fake!Named(r) \in partitions
      <4>1. PICK o \in FakeRun : fake[o] = "partition" /\ of[o] = of[r]
        BY <1>0, <1>2, <3>2 DEF FakeInv, NamesAreOld
      <4>2. o \in Fake!Busy /\ r \in Fake!Busy /\ o # r
        BY <1>1, <4>1 DEF Fake!Busy, Fake!Over
      <4> QED
        BY <4>1, <4>2 DEF FakeInv, OneAtATime
    <3> QED
      BY <1>4, <3>1, <3>2
  <2>4. what \in {"delay", "work", "partition"} \cup Fake!Over /\ fake[r] \notin Fake!Over
    BY <1>1 DEF Fake!Over
  <2>5. /\ fake' \in [FakeRun -> {"new", "delay", "work", "partition"} \cup Fake!Over]
        /\ fake'[r] = what /\ \A o \in FakeRun \ {r} : fake'[o] = fake[o]
        /\ OneAtATime'
    BY <1>1, <2>1, <2>4, FakeBecomes
  <2>6. FakeTypes'
    BY <1>0, <1>1, <2>5 DEF FakeTypes
  <2>7. Fake!FakeFailsOnlyIfAsked'
    <3>1. fakeFaults' > 0
      BY <1>0, <1>1, <2>3
    <3> QED
      BY <1>1, <2>5, <3>1 DEF FakeInv, Fake!FakeFailsOnlyIfAsked
  <2> QED
    BY <1>1, <2>2, <2>3, <2>5, <2>6, <2>7 DEF FakeInv
<1> QED
  BY <1>3, <1>4

\* The steps of the runtime itself, and the faults it meets or is asked for.
LEMMA FakeOutsideKeepsInv ==
  ASSUME FakeInv,
         \/ Fake!AskToFail("known") \/ Fake!AskToFail("uncertain")
         \/ Fake!RestartedFake \/ Fake!ClosedFake \/ Fake!ShutDownFake
         \/ \E r \in FakeRun : Fake!WriteFails(r)
         \/ UNCHANGED fakeVars
  PROVE  FakeInv'
<1>0. FakeTypes /\ fakeFaults \in Nat /\ generation \in Nat
  BY DEF FakeInv, FakeTypes
<1>1. ASSUME NEW what \in {"known", "uncertain"}, Fake!AskToFail(what) PROVE FakeInv'
  <2>1. /\ UNCHANGED <<of, delayed, fake, generation, shutDown, memory, partitions>>
        /\ failNext' = what /\ fakeFaults' = fakeFaults + 1
    BY <1>1 DEF Fake!AskToFail, Fake!FakeKept
  <2>2. fakeFaults' \in Nat /\ fakeFaults' > 0
    BY <1>0, <2>1
  <2>3. FakeTypes' /\ OneAtATime'
    BY <1>0, <2>1, <2>2 DEF FakeInv, FakeTypes, OneAtATime, Fake!Busy
  <2>4. Fake!FakeFailsOnlyIfAsked'
    BY <2>1, <2>2 DEF FakeInv, Fake!FakeFailsOnlyIfAsked
  <2> QED
    BY <2>1, <2>2, <2>3, <2>4 DEF FakeInv
<1>2. CASE Fake!RestartedFake
  <2>1. /\ UNCHANGED <<of, delayed, fake, failNext, shutDown, memory, partitions, fakeFaults>>
        /\ generation' = generation + 1
    BY <1>2 DEF Fake!RestartedFake, Fake!FakeKept
  <2>2. FakeTypes' /\ OneAtATime'
    BY <1>0, <2>1 DEF FakeInv, FakeTypes, OneAtATime, Fake!Busy
  <2> QED
    BY <2>1, <2>2 DEF FakeInv, Fake!FakeFailsOnlyIfAsked, NamesAreOld
<1>3. CASE Fake!ClosedFake
  <2>1. /\ UNCHANGED <<of, delayed, fake, failNext, generation, memory, partitions, fakeFaults>>
        /\ shutDown' = TRUE /\ Fake!Busy = {}
    BY <1>3 DEF Fake!ClosedFake, Fake!FakeKept
  <2>2. \A r \in FakeRun : fake[r] # "delay"
    BY <2>1 DEF Fake!Busy, Fake!Over
  <2>3. FakeTypes' /\ OneAtATime'
    BY <1>0, <2>1 DEF FakeInv, FakeTypes, OneAtATime, Fake!Busy
  <2>4. Fake!FakeFailsOnlyIfAsked'
    BY <2>1, <2>2 DEF FakeInv, Fake!FakeFailsOnlyIfAsked
  <2> QED
    BY <2>1, <2>3, <2>4 DEF FakeInv, NamesAreOld
<1>4. CASE Fake!ShutDownFake
  <2>1. /\ UNCHANGED <<of, delayed, failNext, generation, memory, partitions, fakeFaults>>
        /\ shutDown' = TRUE
        /\ fake' = [r \in FakeRun |-> IF fake[r] = "delay" THEN "uncertain" ELSE fake[r]]
    BY <1>4 DEF Fake!ShutDownFake, Fake!FakeKept
  <2>2. "uncertain" \in Fake!Over
    BY DEF Fake!Over
  <2>3. \A r \in FakeRun : fake'[r] = IF fake[r] = "delay" THEN "uncertain" ELSE fake[r]
    BY <2>1
  <2>4. fake' \in [FakeRun -> {"new", "delay", "work", "partition"} \cup Fake!Over]
    BY <1>0, <2>1, <2>2 DEF FakeTypes
  <2>5. FakeTypes'
    BY <1>0, <2>1, <2>4 DEF FakeTypes
  <2>6. OneAtATime'
    <3>1. Fake!Busy' \subseteq Fake!Busy
      BY <2>2, <2>3 DEF Fake!Busy
    <3> QED
      BY <2>1, <3>1 DEF FakeInv, OneAtATime
  <2>7. Fake!FakeFailsOnlyIfAsked'
    BY <2>1, <2>3 DEF FakeInv, Fake!FakeFailsOnlyIfAsked
  <2>8. NamesAreOld => NamesAreOld'
    <3>1. \A r \in FakeRun : fake[r] = "partition" => fake'[r] = "partition"
      BY <2>3
    <3> QED
      BY <2>1, <3>1 DEF NamesAreOld
  <2> QED
    BY <2>1, <2>5, <2>6, <2>7, <2>8 DEF FakeInv
<1>5. ASSUME NEW r \in FakeRun, Fake!WriteFails(r) PROVE FakeInv'
  <2>1. /\ UNCHANGED <<of, delayed, failNext, generation, shutDown, memory, partitions>>
        /\ fakeFaults' = fakeFaults + 1 /\ fake[r] = "partition" /\ Fake!Becomes(r, "failed")
    BY <1>5 DEF Fake!WriteFails, Fake!FakeKept
  <2>2. "failed" \in Fake!Over /\ fake[r] \notin Fake!Over
    BY <2>1 DEF Fake!Over
  <2>3. /\ fake' \in [FakeRun -> {"new", "delay", "work", "partition"} \cup Fake!Over]
        /\ fake'[r] = "failed" /\ \A o \in FakeRun \ {r} : fake'[o] = fake[o]
        /\ OneAtATime'
    BY <2>1, <2>2, FakeBecomes
  <2>4. fakeFaults' \in Nat /\ fakeFaults' > 0
    BY <1>0, <2>1
  <2>5. FakeTypes'
    BY <1>0, <2>1, <2>3, <2>4 DEF FakeTypes
  <2>6. Fake!FakeFailsOnlyIfAsked'
    BY <2>1, <2>3, <2>4 DEF FakeInv, Fake!FakeFailsOnlyIfAsked
  <2> QED
    BY <2>1, <2>3, <2>4, <2>5, <2>6 DEF FakeInv
<1>6. CASE UNCHANGED fakeVars
  BY <1>6 DEF fakeVars, FakeInv, FakeTypes, OneAtATime, Fake!Busy, Fake!FakeFailsOnlyIfAsked, NamesAreOld
<1> QED
  BY <1>1, <1>2, <1>3, <1>4, <1>5, <1>6

\* Every step keeps the invariant.
LEMMA FakeSteps ==
  ASSUME FakeInv, Fake!FakeNext \/ UNCHANGED fakeVars
  PROVE  FakeInv'
BY FakeRunKeepsInv, WorkingKeepsInv, FakeOutsideKeepsInv DEF Fake!FakeNext

------------------------------------------------------------------------------
\* The fake runtime remembers its successes, and its faults and restarts are counted.
FakeCounts ==
  /\ \A s \in FakeSession : memory[s] = Cardinality(Remembered(s))
  /\ generation \in 1 .. MaxGeneration /\ fakeFaults \in 0 .. MaxFakeFaults

\* Its cardinality is the one of the library.
LEMMA FakeCardinality ==
  ASSUME NEW S
  PROVE  Fake!Cardinality(S) = Cardinality(S)
BY DEF Fake!Cardinality, Cardinality

\* It remembers nothing at first.
LEMMA FakeCountsStart ==
  ASSUME MaxGeneration \in Nat \ {0}, MaxFakeFaults \in Nat, Fake!FakeInit
  PROVE  FakeCounts
<1>1. generation \in 1 .. MaxGeneration /\ fakeFaults \in 0 .. MaxFakeFaults
  BY DEF Fake!FakeInit
<1>2. ASSUME NEW s \in FakeSession PROVE memory[s] = Cardinality(Remembered(s))
  <2>1. Remembered(s) = {} /\ memory[s] = 0
    BY DEF Fake!FakeInit, Remembered
  <2> QED
    BY <2>1, FS_EmptySet
<1> QED
  BY <1>1, <1>2 DEF FakeCounts

\* Every step keeps the counts.
LEMMA FakeCounting ==
  ASSUME IsFiniteSet(FakeRun), MaxGeneration \in Nat \ {0}, MaxFakeFaults \in Nat,
         FakeInv, FakeCounts, Fake!FakeNext \/ UNCHANGED fakeVars
  PROVE  FakeCounts'
<1>0. \A s : IsFiniteSet(Remembered(s))
  BY FS_Subset DEF Remembered
<1>1. CASE UNCHANGED fakeVars
  BY <1>1 DEF fakeVars, FakeCounts, Remembered
<1>2. CASE Fake!FakeNext
  <2>1. /\ \/ generation' = generation
           \/ generation < MaxGeneration /\ generation' = generation + 1
        /\ \/ fakeFaults' = fakeFaults
           \/ fakeFaults < MaxFakeFaults /\ fakeFaults' = fakeFaults + 1
    BY <1>2 DEF Fake!FakeNext, Fake!Called, Fake!DelayOver, Fake!Working, Fake!Completes,
       Fake!WriteFails, Fake!AskToFail, Fake!RestartedFake, Fake!ClosedFake, Fake!ShutDownFake
  <2>2. generation' \in 1 .. MaxGeneration /\ fakeFaults' \in 0 .. MaxFakeFaults
    BY <2>1 DEF FakeCounts
  <2>3. CASE /\ UNCHANGED <<of, memory>>
             /\ \A r \in FakeRun : fake'[r] = "succeeded" <=> fake[r] = "succeeded"
    <3>1. \A s : Remembered(s)' = Remembered(s)
      BY <2>3 DEF Remembered
    <3> QED
      BY <2>2, <2>3, <3>1 DEF FakeCounts
  <2>4. ASSUME NEW r \in FakeRun, Fake!Completes(r) PROVE FakeCounts'
    <3>1. /\ UNCHANGED of /\ fake[r] = "partition" /\ fake' = [fake EXCEPT ![r] = "succeeded"]
          /\ memory' = [memory EXCEPT ![of[r]] = @ + 1]
      BY <2>4 DEF Fake!Completes, Fake!FakeKept, Fake!Becomes
    <3>2. of[r] \in FakeSession /\ memory \in [FakeSession -> Nat]
      BY DEF FakeInv, FakeTypes
    <3>3. fake'[r] = "succeeded" /\ \A o \in FakeRun \ {r} : fake'[o] = fake[o]
      BY <3>1 DEF FakeInv, FakeTypes
    <3>4. ASSUME NEW s \in FakeSession PROVE memory'[s] = Cardinality(Remembered(s)')
      <4>1. CASE s = of[r]
        <5>1. Remembered(s)' = Remembered(s) \cup {r} /\ r \notin Remembered(s)
          BY <3>1, <3>3, <4>1 DEF Remembered
        <5>2. Cardinality(Remembered(s)') = Cardinality(Remembered(s)) + 1
          BY <1>0, <5>1, FS_AddElement
        <5> QED
          BY <3>1, <3>2, <4>1, <5>2 DEF FakeCounts
      <4>2. CASE s # of[r]
        <5>1. Remembered(s)' = Remembered(s)
          BY <3>1, <3>3, <4>2 DEF Remembered
        <5> QED
          BY <3>1, <3>2, <4>2, <5>1 DEF FakeCounts
      <4> QED
        BY <4>1, <4>2
    <3> QED
      BY <2>2, <3>4 DEF FakeCounts
  <2>5. \/ /\ UNCHANGED <<of, memory>>
           /\ \A r \in FakeRun : fake'[r] = "succeeded" <=> fake[r] = "succeeded"
        \/ \E r \in FakeRun : Fake!Completes(r)
    <3>1. CASE \E r \in FakeRun : Fake!Called(r) \/ Fake!DelayOver(r) \/ Fake!Working(r) \/ Fake!WriteFails(r)
      <4>1. PICK r \in FakeRun : Fake!Called(r) \/ Fake!DelayOver(r) \/ Fake!Working(r) \/ Fake!WriteFails(r)
        BY <3>1
      <4>2. /\ UNCHANGED <<of, memory>> /\ fake[r] # "succeeded"
            /\ \E what \in {"refused", "delay", "work", "partition", "failed", "uncertain"} : Fake!Becomes(r, what)
        BY <4>1 DEF Fake!Called, Fake!DelayOver, Fake!Working, Fake!WriteFails, Fake!FakeKept
      <4>3. fake'[r] # "succeeded" /\ \A o \in FakeRun \ {r} : fake'[o] = fake[o]
        BY <4>2 DEF Fake!Becomes, FakeInv, FakeTypes
      <4> QED
        BY <4>2, <4>3
    <3>2. CASE Fake!AskToFail("known") \/ Fake!AskToFail("uncertain") \/ Fake!RestartedFake \/ Fake!ClosedFake
      BY <3>2 DEF Fake!AskToFail, Fake!RestartedFake, Fake!ClosedFake, Fake!FakeKept
    <3>3. CASE Fake!ShutDownFake
      BY <3>3 DEF Fake!ShutDownFake, Fake!FakeKept
    <3> QED
      BY <1>2, <3>1, <3>2, <3>3 DEF Fake!FakeNext
  <2> QED
    BY <2>3, <2>4, <2>5
<1> QED
  BY <1>1, <1>2

\* The invariants are enough for the types of the fake runtime.
LEMMA FakeTypesAreEnough ==
  ASSUME IsFiniteSet(FakeRun), FakeInv, FakeCounts
  PROVE  Fake!FakeTypeOK
<1>1. ASSUME NEW s \in FakeSession PROVE memory[s] \in 0 .. Fake!Cardinality(FakeRun)
  <2>1. Remembered(s) \subseteq FakeRun
    BY DEF Remembered
  <2>2. /\ IsFiniteSet(Remembered(s)) /\ Cardinality(Remembered(s)) <= Cardinality(FakeRun)
        /\ Cardinality(Remembered(s)) \in Nat /\ Cardinality(FakeRun) \in Nat
    BY <2>1, FS_Subset, FS_CardinalityType
  <2> QED
    BY <2>2, FakeCardinality DEF FakeCounts
<1>2. memory \in [FakeSession -> 0 .. Fake!Cardinality(FakeRun)]
  BY <1>1 DEF FakeInv, FakeTypes
<1> QED
  BY <1>2 DEF FakeInv, FakeTypes, FakeCounts, Fake!FakeTypeOK

(***************************************************************************)
(* ProbeCommand                                                            *)
(***************************************************************************)

\* A probe has one reason to refuse its result, given before or with the kill, and a group
\* that was seen gone stays gone, because only a member of it can fork.
ProbeInv ==
  /\ Probe!ProbeTypeOK /\ Probe!AnswerMeansGone
  /\ stage # "answered" => answer = "none"
  /\ stage = "idle" => probe = "none" /\ descendant = "none"
  /\ killed \/ stage = "polling" => failure # "none"

\* A probe that is not started has no group.
LEMMA ProbeStarts ==
  ASSUME MaxPolls \in Nat, Probe!ProbeInit
  PROVE  ProbeInv
BY DEF Probe!ProbeInit, ProbeInv, Probe!ProbeTypeOK, Probe!AnswerMeansGone, Probe!GroupAlive

\* Every step of the group, of its deadline and of runCommand keeps the invariant.
LEMMA ProbeSteps ==
  ASSUME MaxPolls \in Nat, ProbeInv, Probe!ProbeNext \/ UNCHANGED probeVars
  PROVE  ProbeInv'
<1> USE DEF ProbeInv, Probe!ProbeTypeOK, Probe!AnswerMeansGone, Probe!GroupAlive, Probe!OS
<1>1. CASE Probe!Spawned \/ Probe!SpawnFails
  BY <1>1 DEF Probe!Spawned, Probe!SpawnFails
<1>2. ASSUME NEW holds \in BOOLEAN, Probe!Forks(holds) PROVE ProbeInv'
  BY <1>2 DEF Probe!Forks
<1>3. CASE Probe!ProbeExits \/ Probe!DescendantExits
  BY <1>3 DEF Probe!ProbeExits, Probe!DescendantExits
<1>4. CASE Probe!Deadline \/ Probe!OutputLimit
  BY <1>4 DEF Probe!Deadline, Probe!OutputLimit, Probe!Stop
<1>5. CASE Probe!Closed
  BY <1>5 DEF Probe!Closed, Probe!Confirmed, Probe!Answers, Probe!Result
<1>6. CASE Probe!PollsAgain
  BY <1>6 DEF Probe!PollsAgain, Probe!Confirmed, Probe!Answers, Probe!Result
<1>7. CASE UNCHANGED probeVars
  BY <1>7 DEF probeVars
<1> QED
  BY <1>1, <1>2, <1>3, <1>4, <1>5, <1>6, <1>7 DEF Probe!ProbeNext

(***************************************************************************)
(* ChildLifecycle                                                          *)
(***************************************************************************)

\* The child is released and was completed.
ChildCompleted == child = "released" /\ outcome = "completed"

\* The run of a seed is disposed of, and its children with it.
RunOver == phase = "seed" => workflow = "disposed" /\ helper = "released"

\* What each place of execute() has behind it, as long as nothing has failed.
LifeInv ==
  /\ Child!LifeTypeOK
  /\ listeners = (IF task \in {"result", "dispose run"} THEN {"workflow"}
                  ELSE IF task = "absent" THEN {"child"} ELSE {})
  /\ task \in {"child", "absent"} => RunOver
  /\ task \in {"drain", "dispose parent", "report", "rename"} /\ ~ failed =>
       RunOver /\ ChildCompleted
  /\ task \in {"report", "rename"} /\ ~ failed => parent = "disposed"
  /\ report = "ok" => task = "done" /\ RunOver /\ ChildCompleted /\ parent = "disposed"
  /\ disposal \in {"done", "threw"} => task \in {"done", "threw"}

\* The experiment begins without a parent.
LEMMA LifeStarts ==
  ASSUME MaxHostFaults \in Nat, Child!LifeInit
  PROVE  LifeInv
<1>1. Child!LifeTypeOK
  <2>1. hostFaults \in 0 .. MaxHostFaults
    BY DEF Child!LifeInit
  <2>2. phase \in {"seed", "resume"} /\ signal \in BOOLEAN /\ failed \in BOOLEAN /\ listeners = {}
    BY DEF Child!LifeInit
  <2>3. report = "none" /\ disposal = "no"
    BY DEF Child!LifeInit
  <2> QED
    BY <2>1, <2>2, <2>3 DEF Child!LifeTypeOK
<1>2. listeners = {} /\ task = "parent" /\ report = "none" /\ disposal = "no"
  BY DEF Child!LifeInit
<1> QED
  BY <1>1, <1>2 DEF LifeInv

\* Every step of the host, of execute() and of the disposal keeps the invariant.
LEMMA LifeSteps ==
  ASSUME MaxHostFaults \in Nat, LifeInv, Child!LifeNext \/ UNCHANGED childVars
  PROVE  LifeInv'
<1>0. Child!HostFault => hostFaults' \in 0 .. MaxHostFaults
  <2>1. hostFaults \in 0 .. MaxHostFaults
    BY DEF LifeInv, Child!LifeTypeOK
  <2> QED
    BY <2>1 DEF Child!HostFault
<1> USE DEF LifeInv, Child!LifeTypeOK, RunOver, ChildCompleted, Child!Rest, Child!Goes
<1>1. CASE Child!ParentMade
  BY <1>1 DEF Child!ParentMade
<1>2. CASE Child!WorkflowStarts
  BY <1>2 DEF Child!WorkflowStarts
<1>3. CASE Child!WorkflowResult
  BY <1>3 DEF Child!WorkflowResult
<1>4. CASE Child!RunDisposed
  BY <1>4 DEF Child!RunDisposed
<1>5. CASE Child!ChildAdmitted
  BY <1>5 DEF Child!ChildAdmitted
<1>6. CASE Child!ChildRefused
  BY <1>0, <1>6 DEF Child!ChildRefused
<1>7. CASE Child!ChildGone
  BY <1>7 DEF Child!ChildGone, Child!Absent
<1>8. CASE Child!ChildAbandoned
  BY <1>8 DEF Child!ChildAbandoned
<1>9. CASE Child!Drained
  BY <1>9 DEF Child!Drained
<1>10. CASE Child!ParentDisposed
  BY <1>10 DEF Child!ParentDisposed
<1>11. CASE Child!ReportWritten \/ Child!ReportRenamed
  BY <1>11 DEF Child!ReportWritten, Child!ReportRenamed, Child!Verdict
<1>12. CASE Child!HostFails
  <2>1. CASE Child!ParentFails
    BY <1>0, <2>1 DEF Child!ParentFails
  <2>2. CASE Child!RunDisposeFails
    BY <1>0, <2>2 DEF Child!RunDisposeFails
  <2>3. CASE Child!DrainFails \/ Child!ParentDisposeFails
    BY <1>0, <2>3 DEF Child!DrainFails, Child!ParentDisposeFails
  <2>4. CASE Child!ReportFails
    BY <1>0, <2>4 DEF Child!ReportFails
  <2> QED
    BY <1>12, <2>1, <2>2, <2>3, <2>4 DEF Child!HostFails
<1>13. CASE Child!WorkflowEnds \/ Child!ChildReleased
  BY <1>13 DEF Child!WorkflowEnds, Child!ChildReleased
<1>14. ASSUME NEW how \in {"completed", "stopped"}, Child!ChildEnds(how) PROVE LifeInv'
  BY <1>14 DEF Child!ChildEnds
<1>15. CASE Child!TimerAborts \/ Child!Dispose \/ Child!DisposeEnds
  BY <1>15 DEF Child!TimerAborts, Child!Dispose, Child!DisposeEnds, Child!Disposed
<1>16. CASE UNCHANGED childVars
  BY <1>16 DEF childVars
<1> QED
  BY <1>1, <1>2, <1>3, <1>4, <1>5, <1>6, <1>7, <1>8, <1>9, <1>10, <1>11, <1>12, <1>13, <1>14,
     <1>15, <1>16 DEF Child!LifeNext, Child!Execute

\* The invariant is enough for what a report says.
LEMMA LifeInvIsEnough ==
  ASSUME LifeInv
  PROVE  Child!ReportIsTruthful
BY DEF LifeInv, Child!ReportIsTruthful, RunOver, ChildCompleted

(***************************************************************************)
(* SandboxTrial                                                            *)
(***************************************************************************)

\* A trial is verified after its report was validated and its disk compared, and the check
\* of a trial comes after its worker.
SandboxInv ==
  /\ Sandbox!SandboxTypeOK /\ Sandbox!VerdictMeansConfined
  /\ trial = "files" => claimed = Sandbox!Expected(asked)
  /\ trial \in {"fixture", "worker", "validate", "files"} => ~ verified
  /\ trial = "dispose" => verified \/ refused

\* A mode expects none but the eight operations.
LEMMA ExpectedOperations ==
  ASSUME NEW m \in Sandbox!Mode
  PROVE  Sandbox!Expected(m) \subseteq Sandbox!Operation
BY DEF Sandbox!Mode, Sandbox!Expected, Sandbox!ExpectedWrites, Sandbox!Operation, Sandbox!Write

\* A trial begins with its fixture.
LEMMA SandboxStarts ==
  ASSUME Sandbox!SandboxInit
  PROVE  SandboxInv
<1>1. enforced \subseteq Sandbox!Operation
  BY ExpectedOperations DEF Sandbox!SandboxInit
<1>2. Len(Sandbox!Order) = 8
  BY DEF Sandbox!Order
<1>3. Sandbox!SandboxTypeOK
  <2>1. performed \in 0 .. Len(Sandbox!Order) /\ asked \in Sandbox!Mode
    BY <1>2 DEF Sandbox!SandboxInit
  <2>2. /\ held = {} /\ effects = {} /\ claimed = {} /\ verified \in BOOLEAN /\ refused \in BOOLEAN
        /\ trial = "fixture"
    BY DEF Sandbox!SandboxInit
  <2> QED
    BY <1>1, <2>1, <2>2 DEF Sandbox!SandboxTypeOK
<1>4. trial = "fixture" /\ ~ verified
  BY DEF Sandbox!SandboxInit
<1> QED
  BY <1>3, <1>4 DEF SandboxInv, Sandbox!VerdictMeansConfined

\* Every step of the fixture, of the worker and of the checks keeps the invariant.
LEMMA SandboxSteps ==
  ASSUME SandboxInv, Sandbox!SandboxNext \/ UNCHANGED sandboxVars
  PROVE  SandboxInv'
<1> USE DEF SandboxInv, Sandbox!SandboxTypeOK, Sandbox!VerdictMeansConfined, Sandbox!TrialFixed,
            Sandbox!Abandons
<1>0. Len(Sandbox!Order) = 8
  BY DEF Sandbox!Order
<1>1. ASSUME NEW what \in {"root", "temp", "server"}, NEW before, Sandbox!FixtureGrows(what, before)
      PROVE  SandboxInv'
  BY <1>1 DEF Sandbox!FixtureGrows
<1>2. CASE Sandbox!FixtureFails
  BY <1>2 DEF Sandbox!FixtureFails
<1>3. CASE Sandbox!Allows
  BY <1>0, <1>3 DEF Sandbox!Allows
<1>4. ASSUME NEW leaves \in BOOLEAN, Sandbox!Refuses(leaves) \/ Sandbox!Aborts(leaves)
      PROVE  SandboxInv'
  <2>1. /\ performed' \in 0 .. Len(Sandbox!Order) /\ effects' \subseteq Sandbox!Write
        /\ UNCHANGED <<asked, enforced, held, claimed, verified>>
        /\ trial = "worker"
    BY <1>0, <1>4 DEF Sandbox!Refuses, Sandbox!Aborts, Sandbox!Attempted
  <2>2. (UNCHANGED <<trial, refused>>) \/ (trial' = "dispose" /\ refused' = TRUE)
    BY <1>4 DEF Sandbox!Refuses, Sandbox!Aborts
  <2> QED
    BY <2>1, <2>2
<1>5. CASE Sandbox!InputRefused \/ Sandbox!CommandFails \/ Sandbox!Reported
  <2>1. /\ UNCHANGED <<asked, enforced, held, performed, effects, claimed, verified>>
        /\ trial = "worker"
        /\ (trial' = "dispose" /\ refused' = TRUE) \/ (trial' = "validate" /\ refused' = refused)
    BY <1>5 DEF Sandbox!InputRefused, Sandbox!CommandFails, Sandbox!Reported
  <2> QED
    BY <2>1
<1>6. CASE Sandbox!Validated
  BY <1>6 DEF Sandbox!Validated
<1>7. CASE Sandbox!FilesVerified
  BY <1>7 DEF Sandbox!FilesVerified, Sandbox!FilesMatch
<1>8. ASSUME NEW left \in SUBSET {"root", "temp", "server"}, Sandbox!Disposes(left)
      PROVE  SandboxInv'
  BY <1>8 DEF Sandbox!Disposes
<1>9. CASE UNCHANGED sandboxVars
  BY <1>9 DEF sandboxVars
<1> QED
  BY <1>1, <1>2, <1>3, <1>4, <1>5, <1>6, <1>7, <1>8, <1>9 DEF Sandbox!SandboxNext

(***************************************************************************)
(* HostLauncher                                                            *)
(***************************************************************************)

\* The launcher has no host before it starts one, has lost it when it closes, and has begun
\* to record a host that is ready.
LaunchInv ==
  /\ Launcher!LaunchTypeOK /\ Launcher!LauncherTellsTruth
  /\ launcher = "preparing" => host = "none" /\ record = "none" /\ ~ ready
  /\ launcher = "closing" => host = "gone"
  /\ ready => record # "none"

\* A launcher begins without a host.
LEMMA LaunchStarts ==
  ASSUME Launcher!LaunchInit
  PROVE  LaunchInv
BY DEF Launcher!LaunchInit, LaunchInv, Launcher!LaunchTypeOK, Launcher!LauncherTellsTruth

\* Every step of the launcher and of its host keeps the invariant.
LEMMA LaunchSteps ==
  ASSUME LaunchInv, Launcher!LaunchNext \/ UNCHANGED launcherVars
  PROVE  LaunchInv'
<1> USE DEF LaunchInv, Launcher!LaunchTypeOK, Launcher!LauncherTellsTruth, Launcher!Ends,
            Launcher!Removed
<1>1. CASE Launcher!PrepareFails \/ Launcher!Spawned \/ Launcher!SpawnFails
  BY <1>1 DEF Launcher!PrepareFails, Launcher!Spawned, Launcher!SpawnFails
<1>2. CASE Launcher!UrlSeen
  BY <1>2 DEF Launcher!UrlSeen
<1>3. CASE Launcher!Records \/ Launcher!RecordFails
  BY <1>3 DEF Launcher!Records, Launcher!RecordFails
<1>4. CASE Launcher!Interrupt \/ Launcher!StartDeadline
  BY <1>4 DEF Launcher!Interrupt, Launcher!StartDeadline, Launcher!Stop
<1>5. ASSUME NEW code \in {"zero", "interrupted", "other"}, Launcher!HostExits(code)
      PROVE  LaunchInv'
  BY <1>5 DEF Launcher!HostExits
<1>6. CASE Launcher!HostClosed
  BY <1>6 DEF Launcher!HostClosed
<1>7. CASE Launcher!Concludes
  BY <1>7 DEF Launcher!Concludes, Launcher!SuccessfulHostExit
<1>8. CASE UNCHANGED launcherVars
  BY <1>8 DEF launcherVars
<1> QED
  BY <1>1, <1>2, <1>3, <1>4, <1>5, <1>6, <1>7, <1>8 DEF Launcher!LaunchNext

(***************************************************************************)
(* ImageTrial                                                              *)
(***************************************************************************)

\* Where nothing was cleaned up yet.
BeforeCleanup == {"setup", "start", "first", "second", "bounded close", "close", "verify", "cleanup"}

\* The flags are earned in their order: a harness that is known closed is gone, so that what is
\* cleaned up after it stays clean; and what has not failed has earned the flags it passed.
ImageEarns ==
  /\ "closed" \in flags => imageOwner # "running"
  /\ image \in {"setup", "start"} => imageOwner = "none"
  /\ image = "setup" => ~ kept
  /\ image \in BeforeCleanup => "attempted" \notin flags /\ "cleaned" \notin flags
  /\ image \in {"verify", "cleanup", "result"} => "closed" \in flags
  /\ "cleaned" \in flags /\ image = "finally owner" => "closed" \in flags
  /\ {"closed", "cleaned"} \subseteq flags => ~ files
  /\ image = "bounded close" => imageFailed
  /\ image = "result" => "cleaned" \in flags
  /\ image \in Images!Finally /\ ~ imageFailed => {"verified", "closed", "cleaned"} \subseteq flags
  /\ image = "finally remove" /\ ~ imageFailed => proxy # "open"
  /\ told = "removed" => /\ image = "over" /\ {"closed", "cleaned"} \subseteq flags
                         /\ proxy # "open" /\ ~ kept
  /\ image = "over" /\ ~ imageFailed => told = "removed"
  /\ image = "over" /\ kept => told = "retained"

ImageInv == Images!ImageTypeOK /\ ImageEarns

\* A trial begins without a harness.
LEMMA ImageStarts ==
  ASSUME MaxImageFaults \in Nat, Images!ImageInit
  PROVE  ImageInv
<1>1. imageFaults \in 0 .. MaxImageFaults
  BY DEF Images!ImageInit
<1>2. /\ image = "setup" /\ imageOwner = "none" /\ proxy = "none" /\ files = FALSE
      /\ flags = {"closed"} /\ kept = FALSE /\ told = "nothing" /\ imageFailed = FALSE
  BY DEF Images!ImageInit
<1> QED
  BY <1>1, <1>2 DEF ImageInv, Images!ImageTypeOK, Images!Finally, ImageEarns, BeforeCleanup

\* What a place proceeds to, with its two outcomes.
LEMMA ImageOutcome ==
  ASSUME NEW ok \in BOOLEAN, NEW next, NEW otherwise, Images!Goes(ok, next, otherwise)
  PROVE  \/ ok /\ image' = next /\ imageFailed' = imageFailed
         \/ ~ ok /\ image' = otherwise /\ imageFailed' = TRUE
BY DEF Images!Goes, Images!To, Images!ImageFails

\* Every step of the trial and of its harness earns its flags.
LEMMA ImageStepsEarn ==
  ASSUME MaxImageFaults \in Nat, ImageInv, Images!ImageNext \/ UNCHANGED imagesVars
  PROVE  ImageEarns'
<1>0. imageFaults \in 0 .. MaxImageFaults /\ imageFailed \in BOOLEAN /\ ImageEarns
  BY DEF ImageInv, Images!ImageTypeOK
<1> USE DEF ImageEarns, Images!Finally, BeforeCleanup
<1>1. CASE Images!Uploads
  BY <1>0, <1>1 DEF Images!Uploads
<1>2. CASE Images!FirstRunOnly
  BY <1>0, <1>2 DEF Images!FirstRunOnly, Images!To
<1>3. CASE Images!AnswerRefused
  <2>1. /\ image \in {"second", "close"} /\ image' = "finally owner" /\ imageFailed' = TRUE
        /\ UNCHANGED <<imageOwner, proxy, files, flags, kept, told>>
    BY <1>3 DEF Images!AnswerRefused, Images!ImageFails
  <2> QED
    BY <1>0, <2>1
<1>4. ASSUME NEW ok \in BOOLEAN, NEW gone \in BOOLEAN, Images!SetUp(ok, gone) PROVE ImageEarns'
  <2>1. \/ ok /\ image' = "start" /\ imageFailed' = imageFailed
        \/ ~ ok /\ image' = (IF gone THEN "finally owner" ELSE "over") /\ imageFailed' = TRUE
    BY <1>4, ImageOutcome DEF Images!SetUp
  <2>2. /\ image = "setup" /\ UNCHANGED <<imageOwner, files, flags, told>>
        /\ IF gone THEN kept' = TRUE ELSE ~ ok /\ kept' = kept
    BY <1>4 DEF Images!SetUp
  <2> QED
    BY <1>0, <2>1, <2>2
<1>5. ASSUME NEW ok \in BOOLEAN, NEW gone \in BOOLEAN, Images!OwnerStarts(ok, gone) PROVE ImageEarns'
  <2>1. \/ ok /\ image' = "first" /\ imageFailed' = imageFailed
        \/ ~ ok /\ image' = "finally owner" /\ imageFailed' = TRUE
    BY <1>5, ImageOutcome DEF Images!OwnerStarts
  <2>2. /\ image = "start" /\ UNCHANGED <<proxy, files, kept, told>>
        /\ imageOwner' \in {"none", "running", "gone"}
        /\ imageOwner' = "running" => "closed" \notin flags'
        /\ flags' \subseteq flags
    BY <1>5 DEF Images!OwnerStarts
  <2> QED
    BY <1>0, <2>1, <2>2
<1>6. ASSUME NEW ok \in BOOLEAN, Images!FirstRun(ok) \/ Images!SecondRun(ok) PROVE ImageEarns'
  <2>1. /\ \/ image = "first" /\ image' = "second" /\ imageFailed' = imageFailed
           \/ image = "second" /\ image' = "close" /\ imageFailed' = imageFailed
           \/ image' = "bounded close" /\ imageFailed' = TRUE /\ image \in {"first", "second"}
        /\ UNCHANGED <<imageOwner, proxy, files, flags, kept, told>>
    BY <1>6, ImageOutcome DEF Images!FirstRun, Images!SecondRun, Images!BoundedRun
  <2> QED
    BY <1>0, <2>1
<1>7. ASSUME NEW gone \in BOOLEAN, Images!BoundedClose(gone) PROVE ImageEarns'
  BY <1>0, <1>7 DEF Images!BoundedClose, Images!To
<1>8. ASSUME NEW ok \in BOOLEAN, NEW gone \in BOOLEAN, Images!ClosesOwner(ok, gone) PROVE ImageEarns'
  <2>1. \/ ok /\ image' = "verify" /\ imageFailed' = imageFailed
        \/ ~ ok /\ image' = "finally owner" /\ imageFailed' = TRUE
    BY <1>8, ImageOutcome DEF Images!ClosesOwner, Images!OwnerCloses
  <2>2. /\ image = "close" /\ (ok => gone) /\ UNCHANGED <<proxy, files, kept, told>>
        /\ imageOwner' = IF gone THEN "gone" ELSE imageOwner
        /\ flags' = IF ok THEN flags \cup {"closed"} ELSE flags
    BY <1>8 DEF Images!ClosesOwner, Images!OwnerCloses
  <2> QED
    BY <1>0, <2>1, <2>2
<1>9. ASSUME NEW ok \in BOOLEAN, Images!Verifies(ok) PROVE ImageEarns'
  <2>1. /\ \/ ok /\ image' = "cleanup" /\ imageFailed' = imageFailed
           \/ ~ ok /\ image' = "finally owner" /\ imageFailed' = TRUE
        /\ image = "verify"
        /\ UNCHANGED <<imageOwner, proxy, files, flags, kept, told>>
    BY <1>9, ImageOutcome DEF Images!Verifies
  <2> QED
    BY <1>0, <2>1
<1>10. ASSUME NEW ok \in BOOLEAN, Images!CleanUpFirst(ok) PROVE ImageEarns'
  <2>1. \/ ok /\ image' = "result" /\ imageFailed' = imageFailed
        \/ ~ ok /\ image' = "finally owner" /\ imageFailed' = TRUE
    BY <1>10, ImageOutcome DEF Images!CleanUpFirst, Images!CleansUp
  <2>2. /\ image = "cleanup" /\ UNCHANGED <<imageOwner, proxy, kept, told>>
        /\ files' = IF ok THEN FALSE ELSE files
        /\ flags' = flags \cup {"attempted"} \cup (IF ok THEN {"cleaned"} ELSE {})
    BY <1>10 DEF Images!CleanUpFirst, Images!CleansUp
  <2> QED
    BY <1>0, <2>1, <2>2
<1>11. ASSUME NEW ok \in BOOLEAN, Images!Results(ok) PROVE ImageEarns'
  <2>1. \/ ok /\ image' = "finally owner" /\ imageFailed' = imageFailed
        \/ ~ ok /\ image' = "finally owner" /\ imageFailed' = TRUE
    BY <1>11, ImageOutcome DEF Images!Results
  <2>2. /\ image = "result" /\ UNCHANGED <<imageOwner, proxy, files, kept, told>>
        /\ flags' = IF ok THEN flags \cup {"verified"} ELSE flags
    BY <1>11 DEF Images!Results
  <2> QED
    BY <1>0, <2>1, <2>2
<1>12. ASSUME NEW ok \in BOOLEAN, NEW gone \in BOOLEAN, Images!FinallyOwner(ok, gone) PROVE ImageEarns'
  <2>1. CASE "closed" \in flags
    <3>1. /\ image = "finally owner" /\ image' = "finally cleanup" /\ imageFailed' = imageFailed
          /\ UNCHANGED <<imageOwner, proxy, files, flags, kept, told>>
      BY <1>12, <2>1 DEF Images!FinallyOwner, Images!To
    <3> QED
      BY <1>0, <3>1
  <2>2. CASE "closed" \notin flags
    <3>1. \/ ok /\ image' = "finally cleanup" /\ imageFailed' = imageFailed
          \/ ~ ok /\ image' = "finally cleanup" /\ imageFailed' = TRUE
      BY <1>12, <2>2, ImageOutcome DEF Images!FinallyOwner, Images!OwnerCloses
    <3>2. /\ image = "finally owner" /\ (ok => gone) /\ UNCHANGED <<proxy, files, kept, told>>
          /\ imageOwner' = IF gone THEN "gone" ELSE imageOwner
          /\ flags' = IF ok THEN flags \cup {"closed"} ELSE flags
      BY <1>12, <2>2 DEF Images!FinallyOwner, Images!OwnerCloses
    <3> QED
      BY <1>0, <2>2, <3>1, <3>2
  <2> QED
    BY <2>1, <2>2
<1>13. ASSUME NEW ok \in BOOLEAN, Images!FinallyCleansUp(ok) PROVE ImageEarns'
  <2>1. CASE proxy = "none" \/ "attempted" \in flags
    <3>1. /\ image = "finally cleanup" /\ image' = "finally evidence" /\ imageFailed' = imageFailed
          /\ UNCHANGED <<imageOwner, proxy, files, flags, kept, told>>
      BY <1>13, <2>1 DEF Images!FinallyCleansUp, Images!To
    <3> QED
      BY <1>0, <3>1
  <2>2. CASE proxy # "none" /\ "attempted" \notin flags
    <3>1. \/ ok /\ image' = "finally evidence" /\ imageFailed' = imageFailed
          \/ ~ ok /\ image' = "finally evidence" /\ imageFailed' = TRUE
      BY <1>13, <2>2, ImageOutcome DEF Images!FinallyCleansUp, Images!CleansUp
    <3>2. /\ image = "finally cleanup" /\ UNCHANGED <<imageOwner, proxy, kept, told>>
          /\ files' = IF ok THEN FALSE ELSE files
          /\ flags' = flags \cup {"attempted"} \cup (IF ok THEN {"cleaned"} ELSE {})
      BY <1>13, <2>2 DEF Images!FinallyCleansUp, Images!CleansUp
    <3> QED
      BY <1>0, <2>2, <3>1, <3>2
  <2> QED
    BY <2>1, <2>2
<1>14. ASSUME NEW ok \in BOOLEAN, Images!FinallyEvidence(ok) PROVE ImageEarns'
  <2>1. /\ image = "finally evidence"
        /\ UNCHANGED <<imageOwner, proxy, files, flags, kept, told>>
    BY <1>14 DEF Images!FinallyEvidence
  <2>2. image' = "finally proxy" /\ imageFailed' \in {imageFailed, TRUE}
    BY <1>14 DEF Images!FinallyEvidence, Images!Goes, Images!To, Images!ImageFails
  <2> QED
    BY <1>0, <2>1, <2>2
<1>15. ASSUME NEW ok \in BOOLEAN, Images!FinallyProxy(ok) PROVE ImageEarns'
  <2>1. /\ image = "finally proxy" /\ UNCHANGED <<imageOwner, files, flags, kept, told>>
        /\ proxy' = IF ok /\ proxy # "none" THEN "closed" ELSE proxy
    BY <1>15 DEF Images!FinallyProxy
  <2>2. CASE proxy = "none"
    <3>1. image' = "finally remove" /\ imageFailed' = imageFailed
      BY <1>15, <2>2 DEF Images!FinallyProxy, Images!To
    <3> QED
      BY <1>0, <2>1, <2>2, <3>1
  <2>3. CASE proxy # "none"
    <3>1. \/ ok /\ image' = "finally remove" /\ imageFailed' = imageFailed
          \/ ~ ok /\ image' = "finally remove" /\ imageFailed' = TRUE
      BY <1>15, <2>3, ImageOutcome DEF Images!FinallyProxy
    <3> QED
      BY <1>0, <2>1, <2>3, <3>1
  <2> QED
    BY <2>2, <2>3
<1>16. ASSUME NEW ok \in BOOLEAN, Images!Removes(ok) PROVE ImageEarns'
  <2>1. /\ image = "finally remove" /\ UNCHANGED <<imageOwner, proxy, files, flags>>
        /\ kept' = ~ (Images!Removable /\ ok)
        /\ told' = IF Images!Removable /\ ok THEN "removed" ELSE "retained"
    BY <1>16 DEF Images!Removes
  <2>2. CASE Images!Removable
    <3>1. \/ ok /\ image' = "over" /\ imageFailed' = imageFailed
          \/ ~ ok /\ image' = "over" /\ imageFailed' = TRUE
      BY <1>16, <2>2, ImageOutcome DEF Images!Removes
    <3>2. {"closed", "cleaned"} \subseteq flags /\ proxy # "open"
      BY <2>2 DEF Images!Removable
    <3> QED
      BY <1>0, <2>1, <2>2, <3>1, <3>2
  <2>3. CASE ~ Images!Removable
    <3>1. Images!To("over")
      BY <1>16, <2>3 DEF Images!Removes
    <3>2. imageFailed
      BY <1>0, <2>1, <2>3 DEF Images!Removable
    <3> QED
      BY <1>0, <2>1, <2>3, <3>1, <3>2 DEF Images!To
  <2> QED
    BY <2>2, <2>3
<1>17. CASE UNCHANGED imagesVars
  BY <1>0, <1>17 DEF imagesVars
<1> QED
  BY <1>1, <1>2, <1>3, <1>4, <1>5, <1>6, <1>7, <1>8, <1>9, <1>10, <1>11, <1>12, <1>13, <1>14,
     <1>15, <1>16, <1>17 DEF Images!ImageNext

\* Every step of the trial and of its harness keeps the types.
LEMMA ImageStepsType ==
  ASSUME MaxImageFaults \in Nat, Images!ImageTypeOK, Images!ImageNext \/ UNCHANGED imagesVars
  PROVE  Images!ImageTypeOK'
<1> DEFINE Places == {"setup", "start", "first", "second", "bounded close", "close", "verify",
                      "cleanup", "result", "over"} \cup Images!Finally
<1>1. CASE UNCHANGED imagesVars
  BY <1>1 DEF imagesVars, Images!ImageTypeOK
<1>2. CASE Images!ImageNext
  <2>1. imageOwner' \in {imageOwner, "none", "running", "gone"}
    BY <1>2, ZenonT(30) DEF Images!ImageNext, Images!Uploads, Images!FirstRunOnly,
       Images!AnswerRefused, Images!SetUp, Images!OwnerStarts, Images!FirstRun, Images!SecondRun,
       Images!BoundedRun, Images!BoundedClose, Images!ClosesOwner, Images!OwnerCloses,
       Images!Verifies, Images!CleanUpFirst, Images!CleansUp, Images!Results, Images!FinallyOwner,
       Images!FinallyCleansUp, Images!FinallyEvidence, Images!FinallyProxy, Images!Removes
  <2>7. proxy' \in {proxy, "open", "closed"}
    BY <1>2 DEF Images!ImageNext, Images!Uploads, Images!FirstRunOnly,
       Images!AnswerRefused, Images!SetUp, Images!OwnerStarts, Images!FirstRun, Images!SecondRun,
       Images!BoundedRun, Images!BoundedClose, Images!ClosesOwner, Images!OwnerCloses,
       Images!Verifies, Images!CleanUpFirst, Images!CleansUp, Images!Results, Images!FinallyOwner,
       Images!FinallyCleansUp, Images!FinallyEvidence, Images!FinallyProxy, Images!Removes
  <2>2. flags' \subseteq {"closed", "attempted", "cleaned", "verified"}
    BY <1>2, ZenonT(30) DEF Images!ImageTypeOK, Images!ImageNext, Images!Uploads, Images!FirstRunOnly,
       Images!AnswerRefused, Images!SetUp, Images!OwnerStarts, Images!FirstRun, Images!SecondRun,
       Images!BoundedRun, Images!BoundedClose, Images!ClosesOwner, Images!OwnerCloses,
       Images!Verifies, Images!CleanUpFirst, Images!CleansUp, Images!Results, Images!FinallyOwner,
       Images!FinallyCleansUp, Images!FinallyEvidence, Images!FinallyProxy, Images!Removes
  <2>3. files' = files \/ files' = TRUE \/ files' = FALSE
    BY <1>2 DEF Images!ImageNext, Images!Uploads, Images!FirstRunOnly,
       Images!AnswerRefused, Images!SetUp, Images!OwnerStarts, Images!FirstRun, Images!SecondRun,
       Images!BoundedRun, Images!BoundedClose, Images!ClosesOwner, Images!OwnerCloses,
       Images!Verifies, Images!CleanUpFirst, Images!CleansUp, Images!Results, Images!FinallyOwner,
       Images!FinallyCleansUp, Images!FinallyEvidence, Images!FinallyProxy, Images!Removes
  <2>8. kept' = kept \/ kept' = TRUE \/ \E ok \in BOOLEAN : Images!Removes(ok)
    BY <1>2, ZenonT(30) DEF Images!ImageNext, Images!Uploads, Images!FirstRunOnly,
       Images!AnswerRefused, Images!SetUp, Images!OwnerStarts, Images!FirstRun, Images!SecondRun,
       Images!BoundedRun, Images!BoundedClose, Images!ClosesOwner, Images!OwnerCloses,
       Images!Verifies, Images!CleanUpFirst, Images!CleansUp, Images!Results, Images!FinallyOwner,
       Images!FinallyCleansUp, Images!FinallyEvidence, Images!FinallyProxy
  <2>9. files' \in BOOLEAN /\ kept' \in BOOLEAN
    <3>1. files \in BOOLEAN /\ kept \in BOOLEAN
      BY DEF Images!ImageTypeOK
    <3>2. files' \in BOOLEAN
      BY <2>3, <3>1
    <3>3. ASSUME NEW ok \in BOOLEAN, Images!Removes(ok) PROVE kept' \in BOOLEAN
      BY <3>3 DEF Images!Removes
    <3> QED
      BY <2>8, <3>1, <3>2, <3>3
  <2>4. \/ UNCHANGED <<image, imageFailed, imageFaults>>
        \/ \E spot \in Places : Images!To(spot) \/ Images!ImageFails(spot)
    BY <1>2, ZenonT(30) DEF Images!ImageNext, Images!Uploads, Images!FirstRunOnly, Images!Finally, Images!Goes,
       Images!AnswerRefused, Images!SetUp, Images!OwnerStarts, Images!FirstRun, Images!SecondRun,
       Images!BoundedRun, Images!BoundedClose, Images!ClosesOwner, Images!OwnerCloses,
       Images!Verifies, Images!CleanUpFirst, Images!CleansUp, Images!Results, Images!FinallyOwner,
       Images!FinallyCleansUp, Images!FinallyEvidence, Images!FinallyProxy, Images!Removes
  <2>5. imageFaults' \in 0 .. MaxImageFaults
    <3>1. imageFaults \in 0 .. MaxImageFaults
      BY DEF Images!ImageTypeOK
    <3>2. \/ imageFaults' = imageFaults
          \/ imageFaults < MaxImageFaults /\ imageFaults' = imageFaults + 1
      BY <2>4, Zenon DEF Images!To, Images!ImageFails
    <3> QED
      BY <3>1, <3>2
  <2>6. image' \in Places
    <3>1. image \in Places
      BY DEF Images!ImageTypeOK
    <3> QED
      BY <2>4, <3>1 DEF Images!To, Images!ImageFails
  <2>10. imageFailed' \in BOOLEAN
    <3>1. imageFailed \in BOOLEAN
      BY DEF Images!ImageTypeOK
    <3>2. imageFailed' = imageFailed \/ imageFailed' = TRUE
      BY <2>4 DEF Images!To, Images!ImageFails
    <3> QED
      BY <3>1, <3>2
  <2>11. imageOwner' \in {"none", "running", "gone"} /\ proxy' \in {"none", "open", "closed"}
    BY <2>1, <2>7 DEF Images!ImageTypeOK
  <2> QED
    BY <2>2, <2>5, <2>6, <2>9, <2>10, <2>11 DEF Images!ImageTypeOK
<1> QED
  BY <1>1, <1>2

\* Every step keeps the invariant.
LEMMA ImageSteps ==
  ASSUME MaxImageFaults \in Nat, ImageInv, Images!ImageNext \/ UNCHANGED imagesVars
  PROVE  ImageInv'
BY ImageStepsEarn, ImageStepsType DEF ImageInv

\* The invariant is enough for what the script says at its end.
LEMMA ImageInvIsEnough ==
  ASSUME ImageInv
  PROVE  Images!RemovalIsEarned
BY DEF ImageInv, ImageEarns, Images!RemovalIsEarned

(***************************************************************************)
(* WorkflowTrial                                                           *)
(***************************************************************************)

\* Only the process of the round is ever alive; the other round is over with a good report; a
\* harness that is known closed has no process; and without an error each place has behind it
\* what the code did on the way to it.
RoundsInv ==
  /\ Rounds!TrialTypeOK
  /\ processes \subseteq {round}
  /\ round = "resume" => reported["seed"] = "ok"
  /\ at \in {"setup", "start", "check"} => released
  /\ released => processes = {}
  /\ at \in {"close", "check"} => reported[round] = "ok"
  /\ at \in {"finally", "remove"} /\ ~ trialFailed =>
       released /\ confirmed /\ \A r \in Rounds!Round : reported[r] = "ok"
  /\ at = "over" /\ ~ trialFailed =>
       released /\ ~ directoryKept /\ \A r \in Rounds!Round : reported[r] = "ok"

\* A trial begins without a process.
LEMMA RoundsStart ==
  ASSUME MaxTrialFaults \in Nat, Rounds!TrialInit
  PROVE  RoundsInv
<1>1. trialFaults \in 0 .. MaxTrialFaults
  BY DEF Rounds!TrialInit
<1>2. /\ at = "setup" /\ round = "seed" /\ processes = {}
      /\ reported = [r \in Rounds!Round |-> "none"] /\ released = TRUE /\ confirmed = FALSE
      /\ directoryKept = FALSE /\ trialFailed = FALSE
  BY DEF Rounds!TrialInit
<1> QED
  BY <1>1, <1>2 DEF RoundsInv, Rounds!TrialTypeOK, Rounds!Round

\* A step that fails is counted.
LEMMA TrialFailure ==
  ASSUME MaxTrialFaults \in Nat, trialFaults \in 0 .. MaxTrialFaults, NEW next,
         Rounds!TrialFails(next)
  PROVE  trialFaults' \in 0 .. MaxTrialFaults /\ at' = next /\ trialFailed' = TRUE
<1>1. trialFaults' \in 0 .. MaxTrialFaults
  BY DEF Rounds!TrialFails
<1>2. at' = next /\ trialFailed' = TRUE
  BY DEF Rounds!TrialFails
<1> QED
  BY <1>1, <1>2

\* Closing the harness of the round: it is known closed only when its process is gone.
LEMMA ClosingKeepsInv ==
  ASSUME MaxTrialFaults \in Nat, RoundsInv, NEW ok \in BOOLEAN, NEW gone \in BOOLEAN,
         NEW now, NEW next, NEW otherwise,
         <<now, next, otherwise>> \in {<<"close", "check", "finally">>, <<"finally", "remove", "remove">>},
         Rounds!Closing(now, ok, gone, next, otherwise)
  PROVE  RoundsInv'
<1> USE DEF RoundsInv, Rounds!TrialTypeOK, Rounds!Round
<1>0. trialFaults \in 0 .. MaxTrialFaults
  OBVIOUS
<1>1. /\ at = now /\ (ok => gone)
      /\ processes' = IF gone THEN processes \ {round} ELSE processes
      /\ released' = (released \/ ok)
      /\ UNCHANGED <<round, reported, confirmed, directoryKept>>
  BY DEF Rounds!Closing
<1>2. CASE ok
  <2>1. at' = next /\ UNCHANGED <<trialFailed, trialFaults>>
    BY <1>2 DEF Rounds!Closing, Rounds!Proceeds
  <2> QED
    BY <1>1, <1>2, <2>1
<1>3. CASE ~ ok
  <2>1. at' = otherwise /\ trialFailed' = TRUE /\ trialFaults' \in 0 .. MaxTrialFaults
    BY <1>0, <1>3, TrialFailure DEF Rounds!Closing
  <2> QED
    BY <1>1, <1>3, <2>1
<1> QED
  BY <1>2, <1>3

\* Every step of the script, of its processes and of their reports keeps the invariant.
LEMMA RoundsSteps ==
  ASSUME MaxTrialFaults \in Nat, RoundsInv, Rounds!TrialNext \/ UNCHANGED roundsVars
  PROVE  RoundsInv'
<1>0. trialFaults \in 0 .. MaxTrialFaults
  BY DEF RoundsInv, Rounds!TrialTypeOK
<1> USE DEF RoundsInv, Rounds!TrialTypeOK, Rounds!Round
<1>1. ASSUME NEW ok \in BOOLEAN, NEW more \in BOOLEAN, Rounds!Arranged(ok, more) PROVE RoundsInv'
  <2>1. /\ at = "setup" /\ (ok => more) /\ directoryKept' = more
        /\ UNCHANGED <<round, processes, reported, released, confirmed>>
    BY <1>1 DEF Rounds!Arranged
  <2>2. CASE ok
    BY <1>1, <2>1, <2>2 DEF Rounds!Arranged, Rounds!Proceeds
  <2>3. CASE ~ ok
    <3>1. Rounds!TrialFails(IF more THEN "finally" ELSE "over")
      BY <1>1, <2>3 DEF Rounds!Arranged
    <3> QED
      <4>1. trialFaults' \in 0 .. MaxTrialFaults /\ trialFailed' = TRUE /\ at' = (IF more THEN "finally" ELSE "over")
        BY <1>0, <3>1, TrialFailure
      <4> QED
        BY <2>1, <4>1
  <2> QED
    BY <2>2, <2>3
<1>2. ASSUME NEW ok \in BOOLEAN, NEW more \in BOOLEAN, Rounds!RoundStarts(ok, more) PROVE RoundsInv'
  <2>1. /\ at = "start" /\ (ok => more) /\ processes' \subseteq {round}
        /\ released' = (released /\ ~ more) /\ (~ more => processes' = processes)
        /\ UNCHANGED <<round, reported, confirmed, directoryKept>>
    BY <1>2 DEF Rounds!RoundStarts
  <2>2. CASE ok
    BY <1>2, <2>1, <2>2 DEF Rounds!RoundStarts, Rounds!Proceeds
  <2>3. CASE ~ ok
    <3>1. Rounds!TrialFails("finally")
      BY <1>2, <2>3 DEF Rounds!RoundStarts
    <3> QED
      <4>1. trialFaults' \in 0 .. MaxTrialFaults /\ trialFailed' = TRUE /\ at' = "finally"
        BY <1>0, <3>1, TrialFailure
      <4> QED
        BY <2>1, <4>1
  <2> QED
    BY <2>2, <2>3
<1>3. ASSUME NEW ok \in BOOLEAN, NEW more \in BOOLEAN,
             Rounds!RoundCloses(ok, more) \/ Rounds!FinallyCloses(ok, more)
      PROVE  RoundsInv'
  <2>1. CASE Rounds!RoundCloses(ok, more) \/ Rounds!Closing("finally", ok, more, "remove", "remove")
    BY <2>1, ClosingKeepsInv DEF Rounds!RoundCloses
  <2>2. CASE /\ at = "finally" /\ released /\ Rounds!Proceeds("remove")
             /\ UNCHANGED <<round, processes, reported, released, confirmed, directoryKept>>
    BY <2>2 DEF Rounds!Proceeds
  <2> QED
    BY <1>3, <2>1, <2>2 DEF Rounds!FinallyCloses
<1>4. ASSUME NEW ok \in BOOLEAN, Rounds!SeedChecked(ok) \/ Rounds!ResumeChecked(ok) PROVE RoundsInv'
  <2>1. /\ at = "check" /\ UNCHANGED <<processes, reported, released, directoryKept>>
        /\ \/ round = "seed" /\ round' = (IF ok THEN "resume" ELSE round) /\ confirmed' = confirmed
           \/ round = "resume" /\ round' = round /\ confirmed' = ok
    BY <1>4 DEF Rounds!SeedChecked, Rounds!ResumeChecked
  <2>2. CASE ok
    BY <1>4, <2>1, <2>2 DEF Rounds!SeedChecked, Rounds!ResumeChecked, Rounds!Proceeds
  <2>3. CASE ~ ok
    <3>1. Rounds!TrialFails("finally")
      BY <1>4, <2>3 DEF Rounds!SeedChecked, Rounds!ResumeChecked
    <3> QED
      BY <1>0, <2>1, <2>3, <3>1, TrialFailure
  <2> QED
    BY <2>2, <2>3
<1>5. ASSUME NEW ok \in BOOLEAN, Rounds!DirectoryRemoved(ok) PROVE RoundsInv'
  <2>1. /\ at = "remove" /\ directoryKept' = ~ (confirmed /\ released /\ ok)
        /\ UNCHANGED <<round, processes, reported, released, confirmed>>
    BY <1>5 DEF Rounds!DirectoryRemoved
  <2>2. CASE ok \/ ~ (confirmed /\ released)
    BY <1>5, <2>1, <2>2 DEF Rounds!DirectoryRemoved, Rounds!Proceeds
  <2>3. CASE ~ (ok \/ ~ (confirmed /\ released))
    <3>1. Rounds!TrialFails("over")
      BY <1>5, <2>3 DEF Rounds!DirectoryRemoved
    <3> QED
      <4>1. trialFaults' \in 0 .. MaxTrialFaults /\ trialFailed' = TRUE /\ at' = "over"
        BY <1>0, <3>1, TrialFailure
      <4> QED
        BY <2>1, <4>1
  <2> QED
    BY <2>2, <2>3
<1>6. ASSUME NEW kind \in {"ok", "error"}, Rounds!ReportAppears(kind) PROVE RoundsInv'
  BY <1>6 DEF Rounds!ReportAppears
<1>7. CASE Rounds!ProcessDies
  <2>1. trialFaults' \in 0 .. MaxTrialFaults
    BY <1>0, <1>7 DEF Rounds!ProcessDies
  <2>2. /\ processes' \subseteq processes
        /\ UNCHANGED <<at, round, reported, released, confirmed, directoryKept, trialFailed>>
    BY <1>7 DEF Rounds!ProcessDies
  <2> QED
    BY <2>1, <2>2
<1>8. CASE Rounds!ReportRead \/ Rounds!WaitExpires
  <2>1. /\ UNCHANGED <<round, processes, reported, released, confirmed, directoryKept, trialFaults>>
        /\ \/ at' = "finally" /\ trialFailed' = TRUE
           \/ at' = "close" /\ trialFailed' = trialFailed /\ reported[round] = "ok"
    BY <1>8 DEF Rounds!ReportRead, Rounds!WaitExpires, Rounds!Proceeds
  <2> QED
    BY <2>1
<1>9. CASE UNCHANGED roundsVars
  BY <1>9 DEF roundsVars
<1> QED
  BY <1>1, <1>2, <1>3, <1>4, <1>5, <1>6, <1>7, <1>8, <1>9 DEF Rounds!TrialNext

\* The cardinality of the trial is the one of the library.
LEMMA RoundsCardinality ==
  ASSUME NEW S
  PROVE  Rounds!Cardinality(S) = Cardinality(S)
BY DEF Rounds!Cardinality, Cardinality

\* The invariant is enough for what the trial shows.
LEMMA RoundsInvIsEnough ==
  ASSUME RoundsInv
  PROVE  Rounds!TrialIsCold
<1>1. Rounds!Cardinality(processes) <= 1
  <2>1. processes = {} \/ processes = {round}
    BY DEF RoundsInv
  <2>2. Rounds!Cardinality({}) = 0 /\ Rounds!Cardinality({round}) = 1
    BY FS_EmptySet, FS_Singleton, RoundsCardinality
  <2> QED
    BY <2>1, <2>2
<1>2. round = "resume" => reported["seed"] = "ok" /\ "seed" \notin processes
  BY DEF RoundsInv
<1>3. at = "over" /\ ~ trialFailed =>
        ~ directoryKept /\ processes = {} /\ \A r \in Rounds!Round : reported[r] = "ok"
  BY DEF RoundsInv
<1> QED
  BY <1>1, <1>2, <1>3, Zenon DEF Rounds!TrialIsCold

(***************************************************************************)
(* WebClient                                                               *)
(***************************************************************************)

Terminal == {"execution-unknown", "persisted-terminal"}
ServiceRun == [of : Conversation \cup {Web!NoOne}, logged : 0 .. MaxLog,
               status : {"none", "running", "succeeded", "execution_unknown"}]
Inspection == [of : Conversation, monitored : SUBSET (0 .. MaxRun), at : {"asked", "timer"},
               active : BOOLEAN]
Watch == [run : Web!RunId, at : {"load", "reload", "detail", "redetail", "stream", "wait"},
          cursor : 0 .. MaxLog, wanted : BOOLEAN, heard : BOOLEAN]
Shown == [run : 0 .. MaxRun, cursor : 0 .. MaxLog,
          phase : {"idle", "loading", "attached-streaming", "client-detached",
                   "persisted-terminal", "execution-unknown"}]

ListTypes ==
  /\ row \in [Conversation -> {"absent", "active", "blocked"}]
  /\ list \in [Conversation -> {Web!NoOne, "active", "blocked"}]
  /\ loading.read \in [Conversation -> {Web!NoOne, "active", "blocked"}]
  /\ selected \in Conversation \cup {Web!NoOne} /\ due \in BOOLEAN

ScreenTypes ==
  /\ run \in [Web!RunId -> ServiceRun] /\ shown \in Shown
  /\ inspects \subseteq Inspection /\ watchers \subseteq Watch

\* One poll is active, and only that one has a timer.
OnePoll ==
  /\ \A i, j \in inspects : i.active /\ j.active => i = j
  /\ \A i \in inspects : i.at = "timer" => i.active

\* A watch has read no more than there is; the one that is wanted is of the run monitored.
WatchIsBehind ==
  \A w \in watchers :
    /\ w.cursor <= run[w.run].logged
    /\ w.wanted => \E i \in inspects : i.active /\ i.monitored = {w.run}

\* What is shown is of the run monitored, not more than there is, and its outcome.
ShownIsTrue ==
  /\ \A i \in inspects : i.active /\ i.monitored # {} /\ shown.run # 0 => i.monitored = {shown.run}
  /\ shown.run # 0 => shown.cursor <= run[shown.run].logged
  /\ shown.phase \in Terminal =>
       shown.run # 0 /\ Web!Ended(shown.run) /\ shown.phase = Web!Phase(shown.run)

\* A run that was not admitted has no events.
NoneIsEmpty == \A r \in Web!RunId : run[r].status = "none" => run[r].logged = 0

WebInv == ListTypes /\ NoneIsEmpty /\ ScreenTypes /\ OnePoll /\ WatchIsBehind /\ ShownIsTrue

\* A page opens with nothing shown.
LEMMA WebStarts ==
  ASSUME MaxRun \in Nat, MaxLog \in Nat, Web!ClientInit
  PROVE  WebInv
<1>1. /\ row = [c \in Conversation |-> IF c \in Existing THEN "active" ELSE "absent"]
      /\ run = [r \in Web!RunId |-> [of |-> Web!NoOne, status |-> "none", logged |-> 0]]
      /\ list = [c \in Conversation |-> Web!NoOne]
      /\ loading = [at |-> "asked", read |-> [c \in Conversation |-> Web!NoOne]]
      /\ selected = Web!NoOne /\ due = FALSE /\ inspects = {} /\ watchers = {}
      /\ shown = [run |-> 0, phase |-> "idle", cursor |-> 0]
  BY DEF Web!ClientInit, Web!NoList, Web!Nothing
<1>2. ListTypes
  BY <1>1 DEF ListTypes
<1>3. ScreenTypes
  BY <1>1 DEF ScreenTypes, ServiceRun, Shown
<1>4. OnePoll /\ WatchIsBehind /\ ShownIsTrue /\ NoneIsEmpty
  BY <1>1 DEF OnePoll, WatchIsBehind, ShownIsTrue, Terminal, NoneIsEmpty
<1> QED
  BY <1>2, <1>3, <1>4 DEF WebInv

\* A run gets more events, and keeps its outcome: what is shown of it stays true.
Goes(new) ==
  /\ new \in [Web!RunId -> ServiceRun]
  /\ \A r \in Web!RunId : /\ run[r].logged <= new[r].logged
                          /\ Web!Ended(r) => new[r].status = run[r].status

\* The service moves on.
LEMMA ServiceGoesOn ==
  ASSUME MaxRun \in Nat, MaxLog \in Nat, ScreenTypes, OnePoll, WatchIsBehind, ShownIsTrue,
         Goes(run'), UNCHANGED <<inspects, watchers, shown>>
  PROVE  ScreenTypes' /\ OnePoll' /\ WatchIsBehind' /\ ShownIsTrue'
<1>1. ScreenTypes'
  BY DEF ScreenTypes, Goes
<1>2. OnePoll'
  BY DEF OnePoll
<1>3. \A r \in Web!RunId : run[r].logged \in Nat /\ run'[r].logged \in Nat /\ run[r].logged <= run'[r].logged
  BY <1>1 DEF ScreenTypes, Goes, ServiceRun
<1>4. WatchIsBehind'
  <2>1. \A w \in watchers : w.run \in Web!RunId /\ w.cursor \in Nat
    BY DEF ScreenTypes, Watch
  <2> QED
    BY <1>3, <2>1 DEF WatchIsBehind
<1>5. ShownIsTrue'
  <2>1. shown.run \in 0 .. MaxRun /\ shown.cursor \in Nat
    BY DEF ScreenTypes, Shown
  <2>2. shown.run # 0 => shown.run \in Web!RunId
    BY <2>1 DEF Web!RunId
  <2>3. shown.run # 0 => shown.cursor <= run'[shown.run].logged
    BY <1>3, <2>1, <2>2 DEF ShownIsTrue
  <2>4. shown.phase \in Terminal =>
          shown.run # 0 /\ Web!Ended(shown.run)' /\ shown.phase = Web!Phase(shown.run)'
    BY <2>2 DEF ShownIsTrue, Goes, Web!Ended, Web!Phase
  <2> QED
    BY <2>3, <2>4 DEF ShownIsTrue
<1> QED
  BY <1>1, <1>2, <1>4, <1>5

\* An admission, and an event.
LEMMA ServiceMoves ==
  ASSUME MaxRun \in Nat, MaxLog \in Nat, WebInv,
         \/ \E c \in Conversation, r \in Web!RunId : Web!Admit(c, r)
         \/ \E r \in Web!RunId, how \in {"running", "succeeded", "execution_unknown"} : Web!Log(r, how)
  PROVE  WebInv'
<1>0. ListTypes /\ NoneIsEmpty /\ ScreenTypes /\ OnePoll /\ WatchIsBehind /\ ShownIsTrue
  BY DEF WebInv
<1>t. run \in [Web!RunId -> ServiceRun]
  BY <1>0 DEF ScreenTypes
<1>1. ASSUME NEW c \in Conversation, NEW r \in Web!RunId, Web!Admit(c, r)
      PROVE  WebInv'
  <2> DEFINE new == [of |-> c, status |-> "running", logged |-> 0]
  <2>1. /\ run[r].status = "none" /\ run' = [run EXCEPT ![r] = new]
        /\ UNCHANGED <<row, list, loading, selected, due, inspects, watchers, shown>>
    BY <1>1 DEF Web!Admit, Web!screen
  <2>2. run[r].logged = 0
    BY <1>0, <2>1 DEF NoneIsEmpty
  <2>3. new \in ServiceRun /\ new.status = "running" /\ new.logged = 0
    BY DEF ServiceRun
  <2> HIDE DEF new
  <2>4. Goes(run')
    BY <1>t, <2>1, <2>2, <2>3 DEF Goes, ServiceRun, Web!Ended
  <2>5. NoneIsEmpty'
    BY <1>0, <1>t, <2>1, <2>3 DEF NoneIsEmpty
  <2> QED
    BY <1>0, <2>1, <2>4, <2>5, ServiceGoesOn DEF WebInv, ListTypes
<1>2. ASSUME NEW r \in Web!RunId, NEW how \in {"running", "succeeded", "execution_unknown"}, Web!Log(r, how)
      PROVE  WebInv'
  <2> DEFINE new == [run[r] EXCEPT !.status = how, !.logged = run[r].logged + 1]
  <2>1. /\ run[r].status = "running" /\ run[r].logged < MaxLog /\ run' = [run EXCEPT ![r] = new]
        /\ row' = IF how = "execution_unknown" THEN [row EXCEPT ![run[r].of] = "blocked"] ELSE row
        /\ UNCHANGED <<list, loading, selected, due, inspects, watchers, shown>>
    BY <1>2 DEF Web!Log, Web!screen
  <2>2. run[r] \in ServiceRun /\ run[r].logged \in 0 .. MaxLog
    BY <1>t DEF ServiceRun
  <2>3. new \in ServiceRun /\ new.status = how /\ new.logged = run[r].logged + 1
    <3>1. run[r].of \in Conversation \cup {Web!NoOne} /\ run[r].logged + 1 \in 0 .. MaxLog
      BY <2>1, <2>2 DEF ServiceRun
    <3> QED
      BY <2>2, <3>1 DEF ServiceRun
  <2> HIDE DEF new
  <2>4. \A o \in Web!RunId : run'[o] = IF o = r THEN new ELSE run[o]
    BY <1>t, <2>1
  <2>5. run' \in [Web!RunId -> ServiceRun]
    BY <1>t, <2>1, <2>3
  <2>6. \A o \in Web!RunId : run[o].logged \in Nat
    BY <1>t DEF ServiceRun
  <2>7. \A o \in Web!RunId : run[o].logged <= run'[o].logged
    BY <2>2, <2>3, <2>4, <2>6
  <2>8. \A o \in Web!RunId : Web!Ended(o) => run'[o].status = run[o].status
    BY <2>1, <2>4 DEF Web!Ended
  <2>9. Goes(run')
    BY <2>5, <2>7, <2>8 DEF Goes
  <2>10. NoneIsEmpty'
    BY <1>0, <2>3, <2>4 DEF NoneIsEmpty
  <2>11. ListTypes'
    BY <1>0, <2>1 DEF ListTypes
  <2> QED
    BY <1>0, <2>1, <2>9, <2>10, <2>11, ServiceGoesOn DEF WebInv
<1> QED
  BY <1>1, <1>2

\* What a watch may say.
Says(w, s) ==
  /\ s \in Shown /\ s.run = w.run /\ w.wanted
  /\ s.cursor <= run[w.run].logged
  /\ s.phase \in Terminal => Web!Ended(w.run) /\ s.phase = Web!Phase(w.run)

\* A watch goes on or returns, and says something or nothing.
WatchGoes(w) ==
  /\ UNCHANGED <<row, run, list, loading, selected, due, inspects>>
  /\ \/ watchers' = watchers \ {w}
     \/ \E new \in Watch : /\ watchers' = (watchers \ {w}) \cup {new}
                           /\ new.run = w.run /\ new.wanted = w.wanted
                           /\ new.cursor <= run[w.run].logged
  /\ shown' = shown \/ Says(w, shown')

\* That keeps what is shown true.
LEMMA WatchKeeps ==
  ASSUME WebInv, NEW w \in watchers, WatchGoes(w)
  PROVE  WebInv'
<1>0. /\ ListTypes /\ NoneIsEmpty /\ ScreenTypes /\ OnePoll /\ WatchIsBehind /\ ShownIsTrue
      /\ UNCHANGED <<row, run, list, loading, selected, due, inspects>>
      /\ shown' = shown \/ Says(w, shown')
  BY DEF WebInv, WatchGoes
<1>1. ListTypes' /\ NoneIsEmpty' /\ OnePoll'
  BY <1>0 DEF ListTypes, NoneIsEmpty, OnePoll
<1>2. watchers' \subseteq Watch /\ WatchIsBehind'
  <2>1. CASE watchers' = watchers \ {w}
    BY <1>0, <2>1 DEF ScreenTypes, WatchIsBehind
  <2>2. CASE ~ watchers' = watchers \ {w}
    <3>1. PICK new \in Watch :
            /\ watchers' = (watchers \ {w}) \cup {new}
            /\ new.run = w.run /\ new.wanted = w.wanted /\ new.cursor <= run[w.run].logged
      BY <2>2 DEF WatchGoes
    <3>2. \A o \in watchers' : o \in watchers \/ o = new
      BY <3>1
    <3>3. watchers' \subseteq Watch
      BY <1>0, <3>2 DEF ScreenTypes
    <3>4. new.cursor <= run'[new.run].logged
      BY <1>0, <3>1
    <3>5. new.wanted => \E i \in inspects' : i.active /\ i.monitored = {new.run}
      BY <1>0, <3>1 DEF WatchIsBehind
    <3>6. WatchIsBehind'
      BY <1>0, <3>2, <3>4, <3>5 DEF WatchIsBehind
    <3> QED
      BY <3>3, <3>6
  <2> QED
    BY <2>1, <2>2
<1>3. ScreenTypes'
  BY <1>0, <1>2 DEF ScreenTypes, Says
<1>4. ShownIsTrue'
  <2>1. CASE shown' = shown
    BY <1>0, <2>1 DEF ShownIsTrue, Web!Ended, Web!Phase
  <2>2. CASE Says(w, shown')
    <3>1. PICK i \in inspects : i.active /\ i.monitored = {w.run}
      BY <2>2 DEF Says, WatchIsBehind, WebInv
    <3>2. \A j \in inspects : j.active => j.monitored = {w.run}
      BY <1>0, <3>1 DEF OnePoll
    <3>3. w.run # 0
      BY <1>0 DEF ScreenTypes, Watch, Web!RunId
    <3> QED
      BY <1>0, <2>2, <3>2, <3>3 DEF Says, ShownIsTrue, Web!Ended, Web!Phase
  <2> QED
    BY <1>0, <2>1, <2>2
<1> QED
  BY <1>1, <1>2, <1>3, <1>4 DEF WebInv

\* Two numbers have a smaller one.
LEMMA SmallerOfTwo ==
  ASSUME NEW m \in Nat, NEW n \in Nat
  PROVE  Web!Min({m, n}) \in {m, n} /\ Web!Min({m, n}) <= m /\ Web!Min({m, n}) <= n
<1>1. \E least \in {m, n} : \A k \in {m, n} : least <= k
  <2>1. CASE m <= n
    BY <2>1
  <2>2. CASE n <= m
    BY <2>2
  <2> QED
    BY <2>1, <2>2
<1>2. /\ Web!Min({m, n}) \in {m, n}
      /\ \A k \in {m, n} : Web!Min({m, n}) <= k
  BY <1>1 DEF Web!Min
<1> QED
  BY <1>2

\* What a watch is.
LEMMA WatchFacts ==
  ASSUME MaxLog \in Nat, WebInv, NEW w \in watchers
  PROVE  /\ w \in Watch /\ w.run \in Web!RunId /\ w.cursor \in Nat /\ w.wanted \in BOOLEAN
         /\ run[w.run].logged \in Nat /\ run[w.run].logged <= MaxLog
         /\ w.cursor <= run[w.run].logged
<1>1. w \in Watch /\ run \in [Web!RunId -> ServiceRun] /\ w.cursor <= run[w.run].logged
  BY DEF WebInv, ScreenTypes, WatchIsBehind
<1>2. w.run \in Web!RunId /\ w.cursor \in 0 .. MaxLog /\ w.wanted \in BOOLEAN
  BY <1>1 DEF Watch
<1>3. run[w.run].logged \in 0 .. MaxLog
  BY <1>1, <1>2 DEF ServiceRun
<1> QED
  BY <1>1, <1>2, <1>3

\* What a watch publishes is what it may say.
LEMMA PublishedIsSaid ==
  ASSUME MaxRun \in Nat, MaxLog \in Nat, WebInv, NEW w \in watchers, NEW v \in Watch,
         v.run = w.run, v.wanted = w.wanted, v.cursor <= run[w.run].logged,
         NEW phase_ \in {"attached-streaming", "client-detached",
                         "persisted-terminal", "execution-unknown"},
         phase_ \in Terminal => Web!Ended(w.run) /\ phase_ = Web!Phase(w.run),
         Web!Publishes(v, phase_)
  PROVE  shown' = shown \/ Says(w, shown')
<1>1. CASE ~ (Web!Current(v) /\ v.heard)
  BY <1>1 DEF Web!Publishes
<1>2. CASE Web!Current(v) /\ v.heard
  <2>1. shown' = [run |-> v.run, phase |-> phase_, cursor |-> v.cursor]
    BY <1>2 DEF Web!Publishes
  <2>2. v.run \in 0 .. MaxRun /\ v.cursor \in 0 .. MaxLog
    BY DEF Watch, Web!RunId
  <2>3. shown' \in Shown /\ shown'.run = w.run /\ shown'.phase = phase_ /\ shown'.cursor = v.cursor
    BY <2>1, <2>2 DEF Shown
  <2> QED
    BY <1>2, <2>3 DEF Says, Web!Current
<1> QED
  BY <1>1, <1>2

\* Every step of a watch is one of those.
LEMMA WatchMoves ==
  ASSUME MaxRun \in Nat, MaxLog \in Nat, Page \in Nat, WebInv, NEW w \in watchers,
         Web!WatchStep(w) \/ Web!WatchFails(w)
  PROVE  WatchGoes(w)
<1>0. /\ w \in Watch /\ w.run \in Web!RunId /\ w.cursor \in Nat /\ w.wanted \in BOOLEAN
      /\ run[w.run].logged \in Nat /\ run[w.run].logged <= MaxLog
      /\ w.cursor <= run[w.run].logged
  BY WatchFacts
<1>1. UNCHANGED <<row, run, list, loading, selected, due, inspects>>
  BY DEF Web!WatchStep, Web!WatchFails, Web!LoadPage, Web!Detail, Web!StreamRow, Web!StreamEnds,
         Web!WaitEnds, Web!Watcher, Web!service
<1> DEFINE At(place_) == [w EXCEPT !.at = place_]
<1>2. \A place_ \in {"load", "reload", "detail", "redetail", "stream", "wait"} :
        /\ At(place_) \in Watch /\ At(place_).run = w.run /\ At(place_).wanted = w.wanted
        /\ At(place_).cursor = w.cursor
  BY <1>0 DEF Watch
<1> HIDE DEF At
<1>3. CASE Web!LoadPage(w)
  <2> DEFINE rows == Web!Min({Page, run[w.run].logged - w.cursor})
  <2> DEFINE cursor == w.cursor + rows
  <2>1. rows \in Nat /\ rows <= run[w.run].logged - w.cursor
    BY <1>0, SmallerOfTwo
  <2>2. cursor \in Nat /\ cursor <= run[w.run].logged
    BY <1>0, <2>1
  <2>3. shown' = shown
    BY <1>3 DEF Web!LoadPage
  <2>4. CASE ~ Web!Current(w)
    BY <1>1, <1>3, <2>3, <2>4 DEF Web!LoadPage, Web!Returns, WatchGoes
  <2>5. CASE Web!Current(w)
    <3> DEFINE goal == IF rows = Page THEN w.at ELSE IF w.at = "load" THEN "detail" ELSE "redetail"
    <3>1. w.at \in {"load", "reload"}
      BY <1>3 DEF Web!LoadPage
    <3>2. goal \in {"load", "reload", "detail", "redetail"}
      BY <3>1
    <3>3. watchers' = (watchers \ {w}) \cup {[w EXCEPT !.cursor = cursor, !.at = goal]}
      BY <1>0, <1>3, <2>5 DEF Web!LoadPage, Web!Becomes, Watch
    <3> HIDE DEF goal, cursor, rows
    <3> DEFINE new == [w EXCEPT !.cursor = cursor, !.at = goal]
    <3>4. new \in Watch /\ new.run = w.run /\ new.wanted = w.wanted /\ new.cursor = cursor
      <4>1. cursor \in 0 .. MaxLog
        BY <1>0, <2>2
      <4> QED
        BY <1>0, <3>2, <4>1 DEF Watch
    <3> HIDE DEF new
    <3>5. watchers' = (watchers \ {w}) \cup {new}
      BY <3>3 DEF new
    <3> QED
      BY <1>1, <2>2, <2>3, <3>4, <3>5 DEF WatchGoes
  <2> QED
    BY <2>4, <2>5
<1>4. CASE Web!Detail(w)
  <2>1. CASE ~ Web!Current(w)
    BY <1>1, <1>4, <2>1 DEF Web!Detail, Web!Returns, WatchGoes
  <2>2. CASE Web!Current(w) /\ Web!Ended(w.run)
    <3>1. watchers' = watchers \ {w} /\ Web!Publishes(w, Web!Phase(w.run))
      BY <1>4, <2>2 DEF Web!Detail, Web!Returns
    <3>2. Web!Phase(w.run) \in {"persisted-terminal", "execution-unknown"}
      BY DEF Web!Phase
    <3>3. shown' = shown \/ Says(w, shown')
      BY <1>0, <2>2, <3>1, <3>2, PublishedIsSaid
    <3> QED
      BY <1>1, <3>1, <3>3 DEF WatchGoes
  <2>3. CASE Web!Current(w) /\ ~ Web!Ended(w.run)
    <3>1. \E how \in {<<"attached-streaming", "stream">>, <<"client-detached", "wait">>} :
            Web!Publishes(w, how[1]) /\ watchers' = (watchers \ {w}) \cup {At(how[2])}
      BY <1>4, <2>3 DEF Web!Detail, Web!Becomes, At
    <3>2. PICK phase_ \in {"attached-streaming", "client-detached"}, place_ \in {"stream", "wait"} :
            Web!Publishes(w, phase_) /\ watchers' = (watchers \ {w}) \cup {At(place_)}
      BY <3>1
    <3>3. phase_ \notin Terminal
      BY DEF Terminal
    <3>4. shown' = shown \/ Says(w, shown')
      BY <1>0, <3>2, <3>3, PublishedIsSaid
    <3> QED
      BY <1>0, <1>1, <1>2, <3>2, <3>4 DEF WatchGoes
  <2> QED
    BY <2>1, <2>2, <2>3
<1>5. CASE Web!StreamRow(w)
  <2> DEFINE new == [w EXCEPT !.cursor = w.cursor + 1]
  <2>1. /\ run[w.run].logged > w.cursor /\ w.at = "stream"
        /\ watchers' = (watchers \ {w}) \cup {new} /\ Web!Publishes(new, "attached-streaming")
    BY <1>5 DEF Web!StreamRow, Web!Becomes
  <2>2. w.cursor + 1 \in 0 .. MaxLog /\ w.cursor + 1 <= run[w.run].logged
    BY <1>0, <2>1
  <2>3. new \in Watch /\ new.run = w.run /\ new.wanted = w.wanted /\ new.cursor = w.cursor + 1
    BY <1>0, <2>2 DEF Watch
  <2> HIDE DEF new
  <2>4. "attached-streaming" \notin Terminal
    BY DEF Terminal
  <2>5. shown' = shown \/ Says(w, shown')
    BY <2>1, <2>2, <2>3, <2>4, PublishedIsSaid
  <2> QED
    BY <1>1, <2>1, <2>2, <2>3, <2>5 DEF WatchGoes
<1>6. CASE Web!StreamEnds(w) \/ Web!WaitEnds(w)
  <2>1. shown' = shown
    BY <1>6 DEF Web!StreamEnds, Web!WaitEnds
  <2>2. \/ watchers' = watchers \ {w}
        \/ \E place_ \in {"reload", "load"} : watchers' = (watchers \ {w}) \cup {At(place_)}
    BY <1>6 DEF Web!StreamEnds, Web!WaitEnds, Web!Becomes, Web!Returns, At
  <2> QED
    BY <1>0, <1>1, <1>2, <2>1, <2>2 DEF WatchGoes
<1>7. CASE Web!WatchFails(w)
  <2>1. CASE w.at = "stream"
    <3>1. shown' = shown /\ watchers' = (watchers \ {w}) \cup {At("reload")}
      BY <1>7, <2>1 DEF Web!WatchFails, Web!Becomes, At
    <3> QED
      BY <1>0, <1>1, <1>2, <3>1 DEF WatchGoes
  <2>2. CASE w.at # "stream"
    <3>1. Web!Publishes(w, "client-detached") /\ watchers' = (watchers \ {w}) \cup {At("wait")}
      BY <1>7, <2>2 DEF Web!WatchFails, Web!Becomes, At
    <3>2. "client-detached" \notin Terminal
      BY DEF Terminal
    <3>3. shown' = shown \/ Says(w, shown')
      BY <1>0, <3>1, <3>2, PublishedIsSaid
    <3> QED
      BY <1>0, <1>1, <1>2, <3>1, <3>3 DEF WatchGoes
  <2> QED
    BY <2>1, <2>2
<1> QED
  BY <1>3, <1>4, <1>5, <1>6, <1>7 DEF Web!WatchStep

\* What is stopped.
LEMMA StoppedWatches ==
  ASSUME watchers \subseteq Watch
  PROVE  /\ \A v \in Web!Stopped(watchers) :
              \E w \in watchers : v \in Watch /\ v.run = w.run /\ v.cursor = w.cursor /\ ~ v.wanted
         /\ \A u \in {[v EXCEPT !.heard = FALSE] : v \in Web!Stopped(watchers)} :
              \E w \in watchers : u \in Watch /\ u.run = w.run /\ u.cursor = w.cursor /\ ~ u.wanted
<1>1. ASSUME NEW w \in watchers
      PROVE  LET v == [w EXCEPT !.wanted = FALSE]
             IN  v \in Watch /\ v.run = w.run /\ v.cursor = w.cursor /\ ~ v.wanted
  BY DEF Watch
<1>2. \A v \in Web!Stopped(watchers) :
        \E w \in watchers : v \in Watch /\ v.run = w.run /\ v.cursor = w.cursor /\ ~ v.wanted
  BY <1>1 DEF Web!Stopped
<1>3. ASSUME NEW v \in Watch, ~ v.wanted
      PROVE  LET u == [v EXCEPT !.heard = FALSE]
             IN  u \in Watch /\ u.run = v.run /\ u.cursor = v.cursor /\ ~ u.wanted
  BY <1>3 DEF Watch
<1>4. ASSUME NEW v \in Web!Stopped(watchers)
      PROVE  \E w \in watchers : LET u == [v EXCEPT !.heard = FALSE]
               IN  u \in Watch /\ u.run = w.run /\ u.cursor = w.cursor /\ ~ u.wanted
  <2>1. PICK w \in watchers : v \in Watch /\ v.run = w.run /\ v.cursor = w.cursor /\ ~ v.wanted
    BY <1>2
  <2> QED
    BY <1>3, <2>1
<1> QED
  BY <1>2, <1>4, ZenonT(30)

\* A mount stops the watch, and begins with nothing monitored.
LEMMA MountKeeps ==
  ASSUME MaxRun \in Nat, MaxLog \in Nat, WebInv, NEW c \in Conversation \cup {Web!NoOne},
         Web!Mount(c), run' = run, shown' \in {shown, Web!Nothing}
  PROVE  NoneIsEmpty' /\ ScreenTypes' /\ OnePoll' /\ WatchIsBehind' /\ ShownIsTrue'
<1>0. NoneIsEmpty /\ ScreenTypes /\ OnePoll /\ WatchIsBehind /\ ShownIsTrue
  BY DEF WebInv
<1>1. /\ watchers' = {[v EXCEPT !.heard = FALSE] : v \in Web!Stopped(watchers)}
      /\ inspects' = {[i EXCEPT !.active = FALSE] : i \in {j \in inspects : j.at = "asked"}}
                       \cup IF c = Web!NoOne THEN {} ELSE {Web!Asking(c)}
  BY DEF Web!Mount
<1>2. inspects \subseteq Inspection /\ watchers \subseteq Watch /\ run \in [Web!RunId -> ServiceRun]
  BY <1>0 DEF ScreenTypes
<1>3. ASSUME NEW i \in inspects, i.at = "asked"
      PROVE  LET j == [i EXCEPT !.active = FALSE]
             IN  j \in Inspection /\ ~ j.active /\ j.at = "asked"
  BY <1>2, <1>3 DEF Inspection
<1>4. c # Web!NoOne => /\ Web!Asking(c) \in Inspection /\ Web!Asking(c).at = "asked"
                       /\ Web!Asking(c).monitored = {}
  BY DEF Web!Asking, Inspection
<1>5. \A i \in inspects' :
        /\ i \in Inspection /\ i.at = "asked"
        /\ i.active => i = Web!Asking(c) /\ i.monitored = {}
  BY <1>1, <1>3, <1>4
<1>6. /\ Web!Nothing \in Shown /\ Web!Nothing.run = 0 /\ Web!Nothing.phase \notin Terminal
  BY DEF Web!Nothing, Shown, Terminal
<1>7. \A u \in watchers' :
        \E w \in watchers : u \in Watch /\ u.run = w.run /\ u.cursor = w.cursor /\ ~ u.wanted
  BY <1>1, <1>2, StoppedWatches
<1>8. ScreenTypes'
  BY <1>0, <1>5, <1>6, <1>7 DEF ScreenTypes
<1>9. OnePoll'
  BY <1>5 DEF OnePoll
<1>10. WatchIsBehind'
  BY <1>0, <1>7 DEF WatchIsBehind
<1>11. ShownIsTrue'
  <2>1. \A i \in inspects' : i.active => i.monitored = {}
    BY <1>5
  <2>2. shown'.run # 0 => shown'.cursor <= run'[shown'.run].logged
    BY <1>0, <1>6 DEF ShownIsTrue
  <2>3. shown'.phase \in Terminal =>
          shown'.run # 0 /\ Web!Ended(shown.run)' /\ shown'.phase = Web!Phase(shown.run)'
    BY <1>0, <1>6 DEF ShownIsTrue, Web!Ended, Web!Phase
  <2> QED
    BY <2>1, <2>2, <2>3 DEF ShownIsTrue
<1> QED
  BY <1>0, <1>8, <1>9, <1>10, <1>11 DEF NoneIsEmpty

\* The latest run of a conversation.
LEMMA LatestIsARun ==
  ASSUME MaxRun \in Nat, NEW c
  PROVE  Web!Latest(c) \in 0 .. MaxRun
<1>1. CASE Web!RunsOf(c) = {}
  BY <1>1 DEF Web!Latest
<1>2. CASE Web!RunsOf(c) # {}
  <2>1. Web!RunsOf(c) \subseteq 0 .. MaxRun
    BY DEF Web!RunsOf, Web!RunId
  <2>2. \E most \in Web!RunsOf(c) : \A n \in Web!RunsOf(c) : n <= most
    BY <1>2, <2>1, GreatestNatural
  <2>3. \E most \in Web!RunsOf(c) : \A n \in Web!RunsOf(c) : most >= n
    BY <2>1, <2>2
  <2>4. Web!Max(Web!RunsOf(c)) \in Web!RunsOf(c)
    BY <2>3 DEF Web!Max
  <2> QED
    BY <1>2, <2>1, <2>4 DEF Web!Latest
<1> QED
  BY <1>1, <1>2

\* An answer of the poll.
LEMMA AnswerKeeps ==
  ASSUME MaxRun \in Nat, MaxLog \in Nat, WebInv, NEW i \in inspects, Web!InspectAnswered(i)
  PROVE  WebInv'
<1>0. /\ ListTypes /\ NoneIsEmpty /\ ScreenTypes /\ OnePoll /\ WatchIsBehind /\ ShownIsTrue
  BY DEF WebInv
<1>1. UNCHANGED <<row, run, list, loading, selected, due>>
  BY DEF Web!InspectAnswered, Web!service
<1>2. /\ inspects \subseteq Inspection /\ watchers \subseteq Watch
      /\ run \in [Web!RunId -> ServiceRun] /\ shown \in Shown
      /\ i \in Inspection /\ i.active \in BOOLEAN
  BY <1>0 DEF ScreenTypes, Inspection
<1>3. ListTypes' /\ NoneIsEmpty'
  BY <1>0, <1>1 DEF ListTypes, NoneIsEmpty
<1>4. CASE ~ i.active
  <2>1. inspects' = inspects \ {i} /\ UNCHANGED <<watchers, shown>>
    BY <1>4 DEF Web!InspectAnswered, Web!Active
  <2>2. ScreenTypes' /\ OnePoll'
    BY <1>0, <1>1, <2>1 DEF ScreenTypes, OnePoll
  <2>3. WatchIsBehind'
    BY <1>0, <1>1, <1>4, <2>1 DEF WatchIsBehind
  <2>4. ShownIsTrue'
    BY <1>0, <1>1, <2>1 DEF ShownIsTrue, Web!Ended, Web!Phase
  <2> QED
    BY <1>3, <2>2, <2>3, <2>4 DEF WebInv
<1>5. CASE i.active
  <2> DEFINE latest == Web!Latest(i.of)
  <2> DEFINE watch == [run |-> latest, at |-> "load", cursor |-> 0, wanted |-> TRUE, heard |-> i.active]
  <2> DEFINE new == [i EXCEPT !.at = "timer", !.monitored = {latest}]
  <2>1. latest \in 0 .. MaxRun
    BY LatestIsARun
  <2>2. /\ inspects' = (inspects \ {i}) \cup {new}
        /\ IF i.monitored = {latest} THEN UNCHANGED <<watchers, shown>>
           ELSE /\ watchers' = Web!Stopped(watchers) \cup IF latest = 0 THEN {} ELSE {watch}
                /\ Web!Publishes(watch, IF latest = 0 THEN "idle" ELSE "loading")
    BY <1>5, Zenon DEF Web!InspectAnswered, Web!Active
  <2> HIDE DEF latest
  <2>3. new \in Inspection /\ new.active /\ new.at = "timer" /\ new.monitored = {latest}
    BY <1>2, <1>5, <2>1 DEF Inspection
  <2> HIDE DEF new
  <2>4. \A j \in inspects : j.active => j = i
    BY <1>0, <1>5 DEF OnePoll
  <2>5. \A j \in inspects' : j.active => j = new
    BY <2>2, <2>4
  <2>6. OnePoll'
    BY <1>0, <2>2, <2>3, <2>5 DEF OnePoll
  <2>7. inspects' \subseteq Inspection
    BY <1>2, <2>2, <2>3
  <2>8. CASE i.monitored = {latest}
    <3>1. UNCHANGED <<watchers, shown>>
      BY <2>2, <2>8
    <3>2. ScreenTypes'
      BY <1>0, <1>1, <2>7, <3>1 DEF ScreenTypes
    <3>3. WatchIsBehind'
      <4>1. \A w \in watchers : w.wanted => {latest} = {w.run}
        BY <1>0, <2>4, <2>8 DEF WatchIsBehind
      <4> QED
        BY <1>0, <1>1, <2>2, <2>3, <3>1, <4>1 DEF WatchIsBehind
    <3>4. ShownIsTrue'
      <4>1. shown.run # 0 => {latest} = {shown.run}
        BY <1>0, <1>5, <2>8 DEF ShownIsTrue
      <4> QED
        BY <1>0, <1>1, <2>3, <2>5, <3>1, <4>1 DEF ShownIsTrue, Web!Ended, Web!Phase
    <3> QED
      BY <1>3, <2>6, <3>2, <3>3, <3>4 DEF WebInv
  <2>9. CASE i.monitored # {latest}
    <3>1. /\ watchers' = Web!Stopped(watchers) \cup IF latest = 0 THEN {} ELSE {watch}
          /\ Web!Publishes(watch, IF latest = 0 THEN "idle" ELSE "loading")
      BY <2>2, <2>9
    <3>2. watch.wanted /\ watch.heard /\ watch.run = latest /\ watch.cursor = 0
      BY <1>5
    <3>3. latest # 0 => latest \in Web!RunId
      BY <2>1 DEF Web!RunId
    <3>4. latest # 0 => watch \in Watch
      BY <1>2, <3>3 DEF Watch
    <3>5. shown' = [run |-> latest, phase |-> IF latest = 0 THEN "idle" ELSE "loading", cursor |-> 0]
      BY <3>1, <3>2 DEF Web!Publishes, Web!Current
    <3> HIDE DEF watch
    <3>6. /\ shown' \in Shown /\ shown'.run = latest /\ shown'.cursor = 0
          /\ shown'.phase \notin Terminal
      BY <2>1, <3>5 DEF Shown, Terminal
    <3>7. \A u \in watchers' :
            \/ \E w \in watchers : u \in Watch /\ u.run = w.run /\ u.cursor = w.cursor /\ ~ u.wanted
            \/ u = watch /\ latest # 0
      BY <1>2, <3>1, StoppedWatches
    <3>8. ScreenTypes'
      BY <1>0, <1>1, <2>7, <3>4, <3>6, <3>7 DEF ScreenTypes
    <3>9. latest # 0 => run[latest].logged \in Nat /\ 0 <= run[latest].logged
      BY <1>2, <3>3 DEF ServiceRun
    <3>10. WatchIsBehind'
      <4>1. ASSUME NEW u \in watchers'
            PROVE  /\ u.cursor <= run'[u.run].logged
                   /\ u.wanted => \E j \in inspects' : j.active /\ j.monitored = {u.run}
        <5>1. CASE \E w \in watchers : u \in Watch /\ u.run = w.run /\ u.cursor = w.cursor /\ ~ u.wanted
          BY <1>0, <1>1, <5>1 DEF WatchIsBehind
        <5>2. CASE u = watch /\ latest # 0
          BY <1>1, <2>2, <2>3, <3>2, <3>9, <5>2
        <5> QED
          BY <3>7, <5>1, <5>2
      <4> QED
        BY <4>1 DEF WatchIsBehind
    <3>11. ShownIsTrue'
      BY <1>1, <2>3, <2>5, <3>6, <3>9 DEF ShownIsTrue
    <3> QED
      BY <1>3, <2>6, <3>8, <3>10, <3>11 DEF WebInv
  <2> QED
    BY <2>8, <2>9
<1> QED
  BY <1>2, <1>4, <1>5

\* The poll fails, or asks again.
LEMMA PollKeeps ==
  ASSUME WebInv, NEW i \in inspects, Web!InspectFails(i) \/ Web!Poll(i)
  PROVE  WebInv'
<1>0. /\ ListTypes /\ NoneIsEmpty /\ ScreenTypes /\ OnePoll /\ WatchIsBehind /\ ShownIsTrue
  BY DEF WebInv
<1>1. UNCHANGED <<row, run, list, loading, selected, due, watchers, shown>>
  BY DEF Web!InspectFails, Web!Poll, Web!service
<1>2. i \in Inspection /\ i.active
  BY <1>0 DEF ScreenTypes, OnePoll, Web!InspectFails, Web!Poll
<1>3. PICK goal \in {"timer", "asked"} : inspects' = (inspects \ {i}) \cup {[i EXCEPT !.at = goal]}
  BY DEF Web!InspectFails, Web!Poll
<1> DEFINE new == [i EXCEPT !.at = goal]
<1>4. new \in Inspection /\ new.active /\ new.monitored = i.monitored
  BY <1>2 DEF Inspection
<1> HIDE DEF new
<1>5. inspects' = (inspects \ {i}) \cup {new}
  BY <1>3 DEF new
<1>6. ListTypes' /\ NoneIsEmpty' /\ ScreenTypes'
  BY <1>0, <1>1, <1>4, <1>5 DEF ListTypes, NoneIsEmpty, ScreenTypes
<1>7. OnePoll'
  BY <1>0, <1>2, <1>4, <1>5 DEF OnePoll
<1>8. WatchIsBehind'
  BY <1>0, <1>1, <1>2, <1>4, <1>5 DEF WatchIsBehind
<1>9. ShownIsTrue'
  BY <1>0, <1>1, <1>2, <1>4, <1>5 DEF ShownIsTrue, Web!Ended, Web!Phase
<1> QED
  BY <1>6, <1>7, <1>8, <1>9 DEF WebInv

\* The lists and the buttons change nothing on the screen, or clear it.
LEMMA ListKeeps ==
  ASSUME MaxRun \in Nat, MaxLog \in Nat, WebInv, ListTypes',
         UNCHANGED <<run, inspects, watchers>>, shown' \in {shown, Web!Nothing}
  PROVE  WebInv'
<1>0. NoneIsEmpty /\ ScreenTypes /\ OnePoll /\ WatchIsBehind /\ ShownIsTrue
  BY DEF WebInv
<1>1. Web!Nothing \in Shown /\ Web!Nothing.run = 0 /\ Web!Nothing.phase \notin Terminal
  BY DEF Web!Nothing, Shown, Terminal
<1>2. NoneIsEmpty' /\ ScreenTypes' /\ OnePoll' /\ WatchIsBehind'
  BY <1>0, <1>1 DEF NoneIsEmpty, ScreenTypes, OnePoll, WatchIsBehind
<1>3. ShownIsTrue'
  <2>1. CASE shown' = shown
    BY <1>0, <2>1 DEF ShownIsTrue, Web!Ended, Web!Phase
  <2>2. CASE shown' = Web!Nothing
    BY <1>1, <2>2 DEF ShownIsTrue
  <2> QED
    BY <2>1, <2>2
<1> QED
  BY <1>2, <1>3 DEF WebInv

\* They keep the types.
LEMMA ListMoves ==
  ASSUME MaxRun \in Nat, MaxLog \in Nat, WebInv,
         \/ Web!ListRead \/ Web!ListLoaded \/ Web!ListFails \/ Web!AskFails \/ Web!Acknowledge
         \/ \E c \in Conversation : Web!Created(c) \/ Web!Acknowledged(c) \/ Web!NewConversation(c)
  PROVE  WebInv'
<1>0. /\ row \in [Conversation -> {"absent", "active", "blocked"}]
      /\ list \in [Conversation -> {Web!NoOne, "active", "blocked"}]
      /\ loading.read \in [Conversation -> {Web!NoOne, "active", "blocked"}]
      /\ selected \in Conversation \cup {Web!NoOne} /\ due \in BOOLEAN
  BY DEF WebInv, ListTypes
<1>1. CASE Web!ListRead
  <2>1. /\ UNCHANGED <<row, run, list, selected, due, inspects, watchers, shown>>
        /\ loading' = [at |-> "read",
                       read |-> [c \in Conversation |-> IF row[c] = "absent" THEN Web!NoOne ELSE row[c]]]
    BY <1>1 DEF Web!ListRead, Web!service, Web!screen
  <2>2. loading'.read = [c \in Conversation |-> IF row[c] = "absent" THEN Web!NoOne ELSE row[c]]
    BY <2>1
  <2>3. ListTypes'
    BY <1>0, <2>1, <2>2 DEF ListTypes
  <2> QED
    BY <2>1, <2>3, ListKeeps
<1>2. CASE Web!ListLoaded
  <2>1. /\ UNCHANGED <<row, run, inspects, watchers, shown>>
        /\ list' = loading.read /\ loading' = [at |-> "done", read |-> Web!NoList]
        /\ selected' \in Conversation \cup {Web!NoOne} /\ due' \in BOOLEAN
    BY <1>0, <1>2 DEF Web!ListLoaded, Web!service, Web!screen
  <2>2. loading'.read = [c \in Conversation |-> Web!NoOne]
    BY <2>1 DEF Web!NoList
  <2>3. ListTypes'
    BY <1>0, <2>1, <2>2 DEF ListTypes
  <2> QED
    BY <2>1, <2>3, ListKeeps
<1>3. CASE Web!ListFails
  <2>1. /\ UNCHANGED <<row, run, list, selected, due, inspects, watchers, shown>>
        /\ loading' = [loading EXCEPT !.at = "done"]
    BY <1>3 DEF Web!ListFails, Web!service, Web!screen
  <2>2. loading'.read = loading.read
    BY <2>1
  <2>3. ListTypes'
    BY <1>0, <2>1, <2>2 DEF ListTypes
  <2> QED
    BY <2>1, <2>3, ListKeeps
<1>4. CASE Web!AskFails \/ Web!Acknowledge \/ \E c \in Conversation : Web!NewConversation(c)
  <2>1. UNCHANGED <<row, run, list, loading, selected, due, inspects, watchers, shown>>
    BY <1>4 DEF Web!AskFails, Web!Acknowledge, Web!NewConversation, Web!service, Web!screen
  <2>2. ListTypes'
    BY <1>0, <2>1 DEF ListTypes
  <2> QED
    BY <2>1, <2>2, ListKeeps
<1>5. ASSUME NEW c \in Conversation, Web!Created(c)
      PROVE  WebInv'
  <2>1. /\ UNCHANGED <<run, loading, inspects, watchers>> /\ shown' = Web!Nothing
        /\ row' = [row EXCEPT ![c] = "active"] /\ list' = [list EXCEPT ![c] = "active"]
        /\ selected' = c /\ due' = TRUE
    BY <1>5 DEF Web!Created
  <2>2. ListTypes'
    BY <1>0, <2>1 DEF ListTypes
  <2> QED
    BY <2>1, <2>2, ListKeeps
<1>6. ASSUME NEW c \in Conversation, Web!Acknowledged(c)
      PROVE  WebInv'
  <2>1. /\ UNCHANGED <<run, loading, selected, inspects, watchers, shown>>
        /\ row' = row \/ row' = [row EXCEPT ![c] = "active"]
        /\ list' = list \/ list' = [list EXCEPT ![c] = "active"]
        /\ due' = due \/ due' = TRUE
    BY <1>6 DEF Web!Acknowledged, Web!screen
  <2>2. ListTypes'
    BY <1>0, <2>1 DEF ListTypes
  <2> QED
    BY <2>1, <2>2, ListKeeps
<1> QED
  BY <1>1, <1>2, <1>3, <1>4, <1>5, <1>6

\* A render and the clicks that mount.
LEMMA MountMoves ==
  ASSUME MaxRun \in Nat, MaxLog \in Nat, WebInv,
         Web!Renders \/ Web!Refresh \/ \E c \in Conversation : Web!Select(c)
  PROVE  WebInv'
<1>0. /\ row \in [Conversation -> {"absent", "active", "blocked"}]
      /\ list \in [Conversation -> {Web!NoOne, "active", "blocked"}]
      /\ loading.read \in [Conversation -> {Web!NoOne, "active", "blocked"}]
      /\ selected \in Conversation \cup {Web!NoOne} /\ due \in BOOLEAN
  BY DEF WebInv, ListTypes
<1>1. \E c \in Conversation \cup {Web!NoOne} :
        /\ Web!Mount(c) /\ UNCHANGED <<row, run, list, loading>>
        /\ selected' \in {selected, c} /\ shown' \in {shown, Web!Nothing}
  BY <1>0 DEF Web!Renders, Web!Refresh, Web!Select, Web!service
<1>2. PICK c \in Conversation \cup {Web!NoOne} :
        /\ Web!Mount(c) /\ UNCHANGED <<row, run, list, loading>>
        /\ selected' \in {selected, c} /\ shown' \in {shown, Web!Nothing}
  BY <1>1
<1>3. due' = FALSE
  BY <1>2 DEF Web!Mount
<1>4. ListTypes'
  BY <1>0, <1>2, <1>3 DEF ListTypes
<1>5. NoneIsEmpty' /\ ScreenTypes' /\ OnePoll' /\ WatchIsBehind' /\ ShownIsTrue'
  BY <1>2, MountKeeps
<1> QED
  BY <1>4, <1>5 DEF WebInv

\* Every step of the page and the service preserves it.
LEMMA WebSteps ==
  ASSUME MaxRun \in Nat, MaxLog \in Nat, Page \in Nat, WebInv,
         Web!ClientNext \/ UNCHANGED webVars
  PROVE  WebInv'
<1>1. CASE UNCHANGED webVars
  <2>1. ListTypes'
    BY <1>1 DEF WebInv, ListTypes, webVars
  <2> QED
    BY <1>1, <2>1, ListKeeps DEF webVars
<1>2. CASE Web!ClientNext
  <2>1. \/ \E w \in watchers : Web!WatchStep(w) \/ Web!WatchFails(w)
        \/ \E i \in inspects : Web!InspectAnswered(i)
        \/ \E i \in inspects : Web!InspectFails(i) \/ Web!Poll(i)
        \/ \/ Web!ListRead \/ Web!ListLoaded \/ Web!ListFails \/ Web!AskFails \/ Web!Acknowledge
           \/ \E c \in Conversation : Web!Created(c) \/ Web!Acknowledged(c) \/ Web!NewConversation(c)
        \/ Web!Renders \/ Web!Refresh \/ \E c \in Conversation : Web!Select(c)
        \/ \/ \E c \in Conversation, r \in Web!RunId : Web!Admit(c, r)
           \/ \E r \in Web!RunId, how \in {"running", "succeeded", "execution_unknown"} : Web!Log(r, how)
    BY <1>2, Zenon DEF Web!ClientNext, Web!ClientStep
  <2> QED
    BY <2>1, WatchMoves, WatchKeeps, AnswerKeeps, PollKeeps, ListMoves, MountMoves, ServiceMoves
<1> QED
  BY <1>1, <1>2

\* The page shows what is promised, and has its types.
LEMMA WebInvIsEnough ==
  ASSUME WebInv
  PROVE  Web!InspectorTellsTruth /\ Web!ClientTypeOK
<1>0. ListTypes /\ ScreenTypes /\ OnePoll /\ ShownIsTrue
  BY DEF WebInv
<1>1. Web!InspectorTellsTruth
  BY <1>0 DEF ShownIsTrue, Terminal, Web!InspectorTellsTruth
<1>2. \A S : Web!Cardinality(S) = Cardinality(S)
  BY DEF Web!Cardinality, Cardinality
<1>3. Cardinality({i \in inspects : i.active}) <= 1
  <2>1. \A g, h \in {i \in inspects : i.active} : g = h
    BY <1>0 DEF OnePoll
  <2> QED
    BY <2>1, OneMember
<1>4. Web!ClientTypeOK
  BY <1>0, <1>2, <1>3 DEF ListTypes, ScreenTypes, ServiceRun, Shown, Web!ClientTypeOK
<1> QED
  BY <1>1, <1>4

(***************************************************************************)
(* SseFrames                                                               *)
(***************************************************************************)

Wires == Seq({"event", "empty", "bad"})

\* What was delivered, in order: the events among the frames that were taken.
InOrder ==
  /\ \A j, k \in DOMAIN delivered : j < k => delivered[j] < delivered[k]
  /\ \A k \in DOMAIN delivered : delivered[k] \in 1 .. handled /\ wire[delivered[k]] = "event"
  /\ \A n \in 1 .. handled : wire[n] = "event" => \E k \in DOMAIN delivered : delivered[k] = n

FramesInv ==
  /\ wire \in Wires /\ Frames!FramesTypeOK
  /\ 2 * handled <= arrived
  /\ frames = "returned" => arrived = 2 * handled
  /\ InOrder

\* A stream begins with nothing read.
LEMMA FramesStart ==
  ASSUME Frames!FramesInit
  PROVE  FramesInv
<1>1. /\ arrived = 0 /\ handled = 0 /\ delivered = << >> /\ frames = "asked"
      /\ wire \in UNION {[1 .. n -> {"event", "empty", "bad"}] : n \in 0 .. MaxFrames}
  BY DEF Frames!FramesInit
<1>2. PICK n \in 0 .. MaxFrames : wire \in [1 .. n -> {"event", "empty", "bad"}]
  BY <1>1
<1>3. wire \in Wires /\ Len(wire) \in Nat
  BY <1>2, SeqDef DEF Wires
<1>4. Frames!FramesTypeOK
  BY <1>1, <1>3 DEF Frames!FramesTypeOK
<1>5. InOrder
  BY <1>1 DEF InOrder
<1> QED
  BY <1>1, <1>3, <1>4, <1>5 DEF FramesInv

\* A frame is taken from the buffer.
LEMMA FrameInOrder ==
  ASSUME FramesInv, Frames!Frame
  PROVE  FramesInv'
<1>1. /\ wire \in Wires /\ Len(wire) \in Nat /\ wire' = wire /\ arrived' = arrived
      /\ arrived \in 0 .. 2 * Len(wire) /\ handled \in 0 .. Len(wire) /\ frames = "open"
      /\ delivered \in Seq(1 .. Len(wire)) /\ handled < arrived \div 2 /\ InOrder
      /\ 2 * handled <= arrived
  BY DEF FramesInv, Frames!FramesTypeOK, Frames!Frame, Frames!Complete, Wires
<1>2. 2 * (handled + 1) <= arrived /\ handled + 1 \in 1 .. Len(wire)
  BY <1>1
<1>3. CASE wire[handled + 1] = "bad"
  <2>1. frames' = "thrown" /\ handled' = handled /\ delivered' = delivered
    BY <1>3 DEF Frames!Frame
  <2> QED
    BY <1>1, <2>1 DEF FramesInv, Frames!FramesTypeOK, InOrder
<1>4. CASE wire[handled + 1] # "bad"
  <2>1. /\ handled' = handled + 1 /\ frames' = frames
        /\ delivered' = IF wire[handled + 1] = "event" THEN Append(delivered, handled + 1) ELSE delivered
    BY <1>1, <1>4 DEF Frames!Frame
  <2>2. CASE wire[handled + 1] = "event"
    <3>1. delivered' = Append(delivered, handled + 1)
      BY <2>1, <2>2
    <3>2. /\ delivered' \in Seq(1 .. Len(wire)) /\ Len(delivered) \in Nat
          /\ DOMAIN delivered = 1 .. Len(delivered) /\ DOMAIN delivered' = 1 .. Len(delivered) + 1
          /\ \A k \in DOMAIN delivered : k \in DOMAIN delivered' /\ delivered'[k] = delivered[k]
          /\ Len(delivered) + 1 \in DOMAIN delivered' /\ delivered'[Len(delivered) + 1] = handled + 1
      BY <1>1, <1>2, <3>1
    <3>0. /\ \A j, k \in DOMAIN delivered : j < k => delivered[j] < delivered[k]
          /\ \A k \in DOMAIN delivered : delivered[k] \in 1 .. handled /\ wire[delivered[k]] = "event"
      BY <1>1 DEF InOrder
    <3>3. \A j, k \in DOMAIN delivered' : j < k => delivered'[j] < delivered'[k]
      <4>1. ASSUME NEW j \in DOMAIN delivered', NEW k \in DOMAIN delivered', j < k
            PROVE  delivered'[j] < delivered'[k]
        <5>1. j \in DOMAIN delivered /\ delivered'[j] = delivered[j] /\ delivered[j] \in 1 .. handled
          BY <3>0, <3>2, <4>1
        <5>2. CASE k \in DOMAIN delivered
          BY <3>0, <3>2, <4>1, <5>1, <5>2
        <5>3. CASE k = Len(delivered) + 1
          BY <1>1, <3>2, <5>1, <5>3
        <5> QED
          BY <3>2, <5>2, <5>3
      <4> QED
        BY <4>1
    <3>4. \A k \in DOMAIN delivered' : delivered'[k] \in 1 .. handled + 1 /\ wire[delivered'[k]] = "event"
      <4>1. ASSUME NEW k \in DOMAIN delivered'
            PROVE  delivered'[k] \in 1 .. handled + 1 /\ wire[delivered'[k]] = "event"
        <5>1. CASE k \in DOMAIN delivered
          BY <1>1, <3>0, <3>2, <5>1
        <5>2. CASE k = Len(delivered) + 1
          BY <1>1, <2>2, <3>2, <5>2
        <5> QED
          BY <3>2, <5>1, <5>2
      <4> QED
        BY <4>1
    <3>5. ASSUME NEW n \in 1 .. handled + 1, wire[n] = "event"
          PROVE  \E k \in DOMAIN delivered' : delivered'[k] = n
      <4>1. CASE n = handled + 1
        BY <3>2, <4>1
      <4>2. CASE n \in 1 .. handled
        BY <1>1, <3>2, <3>5, <4>2 DEF InOrder
      <4> QED
        BY <1>1, <4>1, <4>2
    <3> QED
      <4>1. InOrder'
        BY <1>1, <2>1, <3>3, <3>4, <3>5 DEF InOrder
      <4>2. Frames!FramesTypeOK'
        BY <1>1, <1>2, <2>1, <3>2 DEF Frames!FramesTypeOK
      <4> QED
        BY <1>1, <1>2, <2>1, <4>1, <4>2 DEF FramesInv
  <2>3. CASE wire[handled + 1] # "event"
    <3>1. delivered' = delivered
      BY <2>1, <2>3
    <3>2. InOrder'
      BY <1>1, <2>1, <2>3, <3>1 DEF InOrder
    <3> QED
      BY <1>1, <1>2, <2>1, <3>1, <3>2 DEF FramesInv, Frames!FramesTypeOK
  <2> QED
    BY <2>2, <2>3
<1> QED
  BY <1>3, <1>4

\* Every step of the reader preserves it.
LEMMA FramesSteps ==
  ASSUME FramesInv, Frames!FramesNext \/ UNCHANGED framesVars
  PROVE  FramesInv'
<1>1. CASE UNCHANGED framesVars
  BY <1>1 DEF FramesInv, Frames!FramesTypeOK, InOrder, framesVars
<1>2. CASE Frames!Frame
  BY <1>2, FrameInOrder
<1>3. ASSUME NEW ok \in BOOLEAN, Frames!Answered(ok)
      PROVE  FramesInv'
  BY <1>3 DEF FramesInv, Frames!FramesTypeOK, InOrder, Frames!Answered
<1>4. ASSUME NEW upto, Frames!Chunk(upto)
      PROVE  FramesInv'
  <2>1. /\ frames = "open" /\ arrived' \in arrived + 1 .. 2 * Len(wire)
        /\ UNCHANGED <<wire, handled, delivered, frames>>
    BY <1>4 DEF Frames!Chunk
  <2>2. Len(wire) \in Nat /\ arrived \in 0 .. 2 * Len(wire) /\ handled \in 0 .. Len(wire)
    BY DEF FramesInv, Frames!FramesTypeOK, Wires
  <2>3. arrived' \in 0 .. 2 * Len(wire) /\ 2 * handled <= arrived'
    BY <2>1, <2>2 DEF FramesInv
  <2> QED
    BY <2>1, <2>3 DEF FramesInv, Frames!FramesTypeOK, InOrder
<1>5. CASE Frames!BodyEnds
  BY <1>5 DEF FramesInv, Frames!FramesTypeOK, InOrder, Frames!BodyEnds
<1>6. CASE Frames!ReadFails
  BY <1>6 DEF FramesInv, Frames!FramesTypeOK, InOrder, Frames!ReadFails
<1> QED
  BY <1>1, <1>2, <1>3, <1>4, <1>5, <1>6 DEF Frames!FramesNext

\* The reader delivers what is promised.
LEMMA FramesInvIsEnough ==
  ASSUME FramesInv
  PROVE  Frames!FramesAreExact
<1>1. InOrder /\ handled \in Nat /\ arrived \in Nat
  BY DEF FramesInv, Frames!FramesTypeOK, Wires
<1>2. Frames!Delivered = {i \in 1 .. handled : wire[i] = "event"}
  BY <1>1 DEF InOrder, Frames!Delivered
<1>3. frames = "returned" => (arrived + 1) \div 2 = handled
  BY <1>1 DEF FramesInv
<1> QED
  BY <1>1, <1>2, <1>3 DEF Frames!FramesAreExact, InOrder

(***************************************************************************)
(* ChatHydration                                                           *)
(***************************************************************************)

Reading == [of : Conversation, count : Nat]
Fetch == [of : Conversation, read : SUBSET Reading, wanted : BOOLEAN]

ChatTypes ==
  /\ messages \in [Conversation -> 0 .. MaxMessages] /\ mounts \in 0 .. MaxMounts
  /\ pane \in [of : Conversation \cup {Chat!NoChat}, since : Nat, chat : SUBSET Reading]
  /\ fetches \subseteq Fetch

\* One fetch is wanted, and it is for the mounted conversation; what it has read is no older
\* than the mount.
WantedIsMounted ==
  /\ \A f, g \in fetches : f.wanted /\ g.wanted => f = g
  /\ \A f \in fetches : f.wanted =>
       /\ f.of = pane.of
       /\ \A reading \in f.read : reading.of = pane.of /\ reading.count >= pane.since

\* A fetch reads once; the pane shows one reading.
OneReading ==
  /\ \A f \in fetches : \A g, h \in f.read : g = h
  /\ \A g, h \in pane.chat : g = h

MountIsPast == pane.of \in Conversation => messages[pane.of] >= pane.since

ChatInv == ChatTypes /\ WantedIsMounted /\ OneReading /\ MountIsPast /\ Chat!ChatIsFresh

\* A page begins with nothing mounted.
LEMMA ChatStarts ==
  ASSUME MaxMessages \in Nat, MaxMounts \in Nat, Chat!ChatInit
  PROVE  ChatInv
<1>1. /\ messages = [c \in Conversation |-> 0] /\ fetches = {} /\ mounts = 0
      /\ pane = [of |-> Chat!NoChat, since |-> 0, chat |-> {}]
  BY DEF Chat!ChatInit
<1>2. ChatTypes
  BY <1>1 DEF ChatTypes
<1>3. WantedIsMounted /\ OneReading /\ MountIsPast /\ Chat!ChatIsFresh
  BY <1>1 DEF WantedIsMounted, OneReading, MountIsPast, Chat!ChatIsFresh
<1> QED
  BY <1>2, <1>3 DEF ChatInv

\* What a superseded fetch is.
LEMMA SupersededFetches ==
  ASSUME fetches \subseteq Fetch
  PROVE  \A g \in Chat!Superseded(fetches) :
           \E f \in fetches : g \in Fetch /\ g.of = f.of /\ g.read = f.read /\ ~ g.wanted
<1>1. ASSUME NEW f \in fetches
      PROVE  LET g == [f EXCEPT !.wanted = FALSE]
             IN  g \in Fetch /\ g.of = f.of /\ g.read = f.read /\ ~ g.wanted
  BY DEF Fetch
<1> QED
  BY <1>1 DEF Chat!Superseded

\* Every step of the page preserves it.
LEMMA ChatSteps ==
  ASSUME MaxMessages \in Nat, MaxMounts \in Nat, ChatInv, Chat!ChatNext \/ UNCHANGED chatVars
  PROVE  ChatInv'
<1>0. /\ ChatTypes /\ WantedIsMounted /\ OneReading /\ MountIsPast /\ Chat!ChatIsFresh
      /\ messages \in [Conversation -> 0 .. MaxMessages] /\ mounts \in 0 .. MaxMounts
      /\ pane \in [of : Conversation \cup {Chat!NoChat}, since : Nat, chat : SUBSET Reading]
      /\ fetches \subseteq Fetch
  BY DEF ChatInv, ChatTypes
<1>1. CASE UNCHANGED chatVars
  BY <1>1 DEF ChatInv, ChatTypes, WantedIsMounted, OneReading, MountIsPast, Chat!ChatIsFresh, chatVars
<1>2. ASSUME NEW c \in Conversation, Chat!Persist(c)
      PROVE  ChatInv'
  <2>1. /\ messages[c] < MaxMessages /\ messages' = [messages EXCEPT ![c] = messages[c] + 1]
        /\ UNCHANGED <<pane, fetches, mounts>>
    BY <1>2 DEF Chat!Persist
  <2>2. /\ messages' \in [Conversation -> 0 .. MaxMessages]
        /\ \A d \in Conversation : messages'[d] >= messages[d] /\ messages[d] \in Nat
    BY <1>0, <2>1
  <2>3. MountIsPast'
    BY <1>0, <2>1, <2>2 DEF MountIsPast
  <2> QED
    BY <1>0, <2>1, <2>2, <2>3 DEF ChatInv, ChatTypes, WantedIsMounted, OneReading, Chat!ChatIsFresh
<1>3. ASSUME NEW c \in Conversation, Chat!Remount(c)
      PROVE  ChatInv'
  <2> DEFINE new == [of |-> c, read |-> {}, wanted |-> TRUE]
  <2>1. /\ mounts < MaxMounts /\ mounts' = mounts + 1 /\ messages' = messages
        /\ pane' = [of |-> c, since |-> messages[c], chat |-> {}]
        /\ fetches' = Chat!Superseded(fetches) \cup {new}
    BY <1>3 DEF Chat!Remount
  <2>2. new \in Fetch /\ new.of = c /\ new.read = {}
    BY DEF Fetch
  <2> HIDE DEF new
  <2>3. pane'.of = c /\ pane'.since = messages[c] /\ pane'.chat = {} /\ messages[c] \in Nat
    BY <1>0, <2>1
  <2>4. ChatTypes'
    BY <1>0, <2>1, <2>2, <2>3, SupersededFetches DEF ChatTypes
  <2>5. WantedIsMounted'
    BY <1>0, <2>1, <2>2, <2>3, SupersededFetches DEF WantedIsMounted
  <2>6. OneReading'
    BY <1>0, <2>1, <2>2, <2>3, SupersededFetches DEF OneReading
  <2>7. MountIsPast' /\ Chat!ChatIsFresh'
    BY <2>1, <2>3 DEF MountIsPast, Chat!ChatIsFresh
  <2> QED
    BY <2>4, <2>5, <2>6, <2>7 DEF ChatInv
<1>4. ASSUME NEW f \in fetches, Chat!Reads(f)
      PROVE  ChatInv'
  <2> DEFINE reading == [of |-> f.of, count |-> messages[f.of]]
  <2> DEFINE new == [f EXCEPT !.read = {reading}]
  <2>1. /\ f.read = {} /\ fetches' = (fetches \ {f}) \cup {new}
        /\ UNCHANGED <<messages, pane, mounts>>
    BY <1>4 DEF Chat!Reads
  <2>2. f \in Fetch /\ f.of \in Conversation /\ messages[f.of] \in Nat
    BY <1>0 DEF Fetch
  <2>3. reading \in Reading /\ reading.of = f.of /\ reading.count = messages[f.of]
    BY <2>2 DEF Reading
  <2> HIDE DEF reading
  <2>4. new \in Fetch /\ new.of = f.of /\ new.wanted = f.wanted /\ new.read = {reading}
    BY <2>2, <2>3 DEF Fetch
  <2> HIDE DEF new
  <2>5. ChatTypes'
    BY <1>0, <2>1, <2>4 DEF ChatTypes
  <2>6. f.wanted => f.of = pane.of /\ messages[f.of] >= pane.since
    BY <1>0, <2>2 DEF WantedIsMounted, MountIsPast
  <2>7. \A g, h \in fetches' : g.wanted /\ h.wanted => g = h
    BY <1>0, <2>1, <2>4 DEF WantedIsMounted
  <2>8. \A g \in fetches' : g.wanted =>
          g.of = pane'.of /\ \A r \in g.read : r.of = pane'.of /\ r.count >= pane'.since
    BY <1>0, <2>1, <2>3, <2>4, <2>6 DEF WantedIsMounted
  <2>9. WantedIsMounted'
    BY <2>7, <2>8 DEF WantedIsMounted
  <2>10. OneReading'
    BY <1>0, <2>1, <2>4 DEF OneReading
  <2> QED
    BY <1>0, <2>1, <2>5, <2>9, <2>10 DEF ChatInv, MountIsPast, Chat!ChatIsFresh
<1>5. ASSUME NEW f \in fetches, Chat!Resumes(f)
      PROVE  ChatInv'
  <2>1. fetches' = fetches \ {f} /\ messages' = messages /\ mounts' = mounts
    BY <1>5 DEF Chat!Resumes
  <2>2. f \in Fetch /\ f.read \in SUBSET Reading /\ f.wanted \in BOOLEAN
    BY <1>0 DEF Fetch
  <2>3. CASE ~ f.wanted
    <3>1. pane' = pane
      BY <1>5, <2>3 DEF Chat!Resumes
    <3> QED
      BY <1>0, <2>1, <3>1 DEF ChatInv, ChatTypes, WantedIsMounted, OneReading, MountIsPast, Chat!ChatIsFresh
  <2>4. CASE f.wanted
    <3>1. pane' = [pane EXCEPT !.chat = f.read]
      BY <1>5, <2>4 DEF Chat!Resumes
    <3>2. /\ pane' \in [of : Conversation \cup {Chat!NoChat}, since : Nat, chat : SUBSET Reading]
          /\ pane'.of = pane.of /\ pane'.since = pane.since /\ pane'.chat = f.read
      BY <1>0, <2>2, <3>1
    <3>3. ChatTypes'
      BY <1>0, <2>1, <3>2 DEF ChatTypes
    <3>4. WantedIsMounted' /\ OneReading' /\ MountIsPast' /\ Chat!ChatIsFresh'
      BY <1>0, <2>1, <2>4, <3>2 DEF WantedIsMounted, OneReading, MountIsPast, Chat!ChatIsFresh
    <3> QED
      BY <3>3, <3>4 DEF ChatInv
  <2> QED
    BY <2>3, <2>4
<1>6. ASSUME NEW f \in fetches, Chat!FetchFails(f)
      PROVE  ChatInv'
  <2>1. fetches' = fetches \ {f} /\ UNCHANGED <<messages, pane, mounts>>
    BY <1>6 DEF Chat!FetchFails
  <2> QED
    BY <1>0, <2>1 DEF ChatInv, ChatTypes, WantedIsMounted, OneReading, MountIsPast, Chat!ChatIsFresh
<1> QED
  BY <1>1, <1>2, <1>3, <1>4, <1>5, <1>6 DEF Chat!ChatNext

\* The chat has the types it is said to have.
LEMMA ChatInvIsEnough ==
  ASSUME ChatInv
  PROVE  Chat!ChatTypeOK /\ Chat!ChatIsFresh
<1>1. ChatTypes /\ WantedIsMounted /\ OneReading /\ Chat!ChatIsFresh
  BY DEF ChatInv
<1>2. \A S : Chat!Cardinality(S) = Cardinality(S)
  BY DEF Chat!Cardinality, Cardinality
<1>3. Cardinality(pane.chat) <= 1
  BY <1>1, OneMember DEF OneReading
<1>4. Cardinality({f \in fetches : f.wanted}) <= 1
  <2>1. \A g, h \in {f \in fetches : f.wanted} : g = h
    BY <1>1 DEF WantedIsMounted
  <2> QED
    BY <2>1, OneMember
<1>5. pane.of \in Conversation \cup {Chat!NoChat}
  BY <1>1 DEF ChatTypes
<1> QED
  BY <1>1, <1>2, <1>3, <1>4, <1>5 DEF Chat!ChatTypeOK, ChatTypes

(***************************************************************************)
(* Projection                                                              *)
(***************************************************************************)

\* What the transcript of the first n events is, given the ones before.
Rendering(log, t, n) == IF n = 0 THEN << >> ELSE Projector!Rendered(t[n - 1], log[n])

\* There is such a function: a least length for which there is none extends the one before.
LEMMA TranscriptExists ==
  ASSUME NEW log, NEW length \in Nat
  PROVE  \E t : t = [n \in 0 .. length |-> Rendering(log, t, n)]
<1> DEFINE Exists(m) == \E t : t = [n \in 0 .. m |-> Rendering(log, t, n)]
           Without == {m \in Nat : ~ Exists(m)}
<1> SUFFICES ASSUME Without # {}
             PROVE  FALSE
  OBVIOUS
<1>1. PICK least \in Without : \A m \in Without : least <= m
  <2>1. Without \subseteq Nat
    OBVIOUS
  <2> HIDE DEF Without
  <2> QED
    BY <2>1, LeastNatural
<1>2. least \in Nat /\ ~ Exists(least)
  BY <1>1
<1>3. CASE least = 0
  <2> DEFINE t == [n \in 0 .. 0 |-> << >>]
  <2>1. t = [n \in 0 .. 0 |-> Rendering(log, t, n)]
    BY DEF Rendering
  <2> QED
    BY <1>2, <1>3, <2>1
<1>4. CASE least # 0
  <2>1. least - 1 \in Nat /\ ~ (least <= least - 1)
    BY <1>2, <1>4
  <2>2. Exists(least - 1)
    BY <1>1, <2>1
  <2>3. PICK t : t = [n \in 0 .. least - 1 |-> Rendering(log, t, n)]
    BY <2>2
  <2> DEFINE u == [n \in 0 .. least |-> IF n = least THEN Rendering(log, t, n) ELSE t[n]]
  <2>4. ASSUME NEW n \in 0 .. least
        PROVE  u[n] = Rendering(log, u, n)
    <3>1. CASE n = 0
      <4>1. u[n] = t[n] /\ n \in 0 .. least - 1
        BY <1>2, <1>4, <3>1
      <4>2. t[n] = << >>
        BY <2>3, <3>1, <4>1 DEF Rendering
      <4> QED
        BY <3>1, <4>1, <4>2 DEF Rendering
    <3>2. CASE n # 0
      <4>1. n - 1 \in 0 .. least /\ n - 1 # least
        BY <1>2, <3>2
      <4>2. u[n - 1] = t[n - 1]
        BY <4>1
      <4>3. u[n] = Rendering(log, t, n)
        <5>1. CASE n = least
          BY <5>1
        <5>2. CASE n # least
          <6>1. n \in 0 .. least - 1
            BY <1>2, <5>2
          <6> QED
            BY <2>3, <5>2, <6>1
        <5> QED
          BY <5>1, <5>2
      <4> QED
        BY <3>2, <4>2, <4>3 DEF Rendering
    <3> QED
      BY <3>1, <3>2
  <2>5. u = [n \in 0 .. least |-> Rendering(log, u, n)]
    BY <2>4
  <2> QED
    BY <1>2, <2>5
<1> QED
  BY <1>3, <1>4

\* The transcript of no event is empty, and every event renders the one before.
LEMMA TranscriptUnfolds ==
  ASSUME NEW E, NEW log \in Seq(E)
  PROVE  /\ Projector!Transcripts(log)[0] = << >>
         /\ \A n \in 1 .. Len(log) : Projector!Transcripts(log)[n]
              = Projector!Rendered(Projector!Transcripts(log)[n - 1], log[n])
<1>1. Len(log) \in Nat
  OBVIOUS
<1>2. \E t : t = [n \in 0 .. Len(log) |-> Rendering(log, t, n)]
  BY <1>1, TranscriptExists
<1>3. \E t : t = [n \in 0 .. Len(log) |->
                    IF n = 0 THEN << >> ELSE Projector!Rendered(t[n - 1], log[n])]
  BY <1>2, Zenon DEF Rendering
<1> DEFINE T == Projector!Transcripts(log)
<1>4. T = CHOOSE t : t = [n \in 0 .. Len(log) |->
                    IF n = 0 THEN << >> ELSE Projector!Rendered(t[n - 1], log[n])]
  BY Zenon DEF Projector!Transcripts
<1>5. T = [n \in 0 .. Len(log) |->
                    IF n = 0 THEN << >> ELSE Projector!Rendered(T[n - 1], log[n])]
  BY <1>3, <1>4, Zenon
<1> HIDE DEF T
<1>6. T[0] = << >>
  BY <1>1, <1>5
<1>7. \A n \in 1 .. Len(log) : T[n] = Projector!Rendered(T[n - 1], log[n])
  BY <1>1, <1>5
<1> QED
  BY <1>6, <1>7 DEF T

\* What is logged later does not change the transcript of what is logged.
LEMMA TranscriptGrows ==
  ASSUME NEW E, NEW log \in Seq(E), NEW new \in Seq(E), NEW n \in 0 .. Len(log)
  PROVE  Projector!Transcripts(log \o new)[n] = Projector!Transcripts(log)[n]
<1> DEFINE T == Projector!Transcripts(log)
           U == Projector!Transcripts(log \o new)
           Differ == {m \in 0 .. Len(log) : U[m] # T[m]}
<1>1. log \o new \in Seq(E) /\ Len(log) \in Nat /\ Len(log \o new) >= Len(log)
  OBVIOUS
<1>2. T[0] = << >> /\ \A m \in 1 .. Len(log) : T[m] = Projector!Rendered(T[m - 1], log[m])
  BY TranscriptUnfolds, Zenon
<1>3. U[0] = << >> /\ \A m \in 1 .. Len(log \o new) :
                          U[m] = Projector!Rendered(U[m - 1], (log \o new)[m])
  BY <1>1, TranscriptUnfolds, Zenon
<1> HIDE DEF T, U
<1> SUFFICES ASSUME Differ # {}
             PROVE  FALSE
  BY DEF T, U
<1>4. PICK least \in Differ : \A m \in Differ : least <= m
  <2>1. Differ \subseteq Nat
    OBVIOUS
  <2> HIDE DEF Differ
  <2> QED
    BY <2>1, LeastNatural
<1>5. least \in 1 .. Len(log) /\ U[least] # T[least]
  BY <1>1, <1>2, <1>3, <1>4
<1>6. U[least - 1] = T[least - 1]
  BY <1>4, <1>5
<1>7. (log \o new)[least] = log[least] /\ least \in 1 .. Len(log \o new)
  BY <1>1, <1>5
<1> QED
  BY <1>2, <1>3, <1>5, <1>6, <1>7


\* What a transcript is made of.
ChatMade == [id : Call, arguments : Nat]
ChatMessage == [role : {"assistant", "tool"}, of : Step \cup Call, text : Nat,
                calls : Seq(ChatMade)]

Makes(message, c) == message.role = "assistant" /\ c \in Projector!CallsOf(message)
OneEach(M) == \A j, k \in DOMAIN M : j # k => M[j].of # M[k].of \/ M[j].role # M[k].role
AnswersMade(M) ==
  \A k \in DOMAIN M : M[k].role = "tool" => \E j \in 1 .. k - 1 : Makes(M[j], M[k].of)
MadeOnce(M) ==
  \A k \in DOMAIN M : \A i, j \in DOMAIN M[k].calls :
    i # j => M[k].calls[i].id # M[k].calls[j].id

\* A chat can be continued from it.
Coherent(M) == M \in Seq(ChatMessage) /\ OneEach(M) /\ AnswersMade(M) /\ MadeOnce(M)

\* A message of a transcript is one.
LEMMA MessageTypes ==
  ASSUME NEW M \in Seq(ChatMessage), NEW k \in DOMAIN M
  PROVE  /\ k \in 1 .. Len(M) /\ M[k] \in ChatMessage
         /\ M[k].role \in {"assistant", "tool"} /\ M[k].of \in Step \cup Call
         /\ M[k].text \in Nat /\ M[k].calls \in Seq(ChatMade)
<1>1. k \in 1 .. Len(M) /\ M[k] \in ChatMessage
  OBVIOUS
<1> QED
  BY <1>1, Zenon DEF ChatMessage

\* Its calls have their ids.
LEMMA MadeTypes ==
  ASSUME NEW calls \in Seq(ChatMade), NEW i \in DOMAIN calls
  PROVE  /\ i \in 1 .. Len(calls) /\ calls[i] \in ChatMade
         /\ calls[i].id \in Call /\ calls[i].arguments \in Nat
<1>1. i \in 1 .. Len(calls) /\ calls[i] \in ChatMade
  OBVIOUS
<1> QED
  BY <1>1, Zenon DEF ChatMade

\* The only assistant message of a step is the one its events are for.
LEMMA PlaceOfOne ==
  ASSUME NEW M \in Seq(ChatMessage), NEW s \in Step, NEW k \in DOMAIN M, OneEach(M),
         M[k].role = "assistant", M[k].of = s
  PROVE  Projector!Place(M, s) = k
<1>1. {i \in 1 .. Len(M) : M[i].role = "assistant" /\ M[i].of = s} = {k}
  BY DEF OneEach
<1>2. (CHOOSE g \in {k} : \A h \in {k} : g >= h) = k
  OBVIOUS
<1> QED
  BY <1>1, <1>2 DEF Projector!Place, Projector!SelectLastInSeq, Projector!Max

\* Without one there is no place.
LEMMA PlaceOfNone ==
  ASSUME NEW M \in Seq(ChatMessage), NEW s \in Step,
         \A k \in DOMAIN M : ~ (M[k].role = "assistant" /\ M[k].of = s)
  PROVE  Projector!Place(M, s) = 0
<1>1. {i \in 1 .. Len(M) : M[i].role = "assistant" /\ M[i].of = s} = {}
  OBVIOUS
<1> QED
  BY <1>1 DEF Projector!Place, Projector!SelectLastInSeq

\* A transcript stays coherent when its messages only get more text and more calls.
LEMMA LikeIsCoherent ==
  ASSUME NEW M, Coherent(M), NEW N \in Seq(ChatMessage), DOMAIN N = DOMAIN M,
         \A k \in DOMAIN M : /\ N[k].role = M[k].role /\ N[k].of = M[k].of
                             /\ Projector!CallsOf(M[k]) \subseteq Projector!CallsOf(N[k]),
         MadeOnce(N)
  PROVE  Coherent(N)
<1>1. OneEach(N)
  BY DEF Coherent, OneEach
<1>2. AnswersMade(N)
  <2> SUFFICES ASSUME NEW k \in DOMAIN N, N[k].role = "tool"
               PROVE  \E j \in 1 .. k - 1 : Makes(N[j], N[k].of)
    BY Zenon DEF AnswersMade
  <2>1. PICK j \in 1 .. k - 1 : Makes(M[j], M[k].of)
    BY DEF Coherent, AnswersMade
  <2>2. k \in 1 .. Len(N) /\ DOMAIN N = 1 .. Len(N) /\ Len(N) \in Nat
    OBVIOUS
  <2>3. j \in DOMAIN M
    BY <2>2
  <2> QED
    BY <2>1, <2>3, Zenon DEF Makes
<1> QED
  BY <1>1, <1>2 DEF Coherent

\* A first message of a step can be added.
LEMMA SaysIsCoherent ==
  ASSUME NEW M, Coherent(M), NEW s \in Step,
         \A k \in DOMAIN M : ~ (M[k].role = "assistant" /\ M[k].of = s)
  PROVE  Coherent(Append(M, Projector!Assistant(s, 0)))
<1> DEFINE N == Append(M, Projector!Assistant(s, 0))
<1>1. M \in Seq(ChatMessage) /\ Len(M) \in Nat /\ DOMAIN M = 1 .. Len(M)
  BY DEF Coherent
<1>2. Projector!Assistant(s, 0) \in ChatMessage
  BY DEF Projector!Assistant, ChatMessage
<1>3. /\ N \in Seq(ChatMessage) /\ DOMAIN N = 1 .. Len(M) + 1
      /\ \A k \in 1 .. Len(M) : N[k] = M[k]
      /\ N[Len(M) + 1] = Projector!Assistant(s, 0)
  BY <1>1, <1>2
<1>4. /\ N[Len(M) + 1].role = "assistant" /\ N[Len(M) + 1].of = s
      /\ N[Len(M) + 1].calls = << >>
  BY <1>3 DEF Projector!Assistant
<1> HIDE DEF N
<1>5. OneEach(N)
  <2> SUFFICES ASSUME NEW j \in DOMAIN N, NEW k \in DOMAIN N, j # k
               PROVE  N[j].of # N[k].of \/ N[j].role # N[k].role
    BY DEF OneEach
  <2>1. CASE j \in 1 .. Len(M) /\ k \in 1 .. Len(M)
    BY <1>1, <1>3, <2>1 DEF Coherent, OneEach
  <2>2. CASE ~ (j \in 1 .. Len(M) /\ k \in 1 .. Len(M))
    BY <1>1, <1>3, <1>4, <2>2
  <2> QED
    BY <2>1, <2>2
<1>6. AnswersMade(N)
  <2> SUFFICES ASSUME NEW k \in DOMAIN N, N[k].role = "tool"
               PROVE  \E j \in 1 .. k - 1 : Makes(N[j], N[k].of)
    BY Zenon DEF AnswersMade
  <2>1. k \in 1 .. Len(M)
    BY <1>1, <1>3, <1>4
  <2>2. PICK j \in 1 .. k - 1 : Makes(M[j], M[k].of)
    BY <1>1, <1>3, <2>1 DEF Coherent, AnswersMade
  <2>3. N[j] = M[j] /\ N[k] = M[k]
    BY <1>1, <1>3, <2>1
  <2> QED
    BY <2>2, <2>3
<1>7. MadeOnce(N)
  BY <1>1, <1>3, <1>4 DEF Coherent, MadeOnce
<1> QED
  BY <1>3, <1>5, <1>6, <1>7 DEF Coherent, N

\* The message that answers a call.
Answer(c) == [role |-> "tool", of |-> c, text |-> 1, calls |-> << >>]

\* An answer of a call that is made and has none yet can be added.
LEMMA AnswerIsCoherent ==
  ASSUME NEW M, Coherent(M), NEW c \in Call,
         \E k \in DOMAIN M : Makes(M[k], c),
         \A k \in DOMAIN M : ~ (M[k].role = "tool" /\ M[k].of = c)
  PROVE  Coherent(Append(M, Answer(c)))
<1> DEFINE N == Append(M, Answer(c))
<1>1. M \in Seq(ChatMessage) /\ Len(M) \in Nat /\ DOMAIN M = 1 .. Len(M)
  BY DEF Coherent
<1>2. Answer(c) \in ChatMessage
  BY DEF Answer, ChatMessage
<1>3. /\ N \in Seq(ChatMessage) /\ DOMAIN N = 1 .. Len(M) + 1
      /\ \A k \in 1 .. Len(M) : N[k] = M[k]
      /\ N[Len(M) + 1] = Answer(c)
  BY <1>1, <1>2
<1>4. /\ N[Len(M) + 1].role = "tool" /\ N[Len(M) + 1].of = c
      /\ N[Len(M) + 1].calls = << >>
  BY <1>3 DEF Answer
<1> HIDE DEF N
<1>5. OneEach(N)
  <2> SUFFICES ASSUME NEW j \in DOMAIN N, NEW k \in DOMAIN N, j # k
               PROVE  N[j].of # N[k].of \/ N[j].role # N[k].role
    BY DEF OneEach
  <2>1. CASE j \in 1 .. Len(M) /\ k \in 1 .. Len(M)
    BY <1>1, <1>3, <2>1 DEF Coherent, OneEach
  <2>2. CASE ~ (j \in 1 .. Len(M) /\ k \in 1 .. Len(M))
    BY <1>1, <1>3, <1>4, <2>2
  <2> QED
    BY <2>1, <2>2
<1>6. AnswersMade(N)
  <2> SUFFICES ASSUME NEW k \in DOMAIN N, N[k].role = "tool"
               PROVE  \E j \in 1 .. k - 1 : Makes(N[j], N[k].of)
    BY Zenon DEF AnswersMade
  <2>1. CASE k \in 1 .. Len(M)
    <3>1. PICK j \in 1 .. k - 1 : Makes(M[j], M[k].of)
      BY <1>1, <1>3, <2>1 DEF Coherent, AnswersMade
    <3>2. N[j] = M[j] /\ N[k] = M[k]
      BY <1>1, <1>3, <2>1
    <3> QED
      BY <3>1, <3>2
  <2>2. CASE k = Len(M) + 1
    <3>1. PICK j \in DOMAIN M : Makes(M[j], c)
      OBVIOUS
    <3>2. N[j] = M[j] /\ N[k].of = c /\ j \in 1 .. k - 1
      BY <1>1, <1>3, <1>4, <2>2
    <3> QED
      BY <3>1, <3>2
  <2> QED
    BY <1>1, <1>3, <2>1, <2>2
<1>7. MadeOnce(N)
  BY <1>1, <1>3, <1>4 DEF Coherent, MadeOnce
<1> QED
  BY <1>3, <1>5, <1>6, <1>7 DEF Coherent, N


\* More text in a message changes nothing else.
LEMMA TextIsCoherent ==
  ASSUME NEW M, Coherent(M), NEW n \in DOMAIN M
  PROVE  /\ Coherent(Projector!Texted(M, n)) /\ DOMAIN Projector!Texted(M, n) = DOMAIN M
         /\ \A k \in DOMAIN M : /\ Projector!Texted(M, n)[k].role = M[k].role
                                /\ Projector!Texted(M, n)[k].of = M[k].of
                                /\ Projector!Texted(M, n)[k].calls = M[k].calls
<1> DEFINE N == Projector!Texted(M, n)
           new == [M[n] EXCEPT !.text = @ + 1]
<1>1. M \in Seq(ChatMessage)
  BY DEF Coherent
<1>2. new \in ChatMessage /\ new.role = M[n].role /\ new.of = M[n].of /\ new.calls = M[n].calls
  <2>1. M[n] \in ChatMessage
    BY <1>1, MessageTypes
  <2> QED
    BY <2>1 DEF ChatMessage
<1>3. N = [M EXCEPT ![n] = new]
  BY Zenon DEF Projector!Texted
<1> HIDE DEF N, new
<1>4. N \in Seq(ChatMessage) /\ DOMAIN N = DOMAIN M
  BY <1>1, <1>2, <1>3
<1>5. \A k \in DOMAIN M : N[k].role = M[k].role /\ N[k].of = M[k].of /\ N[k].calls = M[k].calls
  BY <1>1, <1>2, <1>3
<1>6. MadeOnce(N)
  BY <1>4, <1>5 DEF Coherent, MadeOnce
<1>7. \A k \in DOMAIN M : Projector!CallsOf(M[k]) = Projector!CallsOf(N[k])
  BY <1>5, Zenon DEF Projector!CallsOf
<1>8. Coherent(N)
  BY <1>4, <1>5, <1>6, <1>7, LikeIsCoherent
<1> QED
  BY <1>4, <1>5, <1>8 DEF N

\* The message of a step, which its first call creates when no text has.
LEMMA WithIsCoherent ==
  ASSUME NEW M, Coherent(M), NEW s \in Step
  PROVE  LET W == Projector!WithMessage(M, s)
             n == Projector!Place(W, s) IN
         /\ Coherent(W) /\ n \in DOMAIN W /\ W[n].role = "assistant" /\ W[n].of = s
         /\ DOMAIN M \subseteq DOMAIN W /\ \A k \in DOMAIN M : W[k] = M[k]
         /\ \A k \in DOMAIN W \ DOMAIN M : /\ W[k].role = "assistant" /\ W[k].of = s
                                           /\ W[k].calls = << >>
<1> DEFINE W == Projector!WithMessage(M, s)
<1>1. M \in Seq(ChatMessage) /\ OneEach(M)
  BY DEF Coherent
<1>2. CASE \E k \in DOMAIN M : M[k].role = "assistant" /\ M[k].of = s
  <2>1. PICK k \in DOMAIN M : M[k].role = "assistant" /\ M[k].of = s
    BY <1>2
  <2>2. Projector!Place(M, s) = k /\ k # 0
    <3>1. k # 0
      BY <1>1
    <3> QED
      BY <1>1, <2>1, <3>1, PlaceOfOne
  <2>3. W = M
    BY <2>2 DEF Projector!WithMessage
  <2> QED
    BY <2>1, <2>2, <2>3
<1>3. CASE \A k \in DOMAIN M : ~ (M[k].role = "assistant" /\ M[k].of = s)
  <2>1. Projector!Place(M, s) = 0
    BY <1>1, <1>3, PlaceOfNone
  <2>2. W = Append(M, Projector!Assistant(s, 0))
    BY <2>1 DEF Projector!WithMessage
  <2>3. Coherent(W)
    BY <1>3, <2>2, SaysIsCoherent
  <2>4. Projector!Assistant(s, 0) \in ChatMessage
    BY DEF Projector!Assistant, ChatMessage
  <2>5. /\ Len(M) + 1 \in DOMAIN W /\ \A k \in DOMAIN M : k \in DOMAIN W /\ W[k] = M[k]
        /\ W[Len(M) + 1] = Projector!Assistant(s, 0)
        /\ \A k \in DOMAIN W \ DOMAIN M : k = Len(M) + 1
    BY <1>1, <2>2, <2>4
  <2>6. /\ W[Len(M) + 1].role = "assistant" /\ W[Len(M) + 1].of = s
        /\ W[Len(M) + 1].calls = << >>
    BY <2>5 DEF Projector!Assistant
  <2>7. W \in Seq(ChatMessage) /\ OneEach(W)
    BY <2>3 DEF Coherent
  <2> HIDE DEF W
  <2>8. Projector!Place(W, s) = Len(M) + 1
    BY <2>5, <2>6, <2>7, PlaceOfOne
  <2> QED
    BY <2>3, <2>5, <2>6, <2>8 DEF W
<1> QED
  BY <1>2, <1>3

\* A call no message makes yet can be added to one.
LEMMA CallIsCoherent ==
  ASSUME NEW M, Coherent(M), NEW n \in DOMAIN M, NEW c \in Call,
         \A k \in DOMAIN M : c \notin Projector!CallsOf(M[k])
  PROVE  LET N == Projector!Called(M, n, c) IN
         /\ Coherent(N) /\ DOMAIN N = DOMAIN M
         /\ \A k \in DOMAIN M : /\ N[k].role = M[k].role /\ N[k].of = M[k].of
                                /\ k # n => N[k].calls = M[k].calls
         /\ N[n].calls = Append(M[n].calls, [id |-> c, arguments |-> 0])
<1> DEFINE N == Projector!Called(M, n, c)
           made == [id |-> c, arguments |-> 0]
           new == [M[n] EXCEPT !.calls = Append(@, made)]
<1>1. M \in Seq(ChatMessage) /\ made \in ChatMade /\ made.id = c
  BY DEF Coherent, ChatMade
<1>2. M[n] \in ChatMessage /\ M[n].calls \in Seq(ChatMade)
  BY <1>1, MessageTypes
<1>3. Append(M[n].calls, made) \in Seq(ChatMade)
  BY <1>1, <1>2
<1>4. /\ new \in ChatMessage /\ new.role = M[n].role /\ new.of = M[n].of
      /\ new.calls = Append(M[n].calls, made)
  BY <1>2, <1>3 DEF ChatMessage
<1>5. N = [M EXCEPT ![n] = new]
  BY Zenon DEF Projector!Called
<1> HIDE DEF N, new
<1>6. N \in Seq(ChatMessage) /\ DOMAIN N = DOMAIN M
  BY <1>1, <1>4, <1>5
<1>7. \A k \in DOMAIN M : /\ N[k].role = M[k].role /\ N[k].of = M[k].of
                          /\ k # n => N[k].calls = M[k].calls
  BY <1>1, <1>4, <1>5
<1>8. N[n].calls = Append(M[n].calls, made)
  BY <1>1, <1>4, <1>5
<1> HIDE DEF made
<1>9. /\ DOMAIN N[n].calls = 1 .. Len(M[n].calls) + 1
      /\ \A i \in 1 .. Len(M[n].calls) : N[n].calls[i] = M[n].calls[i]
      /\ N[n].calls[Len(M[n].calls) + 1].id = c
      /\ DOMAIN M[n].calls = 1 .. Len(M[n].calls) /\ Len(M[n].calls) \in Nat
  BY <1>1, <1>2, <1>8
<1>10. MadeOnce(N)
  <2> SUFFICES ASSUME NEW k \in DOMAIN M, NEW i \in DOMAIN N[k].calls,
                      NEW j \in DOMAIN N[k].calls, i # j
               PROVE  N[k].calls[i].id # N[k].calls[j].id
    BY <1>6 DEF MadeOnce
  <2>1. CASE k # n
    BY <1>7, <2>1 DEF Coherent, MadeOnce
  <2>2. CASE k = n
    <3>1. CASE i \in 1 .. Len(M[n].calls) /\ j \in 1 .. Len(M[n].calls)
      BY <1>9, <2>2, <3>1 DEF Coherent, MadeOnce
    <3>2. CASE ~ (i \in 1 .. Len(M[n].calls) /\ j \in 1 .. Len(M[n].calls))
      <4>1. \A h \in 1 .. Len(M[n].calls) : M[n].calls[h].id # c
        BY <1>9 DEF Projector!CallsOf
      <4>2. N[n].calls[Len(M[n].calls) + 1].id = c
        BY <1>9
      <4>3. \A h \in 1 .. Len(M[n].calls) : N[n].calls[h].id # c
        BY <1>9, <4>1
      <4>4. \/ i = Len(M[n].calls) + 1 /\ j \in 1 .. Len(M[n].calls)
            \/ j = Len(M[n].calls) + 1 /\ i \in 1 .. Len(M[n].calls)
        <5>1. i \in 1 .. Len(M[n].calls) + 1 /\ j \in 1 .. Len(M[n].calls) + 1
          BY <1>9, <2>2, Zenon
        <5> QED
          BY <1>9, <3>2, <5>1
      <4> QED
        BY <2>2, <4>2, <4>3, <4>4, Zenon
    <3> QED
      BY <3>1, <3>2
  <2> QED
    BY <2>1, <2>2
<1>11. \A k \in DOMAIN M : Projector!CallsOf(M[k]) \subseteq Projector!CallsOf(N[k])
  <2> SUFFICES ASSUME NEW k \in DOMAIN M
               PROVE  Projector!CallsOf(M[k]) \subseteq Projector!CallsOf(N[k])
    OBVIOUS
  <2>1. CASE k # n
    BY <1>7, <2>1, Zenon DEF Projector!CallsOf
  <2>2. CASE k = n
    BY <1>9, <2>2 DEF Projector!CallsOf
  <2> QED
    BY <2>1, <2>2
<1>12. Coherent(N)
  BY <1>6, <1>7, <1>10, <1>11, LikeIsCoherent
<1> QED
  BY <1>6, <1>7, <1>8, <1>12 DEF N, made

\* The arguments of a call go to that call.
LEMMA ArguedCalls ==
  ASSUME NEW calls \in Seq(ChatMade), NEW c \in Call,
         \A i, j \in DOMAIN calls : i # j => calls[i].id # calls[j].id
  PROVE  LET argued == Projector!Argued(calls, c) IN
         /\ argued \in Seq(ChatMade) /\ DOMAIN argued = DOMAIN calls
         /\ \A i \in DOMAIN calls :
              /\ argued[i].id = calls[i].id
              /\ argued[i].arguments = calls[i].arguments + (IF calls[i].id = c THEN 1 ELSE 0)
<1> DEFINE argued == Projector!Argued(calls, c)
           Given(i) == [calls[i] EXCEPT !.arguments = @ + 1]
<1>1. argued = [i \in DOMAIN calls |->
                  IF calls[i].id = c /\ \A j \in 1 .. i - 1 : calls[j].id # c
                  THEN Given(i) ELSE calls[i]]
  BY Zenon DEF Projector!Argued
<1>2. \A i \in DOMAIN calls : /\ calls[i] \in ChatMade /\ Given(i) \in ChatMade
                              /\ Given(i).id = calls[i].id
                              /\ Given(i).arguments = calls[i].arguments + 1
                              /\ calls[i].arguments + 0 = calls[i].arguments
  <2> SUFFICES ASSUME NEW i \in DOMAIN calls
               PROVE  /\ calls[i] \in ChatMade /\ Given(i) \in ChatMade
                      /\ Given(i).id = calls[i].id
                      /\ Given(i).arguments = calls[i].arguments + 1
                      /\ calls[i].arguments + 0 = calls[i].arguments
    OBVIOUS
  <2>1. calls[i] \in ChatMade
    BY MadeTypes
  <2> QED
    BY <2>1 DEF ChatMade
<1> HIDE DEF argued, Given
<1>3. DOMAIN argued = DOMAIN calls /\ DOMAIN calls = 1 .. Len(calls) /\ Len(calls) \in Nat
  BY <1>1
<1>4. \A i \in DOMAIN calls : calls[i].id = c => \A j \in 1 .. i - 1 : calls[j].id # c
  BY <1>3
<1>5. \A i \in DOMAIN calls : argued[i] = IF calls[i].id = c THEN Given(i) ELSE calls[i]
  BY <1>1, <1>4
<1>6. \A i \in 1 .. Len(calls) : argued[i] \in ChatMade
  BY <1>2, <1>3, <1>5
<1>7. argued \in Seq(ChatMade)
  <2>1. argued = [i \in 1 .. Len(calls) |-> argued[i]]
    BY <1>1, <1>3
  <2> QED
    BY <1>3, <1>6, <2>1
<1>8. ASSUME NEW i \in DOMAIN calls
      PROVE  /\ argued[i].id = calls[i].id
             /\ argued[i].arguments = calls[i].arguments + (IF calls[i].id = c THEN 1 ELSE 0)
  <2>1. CASE calls[i].id = c
    BY <1>2, <1>5, <2>1
  <2>2. CASE calls[i].id # c
    BY <1>2, <1>5, <2>2
  <2> QED
    BY <2>1, <2>2
<1> QED
  BY <1>3, <1>7, <1>8 DEF argued

\* The transcript M with the arguments of a call filled in.
Arguing(M, c) == [k \in DOMAIN M |-> [M[k] EXCEPT !.calls = Projector!Argued(@, c)]]

\* Arguments change nothing but the arguments of that call.
LEMMA ArgumentsAreCoherent ==
  ASSUME NEW M, Coherent(M), NEW c \in Call
  PROVE  LET N == Arguing(M, c) IN
         /\ Coherent(N) /\ DOMAIN N = DOMAIN M
         /\ \A k \in DOMAIN M :
              /\ N[k].role = M[k].role /\ N[k].of = M[k].of
              /\ DOMAIN N[k].calls = DOMAIN M[k].calls
              /\ \A i \in DOMAIN M[k].calls :
                   /\ N[k].calls[i].id = M[k].calls[i].id
                   /\ N[k].calls[i].arguments
                        = M[k].calls[i].arguments + (IF M[k].calls[i].id = c THEN 1 ELSE 0)
<1> DEFINE N == Arguing(M, c)
<1>1. M \in Seq(ChatMessage) /\ DOMAIN N = DOMAIN M
  BY DEF Coherent, Arguing
<1>2. ASSUME NEW k \in DOMAIN M
      PROVE  /\ N[k] \in ChatMessage /\ N[k].role = M[k].role /\ N[k].of = M[k].of
             /\ N[k].calls = Projector!Argued(M[k].calls, c)
  <2>1. M[k] \in ChatMessage /\ M[k].calls \in Seq(ChatMade)
    BY <1>1, MessageTypes
  <2>2. Projector!Argued(M[k].calls, c) \in Seq(ChatMade)
    BY <2>1, ArguedCalls DEF Coherent, MadeOnce
  <2>3. N[k] = [M[k] EXCEPT !.calls = Projector!Argued(M[k].calls, c)]
    BY DEF Arguing
  <2> QED
    BY <2>1, <2>2, <2>3 DEF ChatMessage
<1>3. ASSUME NEW k \in DOMAIN M
      PROVE  /\ DOMAIN N[k].calls = DOMAIN M[k].calls
             /\ \A i \in DOMAIN M[k].calls :
                   /\ N[k].calls[i].id = M[k].calls[i].id
                   /\ N[k].calls[i].arguments
                        = M[k].calls[i].arguments + (IF M[k].calls[i].id = c THEN 1 ELSE 0)
  <2>1. M[k].calls \in Seq(ChatMade)
    BY <1>1, MessageTypes
  <2>2. \A i, j \in DOMAIN M[k].calls : i # j => M[k].calls[i].id # M[k].calls[j].id
    BY DEF Coherent, MadeOnce
  <2> QED
    BY <1>2, <2>1, <2>2, ArguedCalls
<1>4. N \in Seq(ChatMessage)
  <2>1. N = [k \in 1 .. Len(M) |-> N[k]] /\ Len(M) \in Nat /\ DOMAIN M = 1 .. Len(M)
    BY <1>1 DEF Arguing
  <2> HIDE DEF N
  <2> QED
    BY <1>2, <2>1
<1> HIDE DEF N
<1>5. MadeOnce(N)
  BY <1>1, <1>3 DEF Coherent, MadeOnce
<1>6. \A k \in DOMAIN M : Projector!CallsOf(M[k]) = Projector!CallsOf(N[k])
  BY <1>3 DEF Projector!CallsOf
<1>7. Coherent(N)
  BY <1>1, <1>2, <1>4, <1>5, <1>6, LikeIsCoherent
<1> QED
  BY <1>1, <1>2, <1>3, <1>7 DEF N


\* What the steps of the projector are, and what is logged.
StepRecord == [open : BOOLEAN, assistant : BOOLEAN, committed : SUBSET Call,
               calls : [Call -> {"none", "pending", "settled"}]]
LogTypes == {"STEP_STARTED", "STEP_FINISHED", "TEXT_MESSAGE_START", "TEXT_MESSAGE_CONTENT",
             "TEXT_MESSAGE_END", "TOOL_CALL_START", "TOOL_CALL_ARGS", "TOOL_CALL_END",
             "TOOL_CALL_RESULT"}
LogEvent == [type : LogTypes, step : Step, call : Call \cup {Projector!Nobody}]

(***************************************************************************)
(* A transcript tells what the steps st have said and done: the messages   *)
(* of a step are those it has said; the calls they make are those that     *)
(* were announced, with their arguments; the answers are of those that are *)
(* settled.                                                                *)
(***************************************************************************)
SaidByStep(M, st) == \A k \in DOMAIN M : M[k].role = "assistant" => st[M[k].of].assistant
OfStep(M) == \A k \in DOMAIN M : M[k].of \in (IF M[k].role = "assistant" THEN Step ELSE Call)
OnlySaid(M) == \A k \in DOMAIN M : M[k].role = "tool" => M[k].calls = << >>
MadeByStep(M, st) ==
  \A k \in DOMAIN M : M[k].role = "assistant" => \A i \in DOMAIN M[k].calls :
    /\ st[M[k].of].calls[M[k].calls[i].id] # "none"
    /\ M[k].calls[i].arguments = 1
MadeInMessage(M, st) ==
  \A s \in Step, c \in Call : st[s].calls[c] # "none" =>
    \E k \in DOMAIN M : M[k].of = s /\ Makes(M[k], c)
AnsweredByStep(M, st) ==
  \A k \in DOMAIN M : M[k].role = "tool" => \E s \in Step : st[s].calls[M[k].of] = "settled"
AnsweredInMessage(M, st) ==
  \A s \in Step, c \in Call : st[s].calls[c] = "settled" =>
    \E k \in DOMAIN M : M[k].role = "tool" /\ M[k].of = c
Matches(M, st) ==
  /\ OfStep(M) /\ OnlySaid(M) /\ SaidByStep(M, st) /\ MadeByStep(M, st) /\ MadeInMessage(M, st)
  /\ AnsweredByStep(M, st) /\ AnsweredInMessage(M, st)

\* Only what is said and the state of the calls matters.
LEMMA MatchesLater ==
  ASSUME NEW M, NEW st, Matches(M, st), NEW new,
         \A s \in Step : st[s].assistant => new[s].assistant,
         \A s \in Step, c \in Call : new[s].calls[c] = st[s].calls[c],
         M \in Seq(ChatMessage)
  PROVE  Matches(M, new)
<1>1. SaidByStep(M, new)
  BY DEF Matches, SaidByStep, OfStep
<1>2. MadeByStep(M, new)
  <2> SUFFICES ASSUME NEW k \in DOMAIN M, M[k].role = "assistant", NEW i \in DOMAIN M[k].calls
               PROVE  /\ new[M[k].of].calls[M[k].calls[i].id] # "none"
                      /\ M[k].calls[i].arguments = 1
    BY DEF MadeByStep
  <2>1. M[k].of \in Step /\ M[k].calls \in Seq(ChatMade)
    BY MessageTypes DEF Matches, OfStep
  <2>2. M[k].calls[i].id \in Call
    BY <2>1, MadeTypes
  <2> QED
    BY <2>1, <2>2 DEF Matches, MadeByStep
<1>3. MadeInMessage(M, new) /\ AnsweredInMessage(M, new)
  BY DEF Matches, MadeInMessage, AnsweredInMessage
<1>4. AnsweredByStep(M, new)
  <2> SUFFICES ASSUME NEW k \in DOMAIN M, M[k].role = "tool"
               PROVE  \E s \in Step : new[s].calls[M[k].of] = "settled"
    BY DEF AnsweredByStep
  <2>1. M[k].of \in Call
    BY DEF Matches, OfStep
  <2> QED
    BY <2>1 DEF Matches, AnsweredByStep
<1> QED
  BY <1>1, <1>2, <1>3, <1>4 DEF Matches

\* A transcript with the same calls and answers, and at most more said, matches as well.
LEMMA MatchesLike ==
  ASSUME NEW M, NEW N, NEW st, Matches(M, st), M \in Seq(ChatMessage), N \in Seq(ChatMessage),
         DOMAIN M \subseteq DOMAIN N,
         \A k \in DOMAIN M : /\ N[k].role = M[k].role /\ N[k].of = M[k].of
                             /\ N[k].calls = M[k].calls,
         \A k \in DOMAIN N \ DOMAIN M : /\ N[k].role = "assistant" /\ N[k].of \in Step
                                        /\ st[N[k].of].assistant /\ N[k].calls = << >>
  PROVE  Matches(N, st)
<1>1. OfStep(N) /\ OnlySaid(N) /\ SaidByStep(N, st)
  BY DEF Matches, OfStep, OnlySaid, SaidByStep
<1>2. MadeByStep(N, st)
  <2> SUFFICES ASSUME NEW k \in DOMAIN N, N[k].role = "assistant", NEW i \in DOMAIN N[k].calls
               PROVE  /\ st[N[k].of].calls[N[k].calls[i].id] # "none"
                      /\ N[k].calls[i].arguments = 1
    BY DEF MadeByStep
  <2>1. k \in DOMAIN M
    OBVIOUS
  <2> QED
    BY <2>1 DEF Matches, MadeByStep
<1>3. MadeInMessage(N, st)
  <2> SUFFICES ASSUME NEW s \in Step, NEW c \in Call, st[s].calls[c] # "none"
               PROVE  \E k \in DOMAIN N : N[k].of = s /\ Makes(N[k], c)
    BY DEF MadeInMessage
  <2>1. PICK k \in DOMAIN M : M[k].of = s /\ Makes(M[k], c)
    BY DEF Matches, MadeInMessage
  <2>2. k \in DOMAIN N /\ N[k].role = M[k].role /\ N[k].of = s /\ N[k].calls = M[k].calls
    BY <2>1
  <2> QED
    BY <2>1, <2>2 DEF Makes, Projector!CallsOf
<1>4. AnsweredByStep(N, st) /\ AnsweredInMessage(N, st)
  BY DEF Matches, AnsweredByStep, AnsweredInMessage
<1> QED
  BY <1>1, <1>2, <1>3, <1>4 DEF Matches

\* The state of a call: that of the call c of the step s is now state.
Moved(st, new, s, c, state) ==
  /\ \A t \in Step : new[t].assistant = st[t].assistant
  /\ \A t \in Step, d \in Call :
       new[t].calls[d] = IF t = s /\ d = c THEN state ELSE st[t].calls[d]

\* N is M with one call more, which has its arguments: c, the last of the message n.
CallAdded(M, N, n, c) ==
  /\ DOMAIN N = DOMAIN M
  /\ \A k \in DOMAIN M :
       /\ N[k].role = M[k].role /\ N[k].of = M[k].of
       /\ k # n => /\ DOMAIN N[k].calls = DOMAIN M[k].calls
                   /\ \A i \in DOMAIN M[k].calls :
                        /\ N[k].calls[i].id = M[k].calls[i].id
                        /\ N[k].calls[i].arguments = M[k].calls[i].arguments
  /\ DOMAIN N[n].calls = 1 .. Len(M[n].calls) + 1
  /\ \A i \in DOMAIN M[n].calls : /\ N[n].calls[i].id = M[n].calls[i].id
                                  /\ N[n].calls[i].arguments = M[n].calls[i].arguments
  /\ N[n].calls[Len(M[n].calls) + 1].id = c
  /\ N[n].calls[Len(M[n].calls) + 1].arguments = 1

\* An announced call.
LEMMA MatchesCall ==
  ASSUME NEW M, Coherent(M), NEW N, Coherent(N), NEW st, NEW new, Matches(M, st),
         NEW s \in Step, NEW c \in Call, NEW n \in DOMAIN M,
         M[n].role = "assistant", M[n].of = s,
         st[s].calls[c] = "none", Moved(st, new, s, c, "pending"),
         CallAdded(M, N, n, c)
  PROVE  Matches(N, new)
<1> USE DEF CallAdded
<1>1. M \in Seq(ChatMessage) /\ N \in Seq(ChatMessage)
  BY DEF Coherent
<1>2. M[n].calls \in Seq(ChatMade)
  BY <1>1, MessageTypes
<1>3. DOMAIN M[n].calls = 1 .. Len(M[n].calls) /\ Len(M[n].calls) \in Nat
  BY <1>2
<1>4. OfStep(N) /\ SaidByStep(N, new)
  BY DEF Matches, OfStep, SaidByStep, Moved
<1>5. OnlySaid(N)
  <2> SUFFICES ASSUME NEW k \in DOMAIN N, N[k].role = "tool"
               PROVE  N[k].calls = << >>
    BY DEF OnlySaid
  <2>1. k # n /\ M[k].role = "tool" /\ M[k].calls = << >>
    BY DEF Matches, OnlySaid
  <2>2. DOMAIN N[k].calls = {}
    BY <2>1
  <2>3. N[k].calls \in Seq(ChatMade)
    BY <1>1, MessageTypes
  <2> QED
    BY <2>2, <2>3
<1>6. MadeByStep(N, new)
  <2> SUFFICES ASSUME NEW k \in DOMAIN N, N[k].role = "assistant", NEW i \in DOMAIN N[k].calls
               PROVE  /\ new[N[k].of].calls[N[k].calls[i].id] # "none"
                      /\ N[k].calls[i].arguments = 1
    BY DEF MadeByStep
  <2>1. M[k].of \in Step /\ M[k].role = "assistant" /\ N[k].of = M[k].of
    BY DEF Matches, OfStep
  <2>2. CASE i \in DOMAIN M[k].calls
    <3>1. N[k].calls[i].id = M[k].calls[i].id /\ N[k].calls[i].arguments = M[k].calls[i].arguments
      BY <2>2
    <3>2. st[M[k].of].calls[M[k].calls[i].id] # "none" /\ M[k].calls[i].arguments = 1
      BY <2>1, <2>2 DEF Matches, MadeByStep
    <3>3. M[k].calls[i].id \in Call
      <4>1. M[k].calls \in Seq(ChatMade)
        BY <1>1, MessageTypes
      <4> QED
        BY <2>2, <4>1, MadeTypes
    <3> QED
      BY <2>1, <3>1, <3>2, <3>3 DEF Moved
  <2>3. CASE i \notin DOMAIN M[k].calls
    <3>1. k = n /\ i = Len(M[n].calls) + 1
      <4>1. k = n
        BY <2>3
      <4>2. i \in 1 .. Len(M[n].calls) + 1 /\ i \notin 1 .. Len(M[n].calls)
        BY <1>3, <2>3, <4>1
      <4> QED
        BY <1>3, <4>1, <4>2
    <3> QED
      BY <2>1, <3>1 DEF Moved
  <2> QED
    BY <2>2, <2>3
<1>7. MadeInMessage(N, new)
  <2> SUFFICES ASSUME NEW t \in Step, NEW d \in Call, new[t].calls[d] # "none"
               PROVE  \E k \in DOMAIN N : N[k].of = t /\ Makes(N[k], d)
    BY DEF MadeInMessage
  <2>1. CASE t = s /\ d = c
    <3>1. Len(M[n].calls) + 1 \in DOMAIN N[n].calls
      BY <1>3
    <3> QED
      BY <2>1, <3>1 DEF Makes, Projector!CallsOf
  <2>2. CASE ~ (t = s /\ d = c)
    <3>1. PICK k \in DOMAIN M : M[k].of = t /\ Makes(M[k], d)
      BY <2>2 DEF Moved, Matches, MadeInMessage
    <3>2. PICK i \in DOMAIN M[k].calls : M[k].calls[i].id = d
      BY <3>1 DEF Makes, Projector!CallsOf
    <3>3. i \in DOMAIN N[k].calls /\ N[k].calls[i].id = d
      <4>1. CASE k = n
        BY <1>3, <3>2, <4>1
      <4>2. CASE k # n
        BY <3>2, <4>2
      <4> QED
        BY <4>1, <4>2
    <3> QED
      BY <3>1, <3>3 DEF Makes, Projector!CallsOf
  <2> QED
    BY <2>1, <2>2
<1>8. AnsweredByStep(N, new)
  <2> SUFFICES ASSUME NEW k \in DOMAIN N, N[k].role = "tool"
               PROVE  \E t \in Step : new[t].calls[N[k].of] = "settled"
    BY DEF AnsweredByStep
  <2>1. M[k].role = "tool" /\ N[k].of = M[k].of /\ M[k].of \in Call
    BY DEF Matches, OfStep
  <2>2. PICK t \in Step : st[t].calls[M[k].of] = "settled"
    BY <2>1 DEF Matches, AnsweredByStep
  <2>3. ~ (t = s /\ M[k].of = c)
    BY <2>2
  <2> QED
    BY <2>1, <2>2, <2>3 DEF Moved
<1>9. AnsweredInMessage(N, new)
  <2> SUFFICES ASSUME NEW t \in Step, NEW d \in Call, new[t].calls[d] = "settled"
               PROVE  \E k \in DOMAIN N : N[k].role = "tool" /\ N[k].of = d
    BY DEF AnsweredInMessage
  <2>1. st[t].calls[d] = "settled"
    BY DEF Moved
  <2> QED
    BY <2>1 DEF Matches, AnsweredInMessage
<1> QED
  BY <1>4, <1>5, <1>6, <1>7, <1>8, <1>9 DEF Matches

\* An answered call.
LEMMA MatchesAnswer ==
  ASSUME NEW M, Coherent(M), NEW st, NEW new, Matches(M, st), NEW s \in Step, NEW c \in Call,
         Moved(st, new, s, c, "settled"), st[s].calls[c] # "none"
  PROVE  Matches(Append(M, Answer(c)), new)
<1> DEFINE N == Append(M, Answer(c))
<1>1. M \in Seq(ChatMessage) /\ Len(M) \in Nat /\ DOMAIN M = 1 .. Len(M)
  BY DEF Coherent
<1>2. Answer(c) \in ChatMessage
  BY DEF Answer, ChatMessage
<1>3. /\ N \in Seq(ChatMessage) /\ DOMAIN N = 1 .. Len(M) + 1
      /\ \A k \in DOMAIN M : N[k] = M[k]
      /\ N[Len(M) + 1] = Answer(c)
  BY <1>1, <1>2
<1>4. /\ N[Len(M) + 1].role = "tool" /\ N[Len(M) + 1].of = c
      /\ N[Len(M) + 1].calls = << >>
  BY <1>3 DEF Answer
<1> HIDE DEF N
<1>5. DOMAIN M \subseteq DOMAIN N /\ \A k \in DOMAIN N : k \in DOMAIN M \/ k = Len(M) + 1
  BY <1>1, <1>3
<1>6. OfStep(N) /\ OnlySaid(N) /\ SaidByStep(N, new)
  BY <1>3, <1>4, <1>5 DEF Matches, OfStep, OnlySaid, SaidByStep, Moved
<1>7. MadeByStep(N, new)
  <2> SUFFICES ASSUME NEW k \in DOMAIN N, N[k].role = "assistant", NEW i \in DOMAIN N[k].calls
               PROVE  /\ new[N[k].of].calls[N[k].calls[i].id] # "none"
                      /\ N[k].calls[i].arguments = 1
    BY DEF MadeByStep
  <2>1. k \in DOMAIN M /\ N[k] = M[k]
    BY <1>3, <1>4, <1>5
  <2>2. M[k].of \in Step /\ M[k].calls \in Seq(ChatMade)
    BY <1>1, <2>1, MessageTypes DEF Matches, OfStep
  <2>3. M[k].calls[i].id \in Call
    BY <2>1, <2>2, MadeTypes
  <2>4. st[M[k].of].calls[M[k].calls[i].id] # "none" /\ M[k].calls[i].arguments = 1
    BY <2>1 DEF Matches, MadeByStep
  <2> QED
    BY <2>1, <2>2, <2>3, <2>4 DEF Moved
<1>8. MadeInMessage(N, new)
  <2> SUFFICES ASSUME NEW t \in Step, NEW d \in Call, new[t].calls[d] # "none"
               PROVE  \E k \in DOMAIN N : N[k].of = t /\ Makes(N[k], d)
    BY DEF MadeInMessage
  <2>1. st[t].calls[d] # "none"
    BY DEF Moved
  <2>2. PICK k \in DOMAIN M : M[k].of = t /\ Makes(M[k], d)
    BY <2>1 DEF Matches, MadeInMessage
  <2> QED
    BY <1>3, <1>5, <2>2
<1>9. AnsweredByStep(N, new)
  <2> SUFFICES ASSUME NEW k \in DOMAIN N, N[k].role = "tool"
               PROVE  \E t \in Step : new[t].calls[N[k].of] = "settled"
    BY DEF AnsweredByStep
  <2>1. CASE k \in DOMAIN M
    <3>1. M[k].role = "tool" /\ N[k].of = M[k].of /\ M[k].of \in Call
      BY <1>3, <2>1 DEF Matches, OfStep
    <3>2. PICK t \in Step : st[t].calls[M[k].of] = "settled"
      BY <2>1, <3>1 DEF Matches, AnsweredByStep
    <3> QED
      BY <3>1, <3>2 DEF Moved
  <2>2. CASE k = Len(M) + 1
    BY <1>4, <2>2 DEF Moved
  <2> QED
    BY <1>5, <2>1, <2>2
<1>10. AnsweredInMessage(N, new)
  <2> SUFFICES ASSUME NEW t \in Step, NEW d \in Call, new[t].calls[d] = "settled"
               PROVE  \E k \in DOMAIN N : N[k].role = "tool" /\ N[k].of = d
    BY DEF AnsweredInMessage
  <2>1. CASE t = s /\ d = c
    <3>1. Len(M) + 1 \in DOMAIN N
      BY <1>1, <1>3
    <3> QED
      BY <1>4, <2>1, <3>1
  <2>2. CASE ~ (t = s /\ d = c)
    <3>1. st[t].calls[d] = "settled"
      BY <2>2 DEF Moved
    <3>2. PICK k \in DOMAIN M : M[k].role = "tool" /\ M[k].of = d
      BY <3>1 DEF Matches, AnsweredInMessage
    <3> QED
      BY <1>3, <1>5, <3>2
  <2> QED
    BY <2>1, <2>2
<1> QED
  BY <1>6, <1>7, <1>8, <1>9, <1>10 DEF Matches, N


\* The events that are logged, and the answers they draw.
ProjectorTypes ==
  /\ steps \in [Step -> StepRecord] /\ events \in Seq(LogEvent)
  /\ ended \in {"no", "closed", "failed"} /\ past \subseteq Step

\* A call has a state only once its message is committed, no call is of two steps, and a
\* step that is finished has all its calls answered.
StepsAgree ==
  /\ \A s \in Step : ~ steps[s].open /\ s \notin past => steps[s] = Projector!Fresh
  /\ \A s \in Step, c \in Call : steps[s].calls[c] # "none" =>
                                   c \in steps[s].committed /\ steps[s].assistant
  /\ \A s, t \in Step : s # t => steps[s].committed \cap steps[t].committed = {}
  /\ \A s \in past : ~ steps[s].open
  /\ \A s \in past : Projector!Complete(s)
  /\ ended = "closed" => \A s \in Step : ~ steps[s].open

TranscriptsCohere == \A n \in 0 .. Len(events) : Coherent(Projector!Transcripts(events)[n])
TranscriptMatches == Matches(Projector!Transcripts(events)[Len(events)], steps)

ProjectorInv == ProjectorTypes /\ StepsAgree /\ TranscriptsCohere /\ TranscriptMatches

\* An open step has its fields.
LEMMA StepTypes ==
  ASSUME ProjectorTypes, NEW s \in Step
  PROVE  /\ steps[s] \in StepRecord /\ steps[s].open \in BOOLEAN
         /\ steps[s].assistant \in BOOLEAN /\ steps[s].committed \in SUBSET Call
         /\ steps[s].calls \in [Call -> {"none", "pending", "settled"}]
<1>1. steps[s] \in StepRecord
  BY DEF ProjectorTypes
<1> QED
  BY <1>1, Zenon DEF StepRecord

\* An empty transcript.
LEMMA EmptyTranscript ==
  ASSUME NEW st, \A s \in Step, c \in Call : st[s].calls[c] = "none"
  PROVE  Coherent(<< >>) /\ Matches(<< >>, st)
<1>1. Coherent(<< >>)
  BY DEF Coherent, OneEach, AnswersMade, MadeOnce
<1>2. Matches(<< >>, st)
  BY DEF Matches, OfStep, OnlySaid, SaidByStep, MadeByStep, MadeInMessage,
     AnsweredByStep, AnsweredInMessage
<1> QED
  BY <1>1, <1>2

\* Nothing is said before the first notification.
LEMMA ProjectorStarts ==
  ASSUME Projector!ProjectorInit
  PROVE  ProjectorInv
<1>1. Projector!Fresh \in StepRecord
  BY DEF Projector!Fresh, StepRecord
<1>2. /\ ~ Projector!Fresh.open /\ Projector!Fresh.committed = {}
      /\ \A c \in Call : Projector!Fresh.calls[c] = "none"
  BY DEF Projector!Fresh
<1>3. ProjectorTypes
  BY <1>1 DEF Projector!ProjectorInit, ProjectorTypes
<1>4. \A s \in Step : steps[s] = Projector!Fresh
  BY DEF Projector!ProjectorInit
<1>5. StepsAgree
  BY <1>2, <1>4 DEF Projector!ProjectorInit, StepsAgree
<1>6. Projector!Transcripts(events)[0] = << >> /\ Len(events) = 0
  <2>1. << >> \in Seq(LogEvent)
    OBVIOUS
  <2> QED
    BY <2>1, TranscriptUnfolds DEF Projector!ProjectorInit
<1>7. TranscriptsCohere
  <2>1. Coherent(<< >>)
    BY <1>2, <1>4, EmptyTranscript
  <2> QED
    BY <1>6, <2>1 DEF TranscriptsCohere
<1>8. TranscriptMatches
  BY <1>2, <1>4, <1>6, EmptyTranscript DEF TranscriptMatches
<1> QED
  BY <1>3, <1>5, <1>7, <1>8 DEF ProjectorInv

\* What the log tells after new events: the rest of it as before.
LEMMA LogGrows ==
  ASSUME ProjectorInv, NEW new \in Seq(LogEvent), events' = events \o new,
         \A n \in 1 .. Len(new) : Coherent(Projector!Transcripts(events')[Len(events) + n])
  PROVE  TranscriptsCohere'
<1>1. events \in Seq(LogEvent) /\ Len(events) \in Nat /\ Len(new) \in Nat
  BY DEF ProjectorInv, ProjectorTypes
<1>2. Len(events') = Len(events) + Len(new)
  BY <1>1
<1> SUFFICES ASSUME NEW n \in 0 .. Len(events')
             PROVE  Coherent(Projector!Transcripts(events')[n])
  BY DEF TranscriptsCohere
<1>3. CASE n \in 0 .. Len(events)
  <2>1. Projector!Transcripts(events')[n] = Projector!Transcripts(events)[n]
    BY <1>1, <1>3, TranscriptGrows
  <2> QED
    BY <1>3, <2>1 DEF ProjectorInv, TranscriptsCohere
<1>4. CASE n \notin 0 .. Len(events)
  <2>1. n - Len(events) \in 1 .. Len(new) /\ n = Len(events) + (n - Len(events))
    BY <1>1, <1>2, <1>4
  <2> QED
    BY <2>1
<1> QED
  BY <1>3, <1>4

\* The transcript of a log with new events renders them one by one.
LEMMA LogRenders ==
  ASSUME ProjectorInv, NEW new \in Seq(LogEvent), events' = events \o new
  PROVE  /\ Projector!Transcripts(events')[Len(events)] = Projector!Transcripts(events)[Len(events)]
         /\ Len(events') = Len(events) + Len(new)
         /\ \A n \in 1 .. Len(new) : Projector!Transcripts(events')[Len(events) + n]
              = Projector!Rendered(Projector!Transcripts(events')[Len(events) + n - 1], new[n])
<1>1. events \in Seq(LogEvent) /\ Len(events) \in Nat /\ Len(new) \in Nat
  BY DEF ProjectorInv, ProjectorTypes
<1>2. events' \in Seq(LogEvent) /\ Len(events') = Len(events) + Len(new)
  BY <1>1
<1>3. Projector!Transcripts(events')[Len(events)] = Projector!Transcripts(events)[Len(events)]
  BY <1>1, TranscriptGrows
<1>4. ASSUME NEW n \in 1 .. Len(new)
      PROVE  Projector!Transcripts(events')[Len(events) + n]
              = Projector!Rendered(Projector!Transcripts(events')[Len(events) + n - 1], new[n])
  <2>1. Len(events) + n \in 1 .. Len(events') /\ events'[Len(events) + n] = new[n]
    BY <1>1, <1>2
  <2>2. \A m \in 1 .. Len(events') : Projector!Transcripts(events')[m]
              = Projector!Rendered(Projector!Transcripts(events')[m - 1], events'[m])
    BY <1>2, TranscriptUnfolds, Zenon
  <2> QED
    BY <2>1, <2>2, SMTT(30)
<1> QED
  BY <1>2, <1>3, <1>4

\* One new event that does not change the transcript.
LEMMA SilentEvent ==
  ASSUME ProjectorInv, NEW e \in LogEvent, events' = events \o <<e>>,
         e.type \in {"STEP_STARTED", "STEP_FINISHED"},
         \A s \in Step : steps[s].assistant => steps'[s].assistant,
         \A s \in Step, c \in Call : steps'[s].calls[c] = steps[s].calls[c]
  PROVE  TranscriptsCohere' /\ TranscriptMatches'
<1> DEFINE L == Len(events)
           T == Projector!Transcripts(events')
           M == Projector!Transcripts(events)[L]
<1>1. <<e>> \in Seq(LogEvent) /\ Len(<<e>>) = 1 /\ <<e>>[1] = e
  OBVIOUS
<1>2. T[L] = M /\ Len(events') = L + 1 /\ T[L + 1] = Projector!Rendered(T[L + 1 - 1], e)
  <2>1. /\ T[L] = M /\ Len(events') = L + Len(<<e>>)
        /\ \A n \in 1 .. Len(<<e>>) : T[L + n] = Projector!Rendered(T[L + n - 1], <<e>>[n])
    BY <1>1, LogRenders, Zenon
  <2>2. 1 \in 1 .. Len(<<e>>)
    BY <1>1
  <2> QED
    BY <1>1, <2>1, <2>2, Zenon
<1>3. L \in Nat /\ L + 1 - 1 = L
  BY DEF ProjectorInv, ProjectorTypes
<1>4. Coherent(M) /\ Matches(M, steps)
  BY <1>3 DEF ProjectorInv, TranscriptsCohere, TranscriptMatches
<1>5. Projector!Rendered(M, e) = M
  BY DEF Projector!Rendered
<1>6. T[L + 1] = M
  BY <1>2, <1>3, <1>5
<1>7. TranscriptsCohere'
  <2>1. \A n \in 1 .. Len(<<e>>) : n = 1
    BY <1>1
  <2>2. \A n \in 1 .. Len(<<e>>) : Coherent(T[L + n])
    BY <1>4, <1>6, <2>1, Zenon
  <2> QED
    BY <1>1, <2>2, LogGrows, Zenon
<1>8. Matches(M, steps')
  <2>1. M \in Seq(ChatMessage)
    BY <1>4 DEF Coherent
  <2> HIDE DEF M
  <2> QED
    BY <1>4, <2>1, MatchesLater
<1>9. TranscriptMatches'
  BY <1>2, <1>6, <1>8 DEF TranscriptMatches
<1> QED
  BY <1>7, <1>9


\* The transcript so far is coherent and matches the steps.
LEMMA TranscriptSoFar ==
  ASSUME ProjectorInv
  PROVE  /\ Coherent(Projector!Transcripts(events)[Len(events)])
         /\ Matches(Projector!Transcripts(events)[Len(events)], steps)
         /\ Len(events) \in Nat
<1>1. Len(events) \in 0 .. Len(events) /\ Len(events) \in Nat
  BY DEF ProjectorInv, ProjectorTypes
<1> QED
  BY <1>1 DEF ProjectorInv, TranscriptsCohere, TranscriptMatches

\* The three events of a message or of a call.
LEMMA ThreeEvents ==
  ASSUME ProjectorInv, NEW types \in [1 .. 3 -> LogTypes], NEW s \in Step,
         NEW c \in Call \cup {Projector!Nobody},
         events' = events \o Projector!Three(types, s, c)
  PROVE  LET L == Len(events)
             T == Projector!Transcripts(events')
             M == Projector!Transcripts(events)[L] IN
         /\ events' \in Seq(LogEvent) /\ Len(events') = L + 3
         /\ T[L + 1] = Projector!Rendered(M, Projector!Event(types[1], s, c))
         /\ T[L + 2] = Projector!Rendered(T[L + 1], Projector!Event(types[2], s, c))
         /\ T[L + 3] = Projector!Rendered(T[L + 2], Projector!Event(types[3], s, c))
         /\ Coherent(T[L + 1]) /\ Coherent(T[L + 2]) /\ Coherent(T[L + 3])
              => TranscriptsCohere'
<1> DEFINE L == Len(events)
           T == Projector!Transcripts(events')
           M == Projector!Transcripts(events)[L]
           new == Projector!Three(types, s, c)
<1>1. \A n \in 1 .. 3 : Projector!Event(types[n], s, c) \in LogEvent
  BY DEF Projector!Event, LogEvent
<1>2. /\ new \in Seq(LogEvent) /\ Len(new) = 3
      /\ \A n \in 1 .. 3 : new[n] = Projector!Event(types[n], s, c)
  BY <1>1 DEF Projector!Three
<1> HIDE DEF new
<1>3. events \in Seq(LogEvent) /\ L \in Nat
  BY DEF ProjectorInv, ProjectorTypes
<1>4. events' = events \o new
  BY DEF new
<1>5. /\ T[L] = M /\ Len(events') = L + Len(new)
      /\ \A n \in 1 .. Len(new) : T[L + n] = Projector!Rendered(T[L + n - 1], new[n])
  BY <1>2, <1>4, LogRenders, Zenon
<1>6. events' \in Seq(LogEvent)
  BY <1>2, <1>3, <1>4
<1>7. L + 1 - 1 = L /\ L + 2 - 1 = L + 1 /\ L + 3 - 1 = L + 2
  BY <1>3
<1>8. 1 \in 1 .. 3 /\ 2 \in 1 .. 3 /\ 3 \in 1 .. 3
  OBVIOUS
<1>9. /\ T[L + 1] = Projector!Rendered(M, Projector!Event(types[1], s, c))
      /\ T[L + 2] = Projector!Rendered(T[L + 1], Projector!Event(types[2], s, c))
      /\ T[L + 3] = Projector!Rendered(T[L + 2], Projector!Event(types[3], s, c))
  <2> DEFINE Is(n, before) == T[L + n] = Projector!Rendered(before, new[n])
  <2>1. Is(1, T[L + 1 - 1]) /\ Is(2, T[L + 2 - 1]) /\ Is(3, T[L + 3 - 1])
    BY <1>2, <1>5, <1>8, Zenon
  <2>2. Is(1, M) /\ Is(2, T[L + 1]) /\ Is(3, T[L + 2])
    BY <1>5, <1>7, <2>1, Zenon
  <2>3. /\ new[1] = Projector!Event(types[1], s, c)
        /\ new[2] = Projector!Event(types[2], s, c)
        /\ new[3] = Projector!Event(types[3], s, c)
    BY <1>2, <1>8, Zenon
  <2> QED
    BY <2>2, <2>3, Zenon
<1>10. ASSUME Coherent(T[L + 1]), Coherent(T[L + 2]), Coherent(T[L + 3])
       PROVE  TranscriptsCohere'
  <2>1. \A n \in 1 .. Len(new) : n = 1 \/ n = 2 \/ n = 3
    BY <1>2
  <2>2. \A n \in 1 .. Len(new) : Coherent(T[L + n])
    BY <1>10, <2>1, Zenon
  <2> QED
    BY <1>2, <1>4, <2>2, LogGrows, Zenon
<1> QED
  BY <1>2, <1>5, <1>6, <1>9, <1>10, Zenon

\* A step is opened.
LEMMA StepStarted ==
  ASSUME ProjectorInv, NEW s \in Step, Projector!StepStart(s)
  PROVE  ProjectorInv'
<1>1. CASE steps[s].open
  <2>1. ended' = "failed" /\ UNCHANGED <<steps, events, past>>
    BY <1>1 DEF Projector!StepStart, Projector!Throws
  <2> QED
    BY <2>1 DEF ProjectorInv, ProjectorTypes, StepsAgree, Projector!Complete,
       TranscriptsCohere, TranscriptMatches
<1>2. CASE ~ steps[s].open
  <2> DEFINE e == Projector!Event("STEP_STARTED", s, Projector!Nobody)
             new == [Projector!Fresh EXCEPT !.open = TRUE]
  <2>1. /\ s \notin past /\ ended = "no" /\ steps' = [steps EXCEPT ![s] = new]
        /\ events' = events \o <<e>> /\ UNCHANGED <<ended, past>>
    BY <1>2, Zenon DEF Projector!StepStart, Projector!Emits, Projector!Running
  <2>2. steps[s] = Projector!Fresh
    BY <1>2, <2>1 DEF ProjectorInv, StepsAgree
  <2>3. /\ new \in StepRecord /\ new.open /\ new.assistant = Projector!Fresh.assistant
        /\ new.calls = Projector!Fresh.calls /\ new.committed = Projector!Fresh.committed
    BY DEF Projector!Fresh, StepRecord
  <2>4. e \in LogEvent /\ e.type = "STEP_STARTED"
    BY DEF Projector!Event, LogEvent, LogTypes
  <2> HIDE DEF e, new
  <2>5. /\ steps'[s] = new /\ \A t \in Step : t # s => steps'[t] = steps[t]
        /\ steps' \in [Step -> StepRecord]
    BY <2>1, <2>3 DEF ProjectorInv, ProjectorTypes
  <2>6. \A t \in Step : /\ steps'[t].assistant = steps[t].assistant
                        /\ steps'[t].calls = steps[t].calls
                        /\ steps'[t].committed = steps[t].committed
    BY <2>2, <2>3, <2>5, Zenon
  <2>7. TranscriptsCohere' /\ TranscriptMatches'
    BY <2>1, <2>4, <2>6, SilentEvent
  <2>8. ProjectorTypes'
    <3>1. events' \in Seq(LogEvent)
      BY <2>1, <2>4 DEF ProjectorInv, ProjectorTypes
    <3> QED
      BY <2>1, <2>5, <3>1 DEF ProjectorInv, ProjectorTypes
  <2>9. StepsAgree'
    <3>1. \A t \in Step : ~ steps'[t].open /\ t \notin past => steps'[t] = Projector!Fresh
      BY <2>3, <2>5 DEF ProjectorInv, StepsAgree
    <3>2. \A t \in Step, c \in Call : steps'[t].calls[c] # "none" =>
                                   c \in steps'[t].committed /\ steps'[t].assistant
      BY <2>6 DEF ProjectorInv, StepsAgree
    <3>3. \A t, u \in Step : t # u => steps'[t].committed \cap steps'[u].committed = {}
      BY <2>6 DEF ProjectorInv, StepsAgree
    <3>4. \A t \in past : ~ steps'[t].open /\ Projector!Complete(t)'
      <4>1. \A t \in past : steps'[t] = steps[t]
        BY <2>1, <2>5 DEF ProjectorInv, ProjectorTypes
      <4> QED
        BY <4>1 DEF ProjectorInv, StepsAgree, Projector!Complete
    <3> QED
      BY <2>1, <3>1, <3>2, <3>3, <3>4 DEF StepsAgree
  <2> QED
    BY <2>7, <2>8, <2>9 DEF ProjectorInv
<1> QED
  BY <1>1, <1>2

\* A step is finished.
LEMMA StepEnded ==
  ASSUME ProjectorInv, NEW s \in Step, Projector!StepEnd(s)
  PROVE  ProjectorInv'
<1>1. CASE ~ steps[s].open \/ ~ Projector!Complete(s)
  <2>1. ended' = "failed" /\ UNCHANGED <<steps, events, past>>
    BY <1>1, Zenon DEF Projector!StepEnd, Projector!Throws
  <2> QED
    BY <2>1 DEF ProjectorInv, ProjectorTypes, StepsAgree, Projector!Complete,
       TranscriptsCohere, TranscriptMatches
<1>2. CASE steps[s].open /\ Projector!Complete(s)
  <2> DEFINE e == Projector!Event("STEP_FINISHED", s, Projector!Nobody)
             new == [steps[s] EXCEPT !.open = FALSE]
  <2>1. /\ ended = "no" /\ steps' = [steps EXCEPT ![s] = new]
        /\ events' = Append(events, e) /\ past' = past \cup {s} /\ UNCHANGED ended
    BY <1>2, Zenon DEF Projector!StepEnd, Projector!Running
  <2>2. /\ new \in StepRecord /\ ~ new.open /\ new.assistant = steps[s].assistant
        /\ new.calls = steps[s].calls /\ new.committed = steps[s].committed
    <3>1. steps[s] \in StepRecord
      BY StepTypes DEF ProjectorInv
    <3> QED
      BY <3>1 DEF StepRecord
  <2>3. e \in LogEvent /\ e.type = "STEP_FINISHED"
    BY DEF Projector!Event, LogEvent, LogTypes
  <2> HIDE DEF e, new
  <2>4. /\ steps'[s] = new /\ \A t \in Step : t # s => steps'[t] = steps[t]
        /\ steps' \in [Step -> StepRecord]
    BY <2>1, <2>2 DEF ProjectorInv, ProjectorTypes
  <2>5. \A t \in Step : /\ steps'[t].assistant = steps[t].assistant
                        /\ steps'[t].calls = steps[t].calls
                        /\ steps'[t].committed = steps[t].committed
    BY <2>2, <2>4, Zenon
  <2>6. events \in Seq(LogEvent) /\ past \subseteq Step
    BY DEF ProjectorInv, ProjectorTypes
  <2>7. events' = events \o <<e>>
    BY <2>1, <2>3, <2>6
  <2>8. TranscriptsCohere' /\ TranscriptMatches'
    BY <2>3, <2>5, <2>7, SilentEvent
  <2>9. ProjectorTypes'
    <3>1. events' \in Seq(LogEvent)
      BY <2>1, <2>3, <2>6
    <3> QED
      BY <2>1, <2>4, <3>1 DEF ProjectorInv, ProjectorTypes
  <2>10. StepsAgree'
    <3>1. \A t \in Step : ~ steps'[t].open /\ t \notin past' => steps'[t] = Projector!Fresh
      BY <2>1, <2>2, <2>4 DEF ProjectorInv, StepsAgree
    <3>2. \A t \in Step, c \in Call : steps'[t].calls[c] # "none" =>
                                   c \in steps'[t].committed /\ steps'[t].assistant
      BY <2>5 DEF ProjectorInv, StepsAgree
    <3>3. \A t, u \in Step : t # u => steps'[t].committed \cap steps'[u].committed = {}
      BY <2>5 DEF ProjectorInv, StepsAgree
    <3>4. \A t \in past' : ~ steps'[t].open
      BY <2>1, <2>2, <2>4, <2>6 DEF ProjectorInv, StepsAgree
    <3>5. \A t \in past' : Projector!Complete(t)'
      <4>1. \A t \in past' : Projector!Complete(t)
        BY <1>2, <2>1, Zenon DEF ProjectorInv, StepsAgree
      <4>2. \A t \in past' : t \in Step
        BY <2>1, <2>6
      <4> QED
        BY <2>5, <4>1, <4>2 DEF Projector!Complete
    <3> QED
      BY <2>1, <3>1, <3>2, <3>3, <3>4, <3>5 DEF StepsAgree
  <2> QED
    BY <2>8, <2>9, <2>10 DEF ProjectorInv
<1> QED
  BY <1>1, <1>2

\* The run is over.
LEMMA ProjectorCloses ==
  ASSUME ProjectorInv, Projector!AssertClosed
  PROVE  ProjectorInv'
<1>1. UNCHANGED <<steps, events, past>>
  BY DEF Projector!AssertClosed
<1>2. ended' \in {"closed", "failed"} /\ (ended' = "closed" => \A s \in Step : ~ steps[s].open)
  BY DEF Projector!AssertClosed
<1> QED
  BY <1>1, <1>2 DEF ProjectorInv, ProjectorTypes, StepsAgree, Projector!Complete,
     TranscriptsCohere, TranscriptMatches


\* How each kind of event renders.
LEMMA RendersText ==
  ASSUME NEW M, NEW s \in Step, NEW c
  PROVE  /\ Projector!Rendered(M, Projector!Event("TEXT_MESSAGE_START", s, c))
              = Append(M, Projector!Assistant(s, 0))
         /\ Projector!Place(M, s) # 0 =>
              Projector!Rendered(M, Projector!Event("TEXT_MESSAGE_CONTENT", s, c))
                = Projector!Texted(M, Projector!Place(M, s))
         /\ Projector!Rendered(M, Projector!Event("TEXT_MESSAGE_END", s, c)) = M
  BY DEF Projector!Rendered, Projector!Event

\* What a message that calls adds to a transcript.
LEMMA RendersCall ==
  ASSUME NEW M, NEW s \in Step, NEW c
  PROVE  /\ Projector!Rendered(M, Projector!Event("TOOL_CALL_START", s, c))
              = Projector!Called(Projector!WithMessage(M, s),
                                 Projector!Place(Projector!WithMessage(M, s), s), c)
         /\ Projector!Rendered(M, Projector!Event("TOOL_CALL_ARGS", s, c)) = Arguing(M, c)
         /\ Projector!Rendered(M, Projector!Event("TOOL_CALL_END", s, c)) = M
         /\ Projector!Rendered(M, Projector!Event("TOOL_CALL_RESULT", s, c))
              = Append(M, Answer(c))
  BY DEF Projector!Rendered, Projector!Event, Arguing, Answer

\* The text of a message is sent.
LEMMA TextIsSent ==
  ASSUME ProjectorInv, NEW s \in Step, ~ steps[s].assistant,
         events' = events \o Projector!Three(Projector!TextMessage, s, Projector!Nobody),
         steps'[s].assistant, \A t \in Step : steps[t].assistant => steps'[t].assistant,
         \A t \in Step, c \in Call : steps'[t].calls[c] = steps[t].calls[c]
  PROVE  events' \in Seq(LogEvent) /\ TranscriptsCohere' /\ TranscriptMatches'
<1> DEFINE L == Len(events)
           T == Projector!Transcripts(events')
           M == Projector!Transcripts(events)[L]
           W == Append(M, Projector!Assistant(s, 0))
           n == Projector!Place(W, s)
           N == Projector!Texted(W, n)
           Ev(type) == Projector!Event(type, s, Projector!Nobody)
<1>1. Coherent(M) /\ Matches(M, steps) /\ L \in Nat
  BY TranscriptSoFar
<1>2. Projector!TextMessage \in [1 .. 3 -> LogTypes]
  BY DEF Projector!TextMessage, LogTypes
<1>3. /\ Projector!TextMessage[1] = "TEXT_MESSAGE_START"
      /\ Projector!TextMessage[2] = "TEXT_MESSAGE_CONTENT"
      /\ Projector!TextMessage[3] = "TEXT_MESSAGE_END"
  BY DEF Projector!TextMessage
<1>4. /\ events' \in Seq(LogEvent) /\ Len(events') = L + 3
      /\ T[L + 1] = Projector!Rendered(M, Ev("TEXT_MESSAGE_START"))
      /\ T[L + 2] = Projector!Rendered(T[L + 1], Ev("TEXT_MESSAGE_CONTENT"))
      /\ T[L + 3] = Projector!Rendered(T[L + 2], Ev("TEXT_MESSAGE_END"))
      /\ Coherent(T[L + 1]) /\ Coherent(T[L + 2]) /\ Coherent(T[L + 3]) => TranscriptsCohere'
  <2>1. Projector!Nobody \in Call \cup {Projector!Nobody}
    OBVIOUS
  <2> DEFINE Of(k) == Projector!Event(Projector!TextMessage[k], s, Projector!Nobody)
  <2>2. /\ events' \in Seq(LogEvent) /\ Len(events') = L + 3
        /\ T[L + 1] = Projector!Rendered(M, Of(1))
        /\ T[L + 2] = Projector!Rendered(T[L + 1], Of(2))
        /\ T[L + 3] = Projector!Rendered(T[L + 2], Of(3))
        /\ Coherent(T[L + 1]) /\ Coherent(T[L + 2]) /\ Coherent(T[L + 3])
             => TranscriptsCohere'
    BY <1>2, <2>1, ThreeEvents
  <2>3. /\ Of(1) = Ev("TEXT_MESSAGE_START") /\ Of(2) = Ev("TEXT_MESSAGE_CONTENT")
        /\ Of(3) = Ev("TEXT_MESSAGE_END")
    BY <1>3, Zenon
  <2> HIDE DEF Of, Ev
  <2> QED
    BY <2>2, <2>3, Zenon
<1>5. \A k \in DOMAIN M : ~ (M[k].role = "assistant" /\ M[k].of = s)
  BY <1>1, Zenon DEF Matches, SaidByStep
<1>6. Coherent(W)
  BY <1>1, <1>5, SaysIsCoherent
<1>7. /\ M \in Seq(ChatMessage) /\ W \in Seq(ChatMessage) /\ DOMAIN M \subseteq DOMAIN W
      /\ Len(M) + 1 \in DOMAIN W /\ Len(M) + 1 # 0
      /\ \A k \in DOMAIN M : W[k] = M[k]
      /\ \A k \in DOMAIN W \ DOMAIN M : k = Len(M) + 1
      /\ W[Len(M) + 1] = Projector!Assistant(s, 0)
  <2>1. M \in Seq(ChatMessage)
    BY <1>1 DEF Coherent
  <2>2. Projector!Assistant(s, 0) \in ChatMessage
    BY DEF Projector!Assistant, ChatMessage
  <2> QED
    BY <2>1, <2>2
<1>8. /\ W[Len(M) + 1].role = "assistant" /\ W[Len(M) + 1].of = s
      /\ W[Len(M) + 1].calls = << >>
  BY <1>7 DEF Projector!Assistant
<1>9. n = Len(M) + 1
  BY <1>6, <1>7, <1>8, PlaceOfOne DEF Coherent
<1>10. T[L + 1] = W /\ T[L + 2] = N /\ T[L + 3] = N
  <2>1. /\ Projector!Rendered(M, Ev("TEXT_MESSAGE_START")) = W
        /\ n # 0 => Projector!Rendered(W, Ev("TEXT_MESSAGE_CONTENT")) = N
        /\ Projector!Rendered(N, Ev("TEXT_MESSAGE_END")) = N
    BY RendersText
  <2>2. n # 0
    BY <1>7, <1>9
  <2> HIDE DEF W, n, N, Ev
  <2> QED
    BY <1>4, <2>1, <2>2, Zenon
<1> HIDE DEF W, n
<1>11. /\ Coherent(N) /\ DOMAIN N = DOMAIN W
       /\ \A k \in DOMAIN W : /\ N[k].role = W[k].role /\ N[k].of = W[k].of
                              /\ N[k].calls = W[k].calls
  BY <1>6, <1>7, <1>9, TextIsCoherent
<1> HIDE DEF N
<1>12. TranscriptsCohere'
  BY <1>4, <1>6, <1>10, <1>11, Zenon
<1>13. Matches(M, steps')
  BY <1>1, <1>7, MatchesLater
<1>14. Matches(N, steps')
  <2>1. \A k \in DOMAIN M : /\ N[k].role = M[k].role /\ N[k].of = M[k].of
                            /\ N[k].calls = M[k].calls
    BY <1>7, <1>11
  <2>2. \A k \in DOMAIN N \ DOMAIN M : /\ N[k].role = "assistant" /\ N[k].of \in Step
                                       /\ steps'[N[k].of].assistant /\ N[k].calls = << >>
    BY <1>7, <1>8, <1>11
  <2>3. N \in Seq(ChatMessage) /\ DOMAIN M \subseteq DOMAIN N
    BY <1>7, <1>11 DEF Coherent
  <2> HIDE DEF M
  <2> QED
    BY <1>7, <1>13, <2>1, <2>2, <2>3, MatchesLike
<1>15. TranscriptMatches'
  BY <1>4, <1>10, <1>14, Zenon DEF TranscriptMatches
<1> QED
  BY <1>4, <1>12, <1>15

\* A message of a step is committed.
LEMMA MessageSaid ==
  ASSUME ProjectorInv, NEW s \in Step, NEW cs \in SUBSET Call, NEW text \in BOOLEAN,
         NEW twice \in BOOLEAN, Projector!AssistantMessage(s, cs, text, twice)
  PROVE  ProjectorInv'
<1>1. CASE ~ steps[s].open \/ steps[s].assistant \/ twice
  <2>1. ended' = "failed" /\ UNCHANGED <<steps, events, past>>
    BY <1>1, Zenon DEF Projector!AssistantMessage, Projector!Throws
  <2> QED
    BY <2>1 DEF ProjectorInv, ProjectorTypes, StepsAgree, Projector!Complete,
       TranscriptsCohere, TranscriptMatches
<1>2. CASE steps[s].open /\ ~ steps[s].assistant /\ ~ twice
  <2> DEFINE new == [steps[s] EXCEPT !.assistant = TRUE, !.committed = cs]
  <2>1. /\ ended = "no" /\ steps' = [steps EXCEPT ![s].assistant = TRUE, ![s].committed = cs]
        /\ events' = events \o (IF text THEN Projector!Three(Projector!TextMessage, s,
                                                  Projector!Nobody) ELSE << >>)
        /\ UNCHANGED <<ended, past>>
        /\ \A t \in Step \ {s} : steps[t].committed \cap cs = {}
    BY <1>2, Zenon DEF Projector!AssistantMessage, Projector!Emits, Projector!Running
  <2>2. steps[s] \in StepRecord
    BY StepTypes DEF ProjectorInv
  <2>3. /\ new \in StepRecord /\ new.open /\ new.assistant = TRUE
        /\ new.calls = steps[s].calls /\ new.committed = cs
    BY <1>2, <2>2 DEF StepRecord
  <2>4. steps' = [steps EXCEPT ![s] = new]
    BY <2>1, <2>2 DEF ProjectorInv, ProjectorTypes, StepRecord
  <2> HIDE DEF new
  <2>5. /\ steps'[s] = new /\ \A t \in Step : t # s => steps'[t] = steps[t]
        /\ steps' \in [Step -> StepRecord]
    BY <2>3, <2>4 DEF ProjectorInv, ProjectorTypes
  <2>6. /\ steps'[s].assistant
        /\ \A t \in Step : steps[t].assistant => steps'[t].assistant
        /\ \A t \in Step : steps'[t].calls = steps[t].calls
    BY <2>3, <2>5, Zenon
  <2>7. /\ events' \in Seq(LogEvent) /\ TranscriptsCohere' /\ TranscriptMatches'
    <3>1. CASE text
      <4>1. events' = events \o Projector!Three(Projector!TextMessage, s, Projector!Nobody)
        BY <2>1, <3>1
      <4>2. \A t \in Step, c \in Call : steps'[t].calls[c] = steps[t].calls[c]
        BY <2>6
      <4> QED
        BY <1>2, <2>6, <4>1, <4>2, TextIsSent
    <3>2. CASE ~ text
      <4>1. events \in Seq(LogEvent)
        BY DEF ProjectorInv, ProjectorTypes
      <4>2. events' = events
        BY <2>1, <3>2, <4>1
      <4>3. Matches(Projector!Transcripts(events)[Len(events)], steps')
        <5> DEFINE M == Projector!Transcripts(events)[Len(events)]
        <5>1. Coherent(M) /\ Matches(M, steps) /\ M \in Seq(ChatMessage)
          BY TranscriptSoFar DEF Coherent
        <5> HIDE DEF M
        <5>2. Matches(M, steps')
          BY <2>6, <5>1, MatchesLater
        <5> QED
          BY <5>2 DEF M
      <4> QED
        BY <4>1, <4>2, <4>3 DEF TranscriptMatches, TranscriptsCohere, ProjectorInv
    <3> QED
      BY <3>1, <3>2
  <2>8. ProjectorTypes'
    BY <2>1, <2>5, <2>7 DEF ProjectorInv, ProjectorTypes
  <2>9. StepsAgree'
    <3>1. \A t \in Step : ~ steps'[t].open /\ t \notin past => steps'[t] = Projector!Fresh
      BY <2>3, <2>5 DEF ProjectorInv, StepsAgree
    <3>2. \A t \in Step, c \in Call : steps'[t].calls[c] # "none" =>
                                   c \in steps'[t].committed /\ steps'[t].assistant
      BY <1>2, <2>3, <2>5 DEF ProjectorInv, StepsAgree
    <3>3. \A t, u \in Step : t # u => steps'[t].committed \cap steps'[u].committed = {}
      BY <2>1, <2>3, <2>5 DEF ProjectorInv, StepsAgree
    <3>4. \A t \in past : ~ steps'[t].open /\ Projector!Complete(t)'
      <4>1. s \notin past /\ past \subseteq Step
        BY <1>2 DEF ProjectorInv, StepsAgree, ProjectorTypes
      <4>2. \A t \in past : steps'[t] = steps[t]
        BY <2>5, <4>1
      <4> QED
        BY <4>2 DEF ProjectorInv, StepsAgree, Projector!Complete
    <3> QED
      BY <2>1, <3>1, <3>2, <3>3, <3>4 DEF StepsAgree
  <2> QED
    BY <2>7, <2>8, <2>9 DEF ProjectorInv
<1> QED
  BY <1>1, <1>2


\* What a step of a call does to the steps: that call has the new state.
LEMMA CallMoves ==
  ASSUME ProjectorInv, NEW s \in Step, NEW c \in Call, NEW state \in {"pending", "settled"},
         steps[s].open, steps[s].assistant, c \in steps[s].committed,
         steps' = [steps EXCEPT ![s].calls[c] = state], UNCHANGED <<ended, past>>
  PROVE  StepsAgree' /\ steps' \in [Step -> StepRecord] /\ Moved(steps, steps', s, c, state)
<1> DEFINE new == [steps[s] EXCEPT !.calls = [@ EXCEPT ![c] = state]]
<1>1. steps[s] \in StepRecord /\ steps[s].calls \in [Call -> {"none", "pending", "settled"}]
  BY StepTypes DEF ProjectorInv
<1>2. [steps[s].calls EXCEPT ![c] = state] \in [Call -> {"none", "pending", "settled"}]
  BY <1>1
<1>3. /\ new \in StepRecord /\ new.open /\ new.assistant = steps[s].assistant
      /\ new.calls = [steps[s].calls EXCEPT ![c] = state]
      /\ new.committed = steps[s].committed
  BY <1>1, <1>2 DEF StepRecord
<1>4. steps' = [steps EXCEPT ![s] = new]
  BY DEF ProjectorInv, ProjectorTypes
<1> HIDE DEF new
<1>5. /\ steps'[s] = new /\ \A t \in Step : t # s => steps'[t] = steps[t]
      /\ steps' \in [Step -> StepRecord]
  BY <1>3, <1>4 DEF ProjectorInv, ProjectorTypes
<1>6. \A t \in Step : /\ steps'[t].open = steps[t].open
                      /\ steps'[t].assistant = steps[t].assistant
                      /\ steps'[t].committed = steps[t].committed
  BY <1>3, <1>5, Zenon
<1>7. \A t \in Step, d \in Call :
        steps'[t].calls[d] = IF t = s /\ d = c THEN state ELSE steps[t].calls[d]
  BY <1>1, <1>3, <1>5
<1>8. Moved(steps, steps', s, c, state)
  BY <1>6, <1>7, Zenon DEF Moved
<1>9. StepsAgree'
  <2>1. \A t \in Step : ~ steps'[t].open /\ t \notin past => steps'[t] = Projector!Fresh
    BY <1>3, <1>5 DEF ProjectorInv, StepsAgree
  <2>2. \A t \in Step, d \in Call : steps'[t].calls[d] # "none" =>
                                   d \in steps'[t].committed /\ steps'[t].assistant
    BY <1>6, <1>7 DEF ProjectorInv, StepsAgree
  <2>3. \A t, u \in Step : t # u => steps'[t].committed \cap steps'[u].committed = {}
    BY <1>6 DEF ProjectorInv, StepsAgree
  <2>4. \A t \in past : ~ steps'[t].open /\ Projector!Complete(t)'
    <3>1. s \notin past /\ past \subseteq Step
      BY DEF ProjectorInv, StepsAgree, ProjectorTypes
    <3>2. \A t \in past : steps'[t] = steps[t]
      BY <1>5, <3>1
    <3> QED
      BY <3>2 DEF ProjectorInv, StepsAgree, Projector!Complete
  <2>5. ended' = "closed" => \A t \in Step : ~ steps'[t].open
    BY <1>6 DEF ProjectorInv, StepsAgree
  <2> QED
    BY <2>1, <2>2, <2>3, <2>4, <2>5 DEF StepsAgree
<1> QED
  BY <1>5, <1>8, <1>9

\* An announced call is rendered with its arguments.
LEMMA CallIsSent ==
  ASSUME ProjectorInv, NEW s \in Step, NEW c \in Call, steps[s].assistant,
         c \in steps[s].committed, steps[s].calls[c] = "none",
         events' = events \o Projector!Three(Projector!Tool, s, c),
         Moved(steps, steps', s, c, "pending")
  PROVE  events' \in Seq(LogEvent) /\ TranscriptsCohere' /\ TranscriptMatches'
<1> DEFINE L == Len(events)
           T == Projector!Transcripts(events')
           M == Projector!Transcripts(events)[L]
           W == Projector!WithMessage(M, s)
           n == Projector!Place(W, s)
           N == Projector!Called(W, n, c)
           A == Arguing(N, c)
           Ev(type) == Projector!Event(type, s, c)
<1>1. Coherent(M) /\ Matches(M, steps) /\ L \in Nat
  BY TranscriptSoFar
<1>2. Projector!Tool \in [1 .. 3 -> LogTypes]
  BY DEF Projector!Tool, LogTypes
<1>3. /\ Projector!Tool[1] = "TOOL_CALL_START"
      /\ Projector!Tool[2] = "TOOL_CALL_ARGS"
      /\ Projector!Tool[3] = "TOOL_CALL_END"
  BY DEF Projector!Tool
<1>4. /\ events' \in Seq(LogEvent) /\ Len(events') = L + 3
      /\ T[L + 1] = Projector!Rendered(M, Ev("TOOL_CALL_START"))
      /\ T[L + 2] = Projector!Rendered(T[L + 1], Ev("TOOL_CALL_ARGS"))
      /\ T[L + 3] = Projector!Rendered(T[L + 2], Ev("TOOL_CALL_END"))
      /\ Coherent(T[L + 1]) /\ Coherent(T[L + 2]) /\ Coherent(T[L + 3]) => TranscriptsCohere'
  <2>1. c \in Call \cup {Projector!Nobody}
    OBVIOUS
  <2> DEFINE Of(k) == Projector!Event(Projector!Tool[k], s, c)
  <2>2. /\ events' \in Seq(LogEvent) /\ Len(events') = L + 3
        /\ T[L + 1] = Projector!Rendered(M, Of(1))
        /\ T[L + 2] = Projector!Rendered(T[L + 1], Of(2))
        /\ T[L + 3] = Projector!Rendered(T[L + 2], Of(3))
        /\ Coherent(T[L + 1]) /\ Coherent(T[L + 2]) /\ Coherent(T[L + 3])
             => TranscriptsCohere'
    BY <1>2, <2>1, ThreeEvents
  <2>3. /\ Of(1) = Ev("TOOL_CALL_START") /\ Of(2) = Ev("TOOL_CALL_ARGS")
        /\ Of(3) = Ev("TOOL_CALL_END")
    BY <1>3, Zenon
  <2> HIDE DEF Of, Ev
  <2> QED
    BY <2>2, <2>3, Zenon
<1>5. T[L + 1] = N /\ T[L + 2] = A /\ T[L + 3] = A
  <2>1. Projector!Rendered(M, Ev("TOOL_CALL_START")) = N
    BY RendersCall
  <2> HIDE DEF N
  <2>2. Projector!Rendered(N, Ev("TOOL_CALL_ARGS")) = A
    BY RendersCall
  <2> HIDE DEF A
  <2>3. Projector!Rendered(A, Ev("TOOL_CALL_END")) = A
    BY RendersCall
  <2> HIDE DEF Ev
  <2> QED
    BY <1>4, <2>1, <2>2, <2>3, Zenon
<1>6. /\ Coherent(W) /\ n \in DOMAIN W /\ W[n].role = "assistant" /\ W[n].of = s
      /\ DOMAIN M \subseteq DOMAIN W /\ \A k \in DOMAIN M : W[k] = M[k]
      /\ \A k \in DOMAIN W \ DOMAIN M : /\ W[k].role = "assistant" /\ W[k].of = s
                                        /\ W[k].calls = << >>
  BY <1>1, WithIsCoherent
<1>7. Matches(W, steps)
  <2>1. M \in Seq(ChatMessage) /\ W \in Seq(ChatMessage)
    BY <1>1, <1>6 DEF Coherent
  <2> HIDE DEF M, W
  <2> QED
    BY <1>1, <1>6, <2>1, MatchesLike, SMTT(30)
<1> HIDE DEF W, n
<1>8. W \in Seq(ChatMessage)
  BY <1>6 DEF Coherent
<1>9. ASSUME NEW k \in DOMAIN W, NEW i \in DOMAIN W[k].calls
      PROVE  W[k].calls[i].id # c
  <2>1. W[k].role = "assistant"
    <3>1. W[k].role \in {"assistant", "tool"}
      BY <1>8, MessageTypes
    <3>2. W[k].role = "tool" => W[k].calls = << >>
      BY <1>7 DEF Matches, OnlySaid
    <3>3. W[k].calls = << >> => DOMAIN W[k].calls = {}
      OBVIOUS
    <3> QED
      BY <3>1, <3>2, <3>3
  <2>2. W[k].of \in Step /\ steps[W[k].of].calls[W[k].calls[i].id] # "none"
    BY <1>7, <2>1, Zenon DEF Matches, OfStep, MadeByStep
  <2>3. ASSUME W[k].calls[i].id = c
        PROVE  FALSE
    <3>1. c \in steps[W[k].of].committed
      BY <2>2, <2>3 DEF ProjectorInv, StepsAgree
    <3>2. W[k].of = s
      BY <2>2, <3>1 DEF ProjectorInv, StepsAgree
    <3> QED
      BY <2>2, <2>3, <3>2
  <2> QED
    BY <2>3
<1>10. \A k \in DOMAIN W : c \notin Projector!CallsOf(W[k])
  BY <1>9 DEF Projector!CallsOf
<1>11. /\ Coherent(N) /\ DOMAIN N = DOMAIN W
       /\ \A k \in DOMAIN W : /\ N[k].role = W[k].role /\ N[k].of = W[k].of
                              /\ k # n => N[k].calls = W[k].calls
       /\ N[n].calls = Append(W[n].calls, [id |-> c, arguments |-> 0])
  BY <1>6, <1>10, CallIsCoherent
<1> HIDE DEF N
<1>12. /\ Coherent(A) /\ DOMAIN A = DOMAIN N
       /\ \A k \in DOMAIN N :
            /\ A[k].role = N[k].role /\ A[k].of = N[k].of
            /\ DOMAIN A[k].calls = DOMAIN N[k].calls
            /\ \A i \in DOMAIN N[k].calls :
                 /\ A[k].calls[i].id = N[k].calls[i].id
                 /\ A[k].calls[i].arguments
                      = N[k].calls[i].arguments + (IF N[k].calls[i].id = c THEN 1 ELSE 0)
  BY <1>11, ArgumentsAreCoherent
<1> HIDE DEF A
<1>13. TranscriptsCohere'
  BY <1>4, <1>5, <1>11, <1>12, Zenon
<1>14. ASSUME NEW k \in DOMAIN W
       PROVE  W[k].calls \in Seq(ChatMade) /\ \A i \in DOMAIN W[k].calls :
                W[k].calls[i].arguments + 0 = W[k].calls[i].arguments
  <2>1. W[k].calls \in Seq(ChatMade)
    BY <1>8, MessageTypes
  <2>2. ASSUME NEW i \in DOMAIN W[k].calls
        PROVE  W[k].calls[i].arguments + 0 = W[k].calls[i].arguments
    <3>1. W[k].calls[i].arguments \in Nat
      BY <2>1, MadeTypes
    <3> QED
      BY <3>1
  <2> QED
    BY <2>1, <2>2
<1>15. ASSUME NEW k \in DOMAIN W, k # n
       PROVE  /\ DOMAIN A[k].calls = DOMAIN W[k].calls
              /\ \A i \in DOMAIN W[k].calls :
                   /\ A[k].calls[i].id = W[k].calls[i].id
                   /\ A[k].calls[i].arguments = W[k].calls[i].arguments
  <2>1. N[k].calls = W[k].calls
    BY <1>11, <1>15
  <2>2. k \in DOMAIN N
    BY <1>11
  <2>3. ASSUME NEW i \in DOMAIN W[k].calls
        PROVE  /\ A[k].calls[i].id = W[k].calls[i].id
               /\ A[k].calls[i].arguments = W[k].calls[i].arguments + 0
    <3>1. W[k].calls[i].id # c
      BY <1>9
    <3>2. i \in DOMAIN N[k].calls
      BY <2>1, <2>3
    <3> QED
      BY <1>12, <2>1, <2>2, <3>1, <3>2
  <2> QED
    BY <1>12, <1>14, <2>1, <2>2, <2>3
<1>16. W[n].calls \in Seq(ChatMade) /\ [id |-> c, arguments |-> 0] \in ChatMade
  BY <1>6, <1>14 DEF ChatMade
<1>17. /\ DOMAIN W[n].calls = 1 .. Len(W[n].calls) /\ Len(W[n].calls) \in Nat
       /\ DOMAIN N[n].calls = 1 .. Len(W[n].calls) + 1
       /\ \A i \in 1 .. Len(W[n].calls) : N[n].calls[i] = W[n].calls[i]
       /\ N[n].calls[Len(W[n].calls) + 1] = [id |-> c, arguments |-> 0]
  BY <1>11, <1>16
<1>18. DOMAIN A[n].calls = 1 .. Len(W[n].calls) + 1
  BY <1>6, <1>11, <1>12, <1>17
<1>19. \A i \in DOMAIN W[n].calls : /\ A[n].calls[i].id = W[n].calls[i].id
                                    /\ A[n].calls[i].arguments = W[n].calls[i].arguments
  <2> SUFFICES ASSUME NEW i \in DOMAIN W[n].calls
               PROVE  /\ A[n].calls[i].id = W[n].calls[i].id
                      /\ A[n].calls[i].arguments = W[n].calls[i].arguments
    OBVIOUS
  <2>1. W[n].calls[i].id # c /\ W[n].calls[i].arguments + 0 = W[n].calls[i].arguments
    BY <1>6, <1>9, <1>14
  <2>2. i \in DOMAIN N[n].calls /\ N[n].calls[i] = W[n].calls[i]
    BY <1>17
  <2>3. n \in DOMAIN N
    BY <1>6, <1>11
  <2> QED
    BY <1>12, <2>1, <2>2, <2>3
<1>20. /\ A[n].calls[Len(W[n].calls) + 1].id = c
       /\ A[n].calls[Len(W[n].calls) + 1].arguments = 1
  <2>1. /\ Len(W[n].calls) + 1 \in DOMAIN N[n].calls /\ n \in DOMAIN N
        /\ N[n].calls[Len(W[n].calls) + 1].id = c
        /\ N[n].calls[Len(W[n].calls) + 1].arguments = 0
    BY <1>6, <1>11, <1>17
  <2> QED
    BY <1>12, <2>1
<1>21. Matches(A, steps')
  <2>1. /\ DOMAIN A = DOMAIN W
        /\ \A k \in DOMAIN W : A[k].role = W[k].role /\ A[k].of = W[k].of
    BY <1>11, <1>12
  <2>2. \A k \in DOMAIN W :
           /\ A[k].role = W[k].role /\ A[k].of = W[k].of
           /\ k # n => /\ DOMAIN A[k].calls = DOMAIN W[k].calls
                       /\ \A i \in DOMAIN W[k].calls :
                            /\ A[k].calls[i].id = W[k].calls[i].id
                            /\ A[k].calls[i].arguments = W[k].calls[i].arguments
    BY <1>15, <2>1, Zenon
  <2>3. DOMAIN A = DOMAIN W /\ Coherent(W) /\ Coherent(A) /\ Matches(W, steps)
    BY <1>6, <1>7, <1>12, <2>1
  <2>4. n \in DOMAIN W /\ W[n].role = "assistant" /\ W[n].of = s
    BY <1>6
  <2>5. CallAdded(W, A, n, c)
    BY <1>18, <1>19, <1>20, <2>2, <2>3, Zenon DEF CallAdded
  <2> QED
    BY <2>3, <2>4, <2>5, MatchesCall
<1>22. TranscriptMatches'
  BY <1>4, <1>5, <1>21, Zenon DEF TranscriptMatches
<1> QED
  BY <1>4, <1>13, <1>22

\* A call is announced.
LEMMA CallAnnounced ==
  ASSUME ProjectorInv, NEW s \in Step, NEW c \in Call, NEW same \in BOOLEAN,
         Projector!ToolCall(s, c, same)
  PROVE  ProjectorInv'
<1>1. CASE ~ steps[s].open \/ ~ Projector!Callable(s, c) \/ ~ same
  <2>1. ended' = "failed" /\ UNCHANGED <<steps, events, past>>
    BY <1>1, Zenon DEF Projector!ToolCall, Projector!Throws
  <2> QED
    BY <2>1 DEF ProjectorInv, ProjectorTypes, StepsAgree, Projector!Complete,
       TranscriptsCohere, TranscriptMatches
<1>2. CASE steps[s].open /\ Projector!Callable(s, c) /\ same
  <2>1. /\ steps' = [steps EXCEPT ![s].calls[c] = "pending"]
        /\ events' = events \o Projector!Three(Projector!Tool, s, c) /\ UNCHANGED <<ended, past>>
        /\ steps[s].open /\ steps[s].assistant /\ c \in steps[s].committed
        /\ steps[s].calls[c] = "none"
    BY <1>2, Zenon DEF Projector!ToolCall, Projector!Emits, Projector!Callable
  <2>2. StepsAgree' /\ steps' \in [Step -> StepRecord] /\ Moved(steps, steps', s, c, "pending")
    BY <2>1, CallMoves
  <2>3. events' \in Seq(LogEvent) /\ TranscriptsCohere' /\ TranscriptMatches'
    BY <2>1, <2>2, CallIsSent
  <2>4. ProjectorTypes'
    BY <2>1, <2>2, <2>3 DEF ProjectorInv, ProjectorTypes
  <2> QED
    BY <2>2, <2>3, <2>4 DEF ProjectorInv
<1> QED
  BY <1>1, <1>2

\* A call is answered.
LEMMA CallAnswered ==
  ASSUME ProjectorInv, NEW s \in Step, NEW c \in Call, Projector!ToolResult(s, c)
  PROVE  ProjectorInv'
<1>1. CASE ~ steps[s].open \/ ~ Projector!Answerable(s, c)
  <2>1. ended' = "failed" /\ UNCHANGED <<steps, events, past>>
    BY <1>1, Zenon DEF Projector!ToolResult, Projector!Throws
  <2> QED
    BY <2>1 DEF ProjectorInv, ProjectorTypes, StepsAgree, Projector!Complete,
       TranscriptsCohere, TranscriptMatches
<1>2. CASE steps[s].open /\ Projector!Answerable(s, c)
  <2> DEFINE L == Len(events)
             T == Projector!Transcripts(events')
             M == Projector!Transcripts(events)[L]
             e == Projector!Event("TOOL_CALL_RESULT", s, c)
  <2>1. /\ steps' = [steps EXCEPT ![s].calls[c] = "settled"]
        /\ events' = events \o <<e>> /\ UNCHANGED <<ended, past>>
        /\ steps[s].open /\ steps[s].calls[c] = "pending"
    BY <1>2, Zenon DEF Projector!ToolResult, Projector!Emits, Projector!Answerable
  <2>2. steps[s].assistant /\ c \in steps[s].committed
    BY <2>1 DEF ProjectorInv, StepsAgree
  <2>3. StepsAgree' /\ steps' \in [Step -> StepRecord] /\ Moved(steps, steps', s, c, "settled")
    BY <2>1, <2>2, CallMoves
  <2>4. Coherent(M) /\ Matches(M, steps) /\ L \in Nat
    BY TranscriptSoFar
  <2>5. <<e>> \in Seq(LogEvent) /\ Len(<<e>>) = 1 /\ <<e>>[1] = e
    BY DEF Projector!Event, LogEvent, LogTypes
  <2>6. T[L + 1] = Append(M, Answer(c)) /\ Len(events') = L + 1
    <3>1. /\ T[L] = M /\ Len(events') = L + Len(<<e>>)
          /\ \A n \in 1 .. Len(<<e>>) : T[L + n] = Projector!Rendered(T[L + n - 1], <<e>>[n])
      BY <2>1, <2>5, LogRenders, Zenon
    <3>2. 1 \in 1 .. Len(<<e>>) /\ L + 1 - 1 = L
      BY <2>4, <2>5
    <3>3. T[L + 1] = Projector!Rendered(M, e)
      BY <2>5, <3>1, <3>2, Zenon
    <3> QED
      BY <2>5, <3>1, <3>3, RendersCall
  <2>7. Coherent(Append(M, Answer(c)))
    <3>1. \E k \in DOMAIN M : Makes(M[k], c)
      BY <2>1, <2>4, Zenon DEF Matches, MadeInMessage
    <3>2. ASSUME NEW k \in DOMAIN M, M[k].role = "tool", M[k].of = c
          PROVE  FALSE
      <4>1. PICK t \in Step : steps[t].calls[c] = "settled"
        BY <2>4, <3>2, Zenon DEF Matches, AnsweredByStep
      <4>2. c \in steps[t].committed
        BY <4>1 DEF ProjectorInv, StepsAgree
      <4>3. t = s
        BY <2>2, <4>2 DEF ProjectorInv, StepsAgree
      <4> QED
        BY <2>1, <4>1, <4>3
    <3> HIDE DEF M
    <3> QED
      BY <2>4, <3>1, <3>2, AnswerIsCoherent
  <2>8. Matches(Append(M, Answer(c)), steps')
    <3>1. steps[s].calls[c] # "none"
      BY <2>1
    <3> HIDE DEF M
    <3> QED
      BY <2>3, <2>4, <3>1, MatchesAnswer
  <2>9. TranscriptsCohere'
    <3>1. \A n \in 1 .. Len(<<e>>) : n = 1
      BY <2>5
    <3>2. \A n \in 1 .. Len(<<e>>) : Coherent(T[L + n])
      BY <2>6, <2>7, <3>1, Zenon
    <3> QED
      BY <2>1, <2>5, <3>2, LogGrows, Zenon
  <2>10. TranscriptMatches'
    BY <2>6, <2>8, Zenon DEF TranscriptMatches
  <2>11. ProjectorTypes'
    <3>1. events' \in Seq(LogEvent)
      BY <2>1, <2>5 DEF ProjectorInv, ProjectorTypes
    <3> QED
      BY <2>1, <2>3, <3>1 DEF ProjectorInv, ProjectorTypes
  <2> QED
    BY <2>3, <2>9, <2>10, <2>11 DEF ProjectorInv
<1> QED
  BY <1>1, <1>2

\* Every notification, and the close, keeps the invariant.
LEMMA ProjectorSteps ==
  ASSUME ProjectorInv, Projector!ProjectorNext \/ UNCHANGED projectorVars
  PROVE  ProjectorInv'
<1>1. CASE Projector!ProjectorNext
  BY <1>1, StepStarted, StepEnded, MessageSaid, CallAnnounced, CallAnswered, ProjectorCloses,
     Zenon DEF Projector!ProjectorNext
<1>2. CASE UNCHANGED projectorVars
  BY <1>2 DEF projectorVars, ProjectorInv, ProjectorTypes, StepsAgree, Projector!Complete,
     TranscriptsCohere, TranscriptMatches
<1> QED
  BY <1>1, <1>2

\* It has the types, and the transcript of the log and of every beginning of it.
LEMMA ProjectorInvIsEnough ==
  ASSUME ProjectorInv
  PROVE  Projector!ProjectorTypeOK /\ Projector!TranscriptAnswersCalls
<1>1. Projector!ProjectorTypeOK
  <2>1. \A s \in Step : steps[s].committed \subseteq Call
    BY StepTypes DEF ProjectorInv
  <2>2. ASSUME NEW n \in DOMAIN events
        PROVE  events[n].step \in Step /\ events[n].call \in Call \cup {Projector!Nobody}
    <3>1. events[n] \in LogEvent
      BY DEF ProjectorInv, ProjectorTypes
    <3> QED
      BY <3>1 DEF LogEvent
  <2> QED
    BY <2>1, <2>2 DEF ProjectorInv, ProjectorTypes, Projector!ProjectorTypeOK
<1> DEFINE T == Projector!Transcripts(events)
<1>2. ASSUME NEW n \in 0 .. Len(events)
      PROVE  /\ T[n] \in Seq(ChatMessage) /\ OneEach(T[n]) /\ AnswersMade(T[n]) /\ MadeOnce(T[n])
  BY DEF ProjectorInv, TranscriptsCohere, Coherent
<1>3. ASSUME ended = "closed", NEW n \in 0 .. Len(events), n = Len(events),
             NEW k \in DOMAIN T[n], NEW i \in DOMAIN T[n][k].calls
      PROVE  /\ T[n][k].calls[i].arguments = 1
             /\ \E j \in DOMAIN T[n] : T[n][j].role = "tool" /\ T[n][j].of = T[n][k].calls[i].id
  <2> DEFINE M == T[n]
  <2>1. Matches(M, steps) /\ M \in Seq(ChatMessage)
    BY <1>2, <1>3, TranscriptSoFar
  <2> HIDE DEF M
  <2> USE <1>3
  <2>2. k \in DOMAIN M /\ i \in DOMAIN M[k].calls
    BY DEF M
  <2>3. M[k].role \in {"assistant", "tool"} /\ M[k].calls \in Seq(ChatMade)
    BY <2>1, <2>2, MessageTypes
  <2>4. M[k].role = "assistant"
    <3>1. M[k].role = "tool" => M[k].calls = << >>
      BY <2>1, <2>2 DEF Matches, OnlySaid
    <3> QED
      BY <2>2, <2>3, <3>1
  <2>5. M[k].calls[i].id \in Call
    BY <2>2, <2>3, MadeTypes
  <2>6. /\ M[k].of \in Step /\ steps[M[k].of].calls[M[k].calls[i].id] # "none"
        /\ M[k].calls[i].arguments = 1
    BY <2>1, <2>2, <2>4, Zenon DEF Matches, OfStep, MadeByStep
  <2>7. /\ M[k].calls[i].id \in steps[M[k].of].committed
        /\ steps[M[k].of].assistant /\ ~ steps[M[k].of].open
    BY <2>5, <2>6 DEF ProjectorInv, StepsAgree
  <2>8. M[k].of \in past
    BY <2>6, <2>7 DEF ProjectorInv, StepsAgree, Projector!Fresh
  <2>9. steps[M[k].of].calls[M[k].calls[i].id] = "settled"
    BY <2>7, <2>8 DEF ProjectorInv, StepsAgree, Projector!Complete
  <2>10. \E j \in DOMAIN M : M[j].role = "tool" /\ M[j].of = M[k].calls[i].id
    BY <2>1, <2>5, <2>6, <2>9, Zenon DEF Matches, AnsweredInMessage
  <2> QED
    BY <2>6, <2>10 DEF M
<1> HIDE DEF T
<1>4. Projector!TranscriptAnswersCalls
  <2> SUFFICES ASSUME NEW n \in 0 .. Len(events)
               PROVE
    LET messages_ == T[n]
        tools    == {k \in DOMAIN messages_ : messages_[k].role = "tool"}
        makes(k, c) == messages_[k].role = "assistant" /\ c \in Projector!CallsOf(messages_[k])
    IN /\ \A j, k \in DOMAIN messages_ :
            j # k => messages_[j].of # messages_[k].of \/ messages_[j].role # messages_[k].role
       /\ \A k \in tools : \E j \in 1 .. k - 1 : makes(j, messages_[k].of)
       /\ \A k \in DOMAIN messages_ : \A i, j \in DOMAIN messages_[k].calls :
            i # j => messages_[k].calls[i].id # messages_[k].calls[j].id
       /\ ended = "closed" /\ n = Len(events) =>
            \A k \in DOMAIN messages_ : \A i \in DOMAIN messages_[k].calls :
              /\ messages_[k].calls[i].arguments = 1
              /\ \E j \in tools : messages_[j].of = messages_[k].calls[i].id
    BY Zenon DEF Projector!TranscriptAnswersCalls, T
  <2>1. OneEach(T[n]) /\ AnswersMade(T[n]) /\ MadeOnce(T[n])
    BY <1>2
  <2> QED
    BY <1>3, <2>1 DEF OneEach, AnswersMade, MadeOnce, Makes
<1> QED
  BY <1>1, <1>4

(***************************************************************************)
(* Together                                                                *)
(***************************************************************************)

LabsInv    == LedgerInv /\ UploadInv /\ AuditInv /\ ToolInv /\ ToolCounts /\ ResourceInv
ScriptsInv == ProbeInv /\ LifeInv /\ SandboxInv /\ LaunchInv /\ ImageInv /\ RoundsInv
PagesInv   == WebInv /\ ChatInv /\ FramesInv /\ ProjectorInv
PartsInv   == LabsInv /\ ScriptsInv /\ PagesInv /\ FakeInv /\ FakeCounts

\* A step of one of them leaves the others alone.
LEMMA EachMoves ==
  ASSUME [MCNext]_allVars
  PROVE  /\ LedgerNext \/ UNCHANGED ledgerVars
         /\ Proxied!ProxyNext \/ UNCHANGED uploadVars
         /\ Audit!AuditNext \/ UNCHANGED auditVars
         /\ Tool!ToolNext \/ UNCHANGED toolVars
         /\ Probe!ProbeNext \/ UNCHANGED probeVars
         /\ Child!LifeNext \/ UNCHANGED childVars
         /\ Web!ClientNext \/ UNCHANGED webVars
         /\ Chat!ChatNext \/ UNCHANGED chatVars
         /\ Projector!ProjectorNext \/ UNCHANGED projectorVars
         /\ Sandbox!SandboxNext \/ UNCHANGED sandboxVars
         /\ Launcher!LaunchNext \/ UNCHANGED launcherVars
         /\ Images!ImageNext \/ UNCHANGED imagesVars
         /\ Rounds!TrialNext \/ UNCHANGED roundsVars
         /\ Fake!FakeNext \/ UNCHANGED fakeVars
         /\ Resource!ResourceNext \/ UNCHANGED resourceVars
         /\ Frames!FramesNext \/ UNCHANGED framesVars
<1>1. CASE MCNext
  BY <1>1, Zenon DEF MCNext
<1>2. CASE UNCHANGED allVars
  BY <1>2 DEF allVars
<1> QED
  BY <1>1, <1>2

\* Each part starts in its invariant.
LEMMA PartsStart ==
  ASSUME MCInit
  PROVE  PartsInv
<1> USE NothingIsNothing, PartsAreCounted, BoundsAreNumbers
<1>1. /\ LedgerInit /\ Proxied!ProxyInit /\ Audit!AuditInit /\ Tool!ToolInit
      /\ Probe!ProbeInit /\ Child!LifeInit /\ Web!ClientInit /\ Chat!ChatInit
      /\ Projector!ProjectorInit /\ Sandbox!SandboxInit /\ Launcher!LaunchInit /\ Images!ImageInit
      /\ Rounds!TrialInit /\ Fake!FakeInit /\ Resource!ResourceInit /\ Frames!FramesInit
  BY Zenon DEF MCInit
<1>2. LabsInv
  BY <1>1, LedgerStarts, UploadStarts, AuditStarts, ToolStarts, ResourceStarts DEF LabsInv
<1>3. ScriptsInv
  BY <1>1, ProbeStarts, LifeStarts, SandboxStarts, LaunchStarts, ImageStarts, RoundsStart
     DEF ScriptsInv
<1>4. PagesInv
  BY <1>1, WebStarts, ChatStarts, FramesStart, ProjectorStarts DEF PagesInv
<1>5. FakeInv /\ FakeCounts
  BY <1>1, FakeStarts, FakeCountsStart
<1> QED
  BY <1>2, <1>3, <1>4, <1>5 DEF PartsInv

\* Each step keeps the invariant of the part it is of, and of the others.
LEMMA PartsSteps ==
  ASSUME PartsInv, [MCNext]_allVars
  PROVE  PartsInv'
<1> USE NothingIsNothing, PartsAreCounted, BoundsAreNumbers
<1>1. None \notin Session /\ None \notin Call
  OBVIOUS
<1>2. LabsInv'
  <2>1. LedgerInv'
    BY <1>1, EachMoves, LedgerSteps DEF PartsInv, LabsInv
  <2>2. UploadInv'
    BY EachMoves, UploadSteps DEF PartsInv, LabsInv
  <2>3. AuditInv'
    BY <1>1, EachMoves, AuditSteps DEF PartsInv, LabsInv
  <2>4. ToolInv' /\ ToolCounts'
    BY EachMoves, ToolSteps, ToolCounting DEF PartsInv, LabsInv
  <2>5. ResourceInv'
    BY EachMoves, ResourceSteps DEF PartsInv, LabsInv
  <2> QED
    BY <2>1, <2>2, <2>3, <2>4, <2>5 DEF LabsInv
<1>3. ScriptsInv'
  <2>1. ProbeInv' /\ LifeInv'
    BY EachMoves, ProbeSteps, LifeSteps DEF PartsInv, ScriptsInv
  <2>2. SandboxInv' /\ LaunchInv'
    BY EachMoves, SandboxSteps, LaunchSteps DEF PartsInv, ScriptsInv
  <2>3. ImageInv' /\ RoundsInv'
    BY EachMoves, ImageSteps, RoundsSteps DEF PartsInv, ScriptsInv
  <2> QED
    BY <2>1, <2>2, <2>3 DEF ScriptsInv
<1>4. PagesInv'
  <2>1. WebInv'
    BY EachMoves, WebSteps DEF PartsInv, PagesInv
  <2>2. ChatInv' /\ FramesInv'
    BY EachMoves, ChatSteps, FramesSteps DEF PartsInv, PagesInv
  <2>3. ProjectorInv'
    BY EachMoves, ProjectorSteps DEF PartsInv, PagesInv
  <2> QED
    BY <2>1, <2>2, <2>3 DEF PagesInv
<1>5. FakeInv' /\ FakeCounts'
  BY EachMoves, FakeSteps, FakeCounting DEF PartsInv
<1> QED
  BY <1>2, <1>3, <1>4, <1>5 DEF PartsInv

\* Every part keeps its invariant.
THEOREM PartsInvariance == MCSpec => []PartsInv
BY PartsStart, PartsSteps, PTL DEF MCSpec

\* Every variable of every part has its type, for every value of the constants.
THEOREM PartsTyped == MCSpec => []PartsTypeOK
<1> USE NothingIsNothing, PartsAreCounted, BoundsAreNumbers
<1>1. ASSUME PartsInv
      PROVE  PartsTypeOK
  <2> USE <1>1 DEF PartsInv
  <2>1. LedgerTypeOK
    BY LedgerTyped DEF LabsInv
  <2>2. Proxied!ProxyTypeOK
    BY UploadInvIsEnough DEF LabsInv
  <2>3. Audit!AuditTypeOK
    BY DEF LabsInv, AuditInv
  <2>4. Tool!ToolTypeOK
    BY ToolInvIsEnough DEF LabsInv
  <2>5. Resource!ResourceTypeOK
    BY DEF LabsInv, ResourceInv
  <2>6. Probe!ProbeTypeOK /\ Child!LifeTypeOK
    BY DEF ScriptsInv, ProbeInv, LifeInv
  <2>7. Sandbox!SandboxTypeOK /\ Launcher!LaunchTypeOK
    BY DEF ScriptsInv, SandboxInv, LaunchInv
  <2>8. Images!ImageTypeOK /\ Rounds!TrialTypeOK
    BY DEF ScriptsInv, ImageInv, RoundsInv
  <2>9. Web!ClientTypeOK
    BY WebInvIsEnough DEF PagesInv
  <2>10. Chat!ChatTypeOK /\ Frames!FramesTypeOK
    BY ChatInvIsEnough DEF PagesInv, FramesInv
  <2>11. Projector!ProjectorTypeOK
    BY ProjectorInvIsEnough DEF PagesInv
  <2>12. Fake!FakeTypeOK
    BY FakeTypesAreEnough
  <2> QED
    BY <2>1, <2>2, <2>3, <2>4, <2>5, <2>6, <2>7, <2>8, <2>9, <2>10, <2>11, <2>12
       DEF PartsTypeOK
<1> QED
  BY <1>1, PartsInvariance, PTL

\* In whatever order records arrive, however often the process dies and whatever a write
\* leaves, no attempt belongs to two runs, and what is checkpointed can be loaded.
THEOREM LedgerSoundness == MCSpec => []LedgerIsSound
<1>1. PartsInv => LedgerIsSound
  BY NothingIsNothing, LedgerInvIsSound DEF PartsInv, LabsInv
<1> QED
  BY <1>1, PartsInvariance, PTL

\* No step of a ledger makes an account smaller than the one in its file: neither the number
\* of attempts nor the sum of what they reported.
THEOREM AccountsOnlyGrow == MCSpec => AccountsGrow
<1>1. ASSUME PartsInv, [MCNext]_allVars
      PROVE  [AccountsKept]_ledgerVars
  <2>1. None \notin Session /\ Tokens \subseteq Nat
    BY NothingIsNothing, PartsAreCounted
  <2> QED
    BY <1>1, <2>1, EachMoves, AccountsStep DEF PartsInv, LabsInv
<1> QED
  BY <1>1, PartsInvariance, PTL DEF MCSpec, AccountsGrow

\* Whenever the proxy dies, the file it recovers from accounts for every file of the service,
\* whatever uploads, deletions and writes of that file are under way.
THEOREM RecoveryIsPossible == MCSpec => []RecoveryFileCovers
<1>1. PartsInv => RecoveryFileCovers
  BY PartsAreCounted, UploadInvIsEnough DEF PartsInv, LabsInv, RecoveryFileCovers
<1> QED
  BY <1>1, PartsInvariance, PTL

\* A cleanup that reports success has left no file at the service.
THEOREM HonestCleanup == MCSpec => CleanupIsHonest
<1>1. ASSUME PartsInv, [MCNext]_allVars
      PROVE  [deletion["cleanup"].at # "done" /\ deletion'["cleanup"].at = "done"
                => remote' = {}]_(Proxied!proxyVars)
  BY <1>1, EachMoves, CleanupEndsClean DEF PartsInv, LabsInv
<1> QED
  BY <1>1, PartsInvariance, PTL DEF MCSpec, CleanupIsHonest, Proxied!CleanupIsHonest

\* Every live tool result of the audit is made durable once or reported.
THEOREM AuditTells == MCSpec => []AuditTellsCalls
<1>1. PartsInv => AuditTellsCalls
  BY AuditInvIsEnough DEF PartsInv, LabsInv, AuditTellsCalls
<1> QED
  BY <1>1, PartsInvariance, PTL

\* Whatever answer comes late, the page shows the run and the chat it is about, and every
\* frame of its stream once and in order.
THEOREM PagesTell == MCSpec => []PageTellsTruth
<1>1. PartsInv => PageTellsTruth
  BY WebInvIsEnough, ChatInvIsEnough, FramesInvIsEnough DEF PartsInv, PagesInv, PageTellsTruth
<1> QED
  BY <1>1, PartsInvariance, PTL

\* The transcript of every log the projector can write, and of every beginning of it, answers
\* only calls that were made, each once, and all of them once the run is closed.
THEOREM TranscriptsAnswer == MCSpec => []TranscriptAnswersCalls
<1>1. PartsInv => TranscriptAnswersCalls
  BY ProjectorInvIsEnough DEF PartsInv, PagesInv, TranscriptAnswersCalls
<1> QED
  BY <1>1, PartsInvariance, PTL

\* No attempt takes the proof of another; a resource that could not be given back is known
\* to be leaked; and the fake runtime fails only the runs that were to fail.
THEOREM ExactAttempts == MCSpec => []AttemptsAreExact
<1>1. PartsInv => AttemptsAreExact
  BY NothingIsNothing, ToolInvIsEnough, ResourceInvIsEnough
     DEF PartsInv, LabsInv, FakeInv, AttemptsAreExact
<1> QED
  BY <1>1, PartsInvariance, PTL

\* No script claims success over a process, a file or a listener it has left behind.
THEOREM HonestVerdicts == MCSpec => []VerdictsAreHonest
<1>1. ASSUME PartsInv
      PROVE  VerdictsAreHonest
  <2>1. Probe!AnswerMeansGone /\ Sandbox!VerdictMeansConfined /\ Launcher!LauncherTellsTruth
    BY <1>1 DEF PartsInv, ScriptsInv, ProbeInv, SandboxInv, LaunchInv
  <2>2. Child!ReportIsTruthful /\ Images!RemovalIsEarned /\ Rounds!TrialIsCold
    BY <1>1, LifeInvIsEnough, ImageInvIsEnough, RoundsInvIsEnough DEF PartsInv, ScriptsInv
  <2> QED
    BY <2>1, <2>2 DEF VerdictsAreHonest
<1> QED
  BY <1>1, PartsInvariance, PTL

================================================================================
