---------------------------- MODULE SearchProofs ----------------------------
(***************************************************************************)
(* What the search answers, whatever sections are open: nothing or a way   *)
(* to the target.  The search is a recursive function on the set of open   *)
(* sections.  That it satisfies its own equation is proved first, then     *)
(* what it returns; both by taking a smallest set of sections for which    *)
(* the statement fails.                                                    *)
(***************************************************************************)
EXTENDS Search, FiniteSetTheorems, WellFoundedInduction, TLAPS

(* A set of subsets of a finite set has an element with no smaller one.    *)
LEMMA SmallestSubset ==
    ASSUME NEW S, IsFiniteSet(S), NEW T \in SUBSET SUBSET S, T # {}
    PROVE  \E U \in T : \A V \in T : V \subseteq U => V = U
<1>1. FiniteSubsetsOf(S) = SUBSET S
    BY FS_FiniteSubsetsOfFinite
<1>2. IsWellFoundedOn(StrictSubsetOrdering(S), SUBSET S)
    BY <1>1, FS_StrictSubsetOrderingWellFounded
<1>3. PICK U \in T : \A V \in T : ~ (<<V, U>> \in StrictSubsetOrdering(S))
    BY <1>2, WFMin
<1>4. \A V \in T : V \subseteq U => V = U
    BY <1>3 DEF StrictSubsetOrdering
<1> QED
    BY <1>4

(* So does a set of sets of sections.                                      *)
LEMMA SmallestSet ==
    ASSUME NEW T \in SUBSET SUBSET Sections, T # {}
    PROVE  \E U \in T : \A V \in T : V \subseteq U => V = U
<1>1. 1 \in Int /\ 16 \in Int
    OBVIOUS
<1>2. IsFiniteSet(Sections)
    BY <1>1, FS_Interval, Zenon DEF Sections
<1> QED
    BY <1>2, SmallestSubset

(* A set of numbers within bounds has a lowest one.                        *)
LEMMA LowestNumber ==
    ASSUME NEW a \in Int, NEW b \in Int, NEW T \in SUBSET (a .. b), T # {}
    PROVE  \E m \in T : \A n \in T : m <= n
<1> DEFINE upTo(n) == {k \in T : k <= n}
           L == {upTo(n) : n \in T}
<1>1. T \subseteq Int
    OBVIOUS
<1>2. PICK U \in L : \A V \in L : V \subseteq U => V = U
  <2> DEFINE S == a .. b
  <2>1. L \in SUBSET SUBSET S /\ L # {}
    OBVIOUS
  <2>2. IsFiniteSet(S)
    BY FS_Interval, Zenon
  <2> HIDE DEF L, S
  <2> QED
    BY <2>1, <2>2, SmallestSubset
<1>3. PICK m \in T : U = upTo(m)
    OBVIOUS
<1>4. ASSUME NEW n \in T, ~ (m <= n)
      PROVE  FALSE
  <2>1. upTo(n) \subseteq upTo(m)
    <3>1. \A i, j, k \in Int : ~ (i <= j) /\ k <= j => k <= i
      OBVIOUS
    <3>2. m \in Int /\ n \in Int
      BY <1>1
    <3>3. SUFFICES ASSUME NEW k \in T, k <= n PROVE k <= m
      OBVIOUS
    <3>4. k \in Int
      BY <1>1
    <3> QED
      BY <1>4, <3>1, <3>2, <3>3, <3>4
  <2>2. upTo(n) = upTo(m)
    BY <1>2, <1>3, <2>1
  <2>3. m \in upTo(m)
    BY <1>1
  <2> QED
    BY <1>4, <2>2, <2>3
<1> QED
    BY <1>4

(* A set of sections has a lowest.                                         *)
LEMMA LowestSection ==
    ASSUME NEW T \in SUBSET Sections, T # {}
    PROVE  \E m \in T : \A n \in T : m <= n
<1>1. 1 \in Int /\ 16 \in Int
    OBVIOUS
<1> QED
    BY <1>1, LowestNumber DEF Sections

-----------------------------------------------------------------------------
(* What is found from the exits of s when the routes of smaller sets of    *)
(* sections are known, and the answers for a set of open sections.         *)
Given(route, p, s, open) ==
    {route[open \ {e}][s][e] : e \in Exits(p, s) \cap open} \ {<<>>}

Answer(target, route, open) ==
    [p \in Sections |-> [s \in Sections |->
        IF s = target THEN <<s>>
        ELSE IF Given(route, p, s, open) = {} THEN <<>>
        ELSE <<s>> \o FirstFound(Given(route, p, s, open))]]

Solves(target, route, U) ==
    route = [open \in SUBSET U |-> Answer(target, route, open)]

(* The answers depend on the sets that lack one of the open sections.      *)
LEMMA AnswerLocal ==
    ASSUME NEW target, NEW g, NEW h, NEW open,
           \A e \in open : g[open \ {e}] = h[open \ {e}]
    PROVE  Answer(target, g, open) = Answer(target, h, open)
<1>1. ASSUME NEW p, NEW s
      PROVE  Given(g, p, s, open) = Given(h, p, s, open)
    BY DEF Given
<1> QED
    BY <1>1 DEF Answer

(* Two solutions agree where both are defined.                             *)
LEMMA SolutionsAgree ==
    ASSUME NEW target, NEW g, NEW h,
           NEW U \in SUBSET Sections, NEW W \in SUBSET Sections,
           Solves(target, g, U), Solves(target, h, W)
    PROVE  \A V \in SUBSET (U \cap W) : g[V] = h[V]
<1> DEFINE T == {V \in SUBSET (U \cap W) : g[V] # h[V]}
<1> SUFFICES ASSUME T # {} PROVE FALSE
    OBVIOUS
<1>1. PICK V \in T : \A X \in T : X \subseteq V => X = V
  <2>1. T \in SUBSET SUBSET Sections
    OBVIOUS
  <2> HIDE DEF T
  <2> QED
    BY <2>1, SmallestSet
<1>2. \A e \in V : g[V \ {e}] = h[V \ {e}]
    BY <1>1
<1>3. g[V] = Answer(target, g, V)
    BY DEF Solves
<1>4. h[V] = Answer(target, h, V)
    BY DEF Solves
<1> QED
    BY <1>2, <1>3, <1>4, AnswerLocal

(* There is a solution on every set of sections.                           *)
LEMMA SolutionExists ==
    ASSUME NEW target
    PROVE  \A U \in SUBSET Sections : \E g : Solves(target, g, U)
<1> DEFINE T == {U \in SUBSET Sections : ~ \E g : Solves(target, g, U)}
<1> SUFFICES ASSUME T # {} PROVE FALSE
    OBVIOUS
<1>1. PICK U \in T : \A X \in T : X \subseteq U => X = U
  <2>1. T \in SUBSET SUBSET Sections
    OBVIOUS
  <2> HIDE DEF T
  <2> QED
    BY <2>1, SmallestSet
<1> DEFINE gs(V) == CHOOSE g : Solves(target, g, V)
           below == [V \in SUBSET U |-> gs(V)[V]]
           h == [V \in SUBSET U |-> Answer(target, below, V)]
<1>2. \A V \in SUBSET U : V # U => Solves(target, gs(V), V)
    BY <1>1
<1>3. ASSUME NEW V \in SUBSET U, V # U
      PROVE  h[V] = below[V]
  <2>1. Solves(target, gs(V), V)
    BY <1>2, <1>3
  <2>2. ASSUME NEW e \in V
        PROVE  below[V \ {e}] = gs(V)[V \ {e}]
    <3>1. Solves(target, gs(V \ {e}), V \ {e})
      BY <1>2
    <3>2. V \in SUBSET Sections /\ V \ {e} \in SUBSET Sections
      OBVIOUS
    <3>3. V \ {e} \in SUBSET ((V \ {e}) \cap V)
      OBVIOUS
    <3> HIDE DEF gs
    <3>4. gs(V \ {e})[V \ {e}] = gs(V)[V \ {e}]
      BY <2>1, <3>1, <3>2, <3>3, SolutionsAgree
    <3> QED
      BY <3>4
  <2>3. Answer(target, below, V) = Answer(target, gs(V), V)
    <3> HIDE DEF gs, below
    <3> QED
      BY <2>2, AnswerLocal
  <2>4. gs(V)[V] = Answer(target, gs(V), V)
    <3> HIDE DEF gs
    <3> QED
      BY <2>1 DEF Solves
  <2> QED
    BY <2>3, <2>4
<1>4. ASSUME NEW V \in SUBSET U
      PROVE  Answer(target, below, V) = Answer(target, h, V)
  <2>1. \A e \in V : below[V \ {e}] = h[V \ {e}]
    <3>1. \A e \in V : V \ {e} \in SUBSET U /\ V \ {e} # U
      OBVIOUS
    <3> QED
      BY <1>3, <3>1
  <2> HIDE DEF below, h
  <2> QED
    BY <2>1, AnswerLocal
<1>5. Solves(target, h, U)
  <2> HIDE DEF below
  <2>1. h = [V \in SUBSET U |-> Answer(target, h, V)]
    BY <1>4
  <2> QED
    BY <2>1 DEF Solves
<1> QED
    BY <1>1, <1>5

(* The recursive function of Search satisfies the equation that defines it.*)
LEMMA RoutesDef ==
    ASSUME NEW target, NEW open \in SUBSET Sections
    PROVE  Routes(target)[open] = Answer(target, Routes(target), open)
<1>1. Routes(target) = CHOOSE g : Solves(target, g, Sections)
    BY DEF Routes, Solves, Answer, Given
<1>2. \E g : Solves(target, g, Sections)
    BY SolutionExists
<1>3. Solves(target, Routes(target), Sections)
    BY <1>1, <1>2
<1> QED
    BY <1>3 DEF Solves
-----------------------------------------------------------------------------
(* A way from s, entered from p, to the target over open sections: every   *)
(* step takes an exit that the section entered that way has, and no        *)
(* section comes twice.                                                    *)
Before(r, p, i) == IF i = 1 THEN p ELSE r[i - 1]

Leads(r, p, s, target, open) ==
    /\ r \in Seq(Sections) /\ Len(r) \in Nat \ {0}
    /\ r[1] = s /\ r[Len(r)] = target
    /\ \A i \in 1 .. Len(r) - 1 :
         r[i + 1] \in Exits(Before(r, p, i), r[i]) \cap open
    /\ \A i, j \in 1 .. Len(r) : r[i] = r[j] => i = j

(* A section put before a way from one of its exits.                       *)
LEMMA LeadsOn ==
    ASSUME NEW open \in SUBSET Sections, NEW p \in Sections, NEW s \in Sections,
           NEW e \in Exits(p, s) \cap open, NEW target, s \notin open,
           NEW r, Leads(r, s, e, target, open \ {e})
    PROVE  Leads(<<s>> \o r, p, s, target, open)
<1> DEFINE w == <<s>> \o r
           n == Len(r)
<1>1. r \in Seq(Sections) /\ n \in Nat \ {0} /\ r[1] = e /\ r[n] = target
    BY DEF Leads
<1>2. /\ w \in Seq(Sections) /\ Len(w) = n + 1
      /\ w[1] = s
      /\ \A i \in 1 .. n : w[i + 1] = r[i]
    BY <1>1
<1>3. w[n + 1] = target
    BY <1>1, <1>2
<1>4. \A i \in 1 .. n - 1 : r[i + 1] \in Exits(Before(r, s, i), r[i]) \cap (open \ {e})
    BY DEF Leads
<1>5. \A i, j \in 1 .. n : r[i] = r[j] => i = j
    BY DEF Leads
<1> HIDE DEF w, n
<1>6. ASSUME NEW i \in 1 .. n
      PROVE  w[i + 1] \in Exits(Before(w, p, i), w[i]) \cap open
  <2>1. CASE i = 1
    <3>1. w[i + 1] = e /\ w[i] = s /\ Before(w, p, i) = p
      BY <1>1, <1>2, <2>1 DEF Before
    <3> QED
      BY <3>1
  <2>2. CASE i # 1
    <3> DEFINE k == i - 1
    <3>1. k \in 1 .. n - 1 /\ k \in 1 .. n /\ k + 1 = i /\ k \in Nat
      BY <1>1, <2>2
    <3> HIDE DEF k
    <3>2. w[i] = r[k] /\ w[i + 1] = r[k + 1]
      BY <1>2, <3>1
    <3>3. Before(w, p, i) = Before(r, s, k)
      <4>1. CASE k = 1
        BY <1>2, <3>1, <4>1 DEF Before
      <4>2. CASE k # 1
        <5>1. k - 1 \in 1 .. n /\ i - 1 = (k - 1) + 1 /\ i # 1
          BY <1>1, <3>1, <4>2
        <5> QED
          BY <1>2, <4>2, <5>1 DEF Before
      <4> QED
        BY <4>1, <4>2
    <3>4. r[k + 1] \in Exits(Before(r, s, k), r[k]) \cap (open \ {e})
      BY <1>4, <3>1
    <3> QED
      BY <3>2, <3>3, <3>4
  <2> QED
    BY <2>1, <2>2
<1>7. \A j \in 1 .. n : r[j] # s
  <2> SUFFICES ASSUME NEW j \in 1 .. n PROVE r[j] \in open
    OBVIOUS
  <2>1. CASE j = 1
    BY <1>1, <2>1
  <2>2. CASE j # 1
    <3>1. j - 1 \in 1 .. n - 1 /\ (j - 1) + 1 = j
      BY <1>1, <2>2
    <3> QED
      BY <1>4, <3>1
  <2> QED
    BY <2>1, <2>2
<1>8. ASSUME NEW i \in 1 .. n + 1, NEW j \in 1 .. n + 1, w[i] = w[j]
      PROVE  i = j
  <2>1. ASSUME NEW k \in 1 .. n + 1, k # 1
        PROVE  k - 1 \in 1 .. n /\ w[k] = r[k - 1]
    <3>1. k - 1 \in 1 .. n /\ (k - 1) + 1 = k
      BY <1>1, <2>1
    <3> QED
      BY <1>2, <3>1
  <2>2. CASE i = 1 /\ j # 1
    BY <1>2, <1>7, <1>8, <2>1, <2>2
  <2>3. CASE i # 1 /\ j = 1
    BY <1>2, <1>7, <1>8, <2>1, <2>3
  <2>4. CASE i # 1 /\ j # 1
    <3>1. i - 1 = j - 1
      BY <1>5, <1>8, <2>1, <2>4
    <3> QED
      BY <1>1, <3>1
  <2> QED
    BY <2>2, <2>3, <2>4
<1>9. (n + 1) - 1 = n /\ n + 1 \in Nat \ {0}
    BY <1>1
<1> QED
    BY <1>2, <1>3, <1>6, <1>8, <1>9 DEF Leads, w

(* Of a set of routes from open sections the first one found is one.       *)
LEMMA FirstFoundIn ==
    ASSUME NEW routes, routes # {}, \A r \in routes : r[1] \in Sections
    PROVE  FirstFound(routes) \in routes
<1>1. {r[1] : r \in routes} \in SUBSET Sections /\ {r[1] : r \in routes} # {}
    OBVIOUS
<1>2. \E m \in {r[1] : r \in routes} : \A n \in {r[1] : r \in routes} : m <= n
    BY <1>1, LowestSection
<1>3. \E r \in routes : \A q \in routes : r[1] <= q[1]
    BY <1>2
<1> QED
    BY <1>3 DEF FirstFound

(* Whatever is open, the search answers with such a way or with nothing.   *)
LEMMA RoutesLead ==
    ASSUME NEW target \in Sections
    PROVE  \A open \in SUBSET Sections : \A p, s \in Sections :
             s \notin open =>
               \/ Routes(target)[open][p][s] = <<>>
               \/ Leads(Routes(target)[open][p][s], p, s, target, open)
<1> DEFINE f == Routes(target)
           Good(open) == \A p, s \in Sections : s \notin open =>
               f[open][p][s] = <<>> \/ Leads(f[open][p][s], p, s, target, open)
           T == {open \in SUBSET Sections : ~ Good(open)}
<1> SUFFICES ASSUME T # {} PROVE FALSE
    OBVIOUS
<1>1. PICK U \in T : \A V \in T : V \subseteq U => V = U
  <2>1. T \in SUBSET SUBSET Sections
    OBVIOUS
  <2> HIDE DEF T
  <2> QED
    BY <2>1, SmallestSet
<1>2. U \in SUBSET Sections /\ ~ Good(U)
    OBVIOUS
<1>3. \A e \in U : Good(U \ {e})
    BY <1>1
<1>4. f[U] = Answer(target, f, U)
    BY <1>2, RoutesDef
<1> HIDE DEF f, T
<1>5. ASSUME NEW p \in Sections, NEW s \in Sections, s \notin U
      PROVE  f[U][p][s] = <<>> \/ Leads(f[U][p][s], p, s, target, U)
  <2> DEFINE G == Given(f, p, s, U)
  <2>1. f[U][p][s] = IF s = target THEN <<s>>
                     ELSE IF G = {} THEN <<>> ELSE <<s>> \o FirstFound(G)
    BY <1>4 DEF Answer
  <2>2. CASE s = target
    <3>1. f[U][p][s] = <<s>>
      BY <2>1, <2>2
    <3>2. Leads(<<s>>, p, s, target, U)
      BY <2>2 DEF Leads
    <3> QED
      BY <3>1, <3>2
  <2>3. ASSUME NEW r \in G
        PROVE  \E e \in Exits(p, s) \cap U : Leads(r, s, e, target, U \ {e})
    <3>1. PICK e \in Exits(p, s) \cap U : r = f[U \ {e}][s][e] /\ r # <<>>
      BY DEF Given
    <3>2. e \in Sections /\ e \notin U \ {e}
      BY <1>2
    <3>3. Leads(r, s, e, target, U \ {e})
      BY <1>3, <3>1, <3>2
    <3> QED
      BY <3>3
  <2>4. CASE s # target /\ G # {}
    <3>1. \A r \in G : r[1] \in Sections
      BY <1>2, <2>3 DEF Leads
    <3> HIDE DEF G
    <3>2. FirstFound(G) \in G
      BY <2>4, <3>1, FirstFoundIn
    <3>3. PICK e \in Exits(p, s) \cap U : Leads(FirstFound(G), s, e, target, U \ {e})
      BY <2>3, <3>2
    <3>4. Leads(<<s>> \o FirstFound(G), p, s, target, U)
      BY <1>2, <1>5, <3>3, LeadsOn
    <3> QED
      BY <2>1, <2>4, <3>4
  <2> QED
    BY <2>1, <2>2, <2>4
<1> QED
    BY <1>2, <1>5
(* A way without its first section.                                        *)
LEMMA LeadsFrom ==
    ASSUME NEW open \in SUBSET Sections, NEW p, NEW s \in Sections, NEW target,
           s # target, NEW w, Leads(w, p, s, target, open)
    PROVE  /\ w[2] \in Exits(p, s) \cap open
           /\ Leads(Tail(w), s, w[2], target, open \ {w[2]})
<1> DEFINE n == Len(w)
           r == Tail(w)
<1>1. /\ w \in Seq(Sections) /\ n \in Nat \ {0} /\ w[1] = s /\ w[n] = target
      /\ \A i \in 1 .. n - 1 : w[i + 1] \in Exits(Before(w, p, i), w[i]) \cap open
      /\ \A i, j \in 1 .. n : w[i] = w[j] => i = j
    BY DEF Leads
<1>2. n > 1
    BY <1>1
<1>3. /\ r \in Seq(Sections) /\ Len(r) = n - 1
      /\ \A i \in 1 .. n - 1 : r[i] = w[i + 1]
    BY <1>1, <1>2
<1> HIDE DEF n, r
<1>4. w[2] \in Exits(p, s) \cap open
  <2>1. 1 \in 1 .. n - 1 /\ 1 + 1 = 2
    BY <1>1, <1>2
  <2>2. w[1 + 1] \in Exits(Before(w, p, 1), w[1]) \cap open
    BY <1>1, <2>1
  <2> QED
    BY <1>1, <2>1, <2>2 DEF Before
<1>5. r[1] = w[2] /\ r[n - 1] = target
  <2>1. 1 \in 1 .. n - 1 /\ n - 1 \in 1 .. n - 1 /\ (n - 1) + 1 = n /\ 1 + 1 = 2
    BY <1>1, <1>2
  <2> QED
    BY <1>1, <1>3, <2>1
<1>6. ASSUME NEW i \in 1 .. (n - 1) - 1
      PROVE  r[i + 1] \in Exits(Before(r, s, i), r[i]) \cap (open \ {w[2]})
  <2> DEFINE k == i + 1
  <2>1. /\ k \in 1 .. n - 1 /\ i \in 1 .. n - 1 /\ k - 1 = i /\ k # 1
        /\ k + 1 \in 1 .. n /\ 2 \in 1 .. n /\ k + 1 # 2
    BY <1>1
  <2> HIDE DEF k
  <2>2. r[k] = w[k + 1] /\ r[i] = w[k]
    BY <1>3, <2>1 DEF k
  <2>3. Before(r, s, i) = Before(w, p, k)
    <3>1. CASE i = 1
      BY <1>1, <2>1, <3>1 DEF Before
    <3>2. CASE i # 1
      <4>1. i - 1 \in 1 .. n - 1 /\ (i - 1) + 1 = i
        BY <1>1, <2>1, <3>2
      <4>2. r[i - 1] = w[i]
        BY <1>3, <4>1
      <4> QED
        BY <2>1, <3>2, <4>2 DEF Before
    <3> QED
      BY <3>1, <3>2
  <2>4. w[k + 1] \in Exits(Before(w, p, k), w[k]) \cap open
    BY <1>1, <2>1
  <2>5. w[k + 1] # w[2]
    BY <1>1, <2>1
  <2> QED
    BY <2>2, <2>3, <2>4, <2>5 DEF k
<1>7. ASSUME NEW i \in 1 .. n - 1, NEW j \in 1 .. n - 1, r[i] = r[j]
      PROVE  i = j
  <2>1. i + 1 \in 1 .. n /\ j + 1 \in 1 .. n
    BY <1>1
  <2>2. w[i + 1] = w[j + 1]
    BY <1>3, <1>7
  <2>3. i + 1 = j + 1
    BY <1>1, <2>1, <2>2
  <2> QED
    BY <1>1, <2>3
<1>8. n - 1 \in Nat \ {0}
    BY <1>1, <1>2
<1> QED
    BY <1>3, <1>4, <1>5, <1>6, <1>7, <1>8 DEF Leads, r

(* What the exits of a section give begins with them.                      *)
LEMMA GivenLead ==
    ASSUME NEW target \in Sections, NEW open \in SUBSET Sections,
           NEW p \in Sections, NEW s \in Sections,
           NEW r \in Given(Routes(target), p, s, open)
    PROVE  \E e \in Exits(p, s) \cap open : Leads(r, s, e, target, open \ {e})
<1>1. PICK e \in Exits(p, s) \cap open : r = Routes(target)[open \ {e}][s][e] /\ r # <<>>
    BY DEF Given
<1>2. e \in Sections /\ e \notin open \ {e} /\ open \ {e} \in SUBSET Sections
    OBVIOUS
<1>3. Leads(r, s, e, target, open \ {e})
    BY <1>1, <1>2, RoutesLead
<1> QED
    BY <1>3

(* Where there is such a way, the search finds one.                        *)
LEMMA RoutesComplete ==
    ASSUME NEW target \in Sections
    PROVE  \A open \in SUBSET Sections : \A p, s \in Sections : \A w :
             s \notin open /\ Leads(w, p, s, target, open) =>
               Routes(target)[open][p][s] # <<>>
<1> DEFINE f == Routes(target)
           Good(open) == \A p, s \in Sections : \A w :
               s \notin open /\ Leads(w, p, s, target, open) => f[open][p][s] # <<>>
           T == {open \in SUBSET Sections : ~ Good(open)}
<1> SUFFICES ASSUME T # {} PROVE FALSE
    OBVIOUS
<1>1. PICK U \in T : \A V \in T : V \subseteq U => V = U
  <2>1. T \in SUBSET SUBSET Sections
    OBVIOUS
  <2> HIDE DEF T
  <2> QED
    BY <2>1, SmallestSet
<1>2. U \in SUBSET Sections /\ ~ Good(U)
    OBVIOUS
<1>3. \A e \in U : Good(U \ {e})
    BY <1>1
<1> HIDE DEF T
<1>4. ASSUME NEW p \in Sections, NEW s \in Sections, NEW w,
             s \notin U, Leads(w, p, s, target, U)
      PROVE  f[U][p][s] # <<>>
  <2> DEFINE G == Given(f, p, s, U)
  <2>1. f[U][p][s] = IF s = target THEN <<s>>
                     ELSE IF G = {} THEN <<>> ELSE <<s>> \o FirstFound(G)
    <3>1. f[U] = Answer(target, f, U)
      BY <1>2, RoutesDef
    <3> HIDE DEF f
    <3> QED
      BY <3>1 DEF Answer
  <2>2. CASE s = target
    BY <2>1, <2>2
  <2>3. CASE s # target
    <3> DEFINE e == w[2]
    <3>1. e \in Exits(p, s) \cap U /\ Leads(Tail(w), s, e, target, U \ {e})
      BY <1>2, <1>4, <2>3, LeadsFrom
    <3> HIDE DEF e, f
    <3>2. e \in Sections /\ e \in U /\ e \notin U \ {e}
      BY <1>2, <3>1
    <3>3. f[U \ {e}][s][e] # <<>>
      BY <1>3, <3>1, <3>2
    <3>4. f[U \ {e}][s][e] \in G
      BY <3>1, <3>3 DEF Given
    <3>5. ASSUME NEW r \in G
          PROVE  Len(r) \in Nat \ {0} /\ r \in Seq(Sections) /\ r[1] \in Sections
      <4>1. \E x \in Exits(p, s) \cap U : Leads(r, s, x, target, U \ {x})
        <5>1. r \in Given(Routes(target), p, s, U)
          BY DEF f
        <5> QED
          BY <1>2, <5>1, GivenLead
      <4>2. PICK x \in Exits(p, s) \cap U : Leads(r, s, x, target, U \ {x})
        BY <4>1
      <4> QED
        BY <1>2, <4>2 DEF Leads
    <3> HIDE DEF G
    <3>6. FirstFound(G) \in G
      BY <3>4, <3>5, FirstFoundIn
    <3>7. Len(<<s>> \o FirstFound(G)) # 0
      BY <3>5, <3>6
    <3> QED
      BY <2>1, <2>3, <3>4, <3>7
  <2> QED
    BY <2>2, <2>3
<1> QED
    BY <1>2, <1>4

-----------------------------------------------------------------------------
(* A train that came by a switch it cannot take has the one exit left.     *)
LEMMA ForcedExit ==
    ASSUME NEW f \in Forced, NEW e \in Exits(f[1], f[2])
    PROVE  e = f[3]
<1>1. /\ f = <<f[1], f[2], f[3]>>
      /\ f[3] \in Sections
    BY DEF Forced, Sections
<1>2. e \in {x \in Sections : <<f[1], f[2], x>> \in Forced}
    BY <1>1 DEF Exits
<1>3. \A x, y \in Sections :
        <<f[1], f[2], x>> \in Forced /\ <<f[1], f[2], y>> \in Forced => x = y
    BY DEF Forced
<1> QED
    BY <1>1, <1>2, <1>3

(* Exits are sections that touch.                                          *)
LEMMA ExitsTouch ==
    ASSUME NEW p, NEW s, NEW e \in Exits(p, s)
    PROVE  e \in map_gate[s]
    BY DEF Exits

(* Open sections are sections.                                             *)
LEMMA OpenTyped ==
    ASSUME NEW s, NEW target \in Sections, NEW old, NEW used
    PROVE  OpenSections(s, target, old, used) \in SUBSET Sections
    BY DEF OpenSections

(* The route a train plans by, if there is one, is a way to its target.    *)
THEOREM FoundRouteLeads ==
    ASSUME NEW s \in Sections, NEW target \in Sections, NEW old, NEW used
    PROVE  \/ FoundRoute(s, target, old, used) = <<>>
           \/ Leads(FoundRoute(s, target, old, used), s, s, target,
                    OpenSections(s, target, old, used) \ {s})
<1> DEFINE open == OpenSections(s, target, old, used) \ {s}
<1>1. open \in SUBSET Sections /\ s \notin open
    BY OpenTyped
<1>2. FoundRoute(s, target, old, used) = Routes(target)[open][s][s]
    BY DEF FoundRoute, recursion
<1> HIDE DEF open
<1>3. \/ Routes(target)[open][s][s] = <<>>
      \/ Leads(Routes(target)[open][s][s], s, s, target, open)
    BY <1>1, RoutesLead
<1> QED
    BY <1>2, <1>3 DEF open

(* What a train is told to go to is a section of the layout next to its    *)
(* own, or NoWay.                                                          *)
THEOREM DecisionTouches ==
    ASSUME NEW s \in Sections, NEW target \in Sections, s # target, NEW old, NEW used
    PROVE  LET next == making_decision(s, target, old, used)
           IN  next = NoWay \/ next \in map_gate[s] \cap Sections
<1> DEFINE route == FoundRoute(s, target, old, used)
           open == OpenSections(s, target, old, used) \ {s}
<1>1. CASE route = <<>>
    BY <1>1 DEF making_decision
<1>2. CASE route # <<>>
  <2>1. Leads(route, s, s, target, open)
    BY <1>2, FoundRouteLeads
  <2>2. making_decision(s, target, old, used) = route[2]
    BY <1>2 DEF making_decision
  <2>3. open \in SUBSET Sections
    BY OpenTyped
  <2> HIDE DEF route, open
  <2>4. Len(route) \in Nat \ {0} /\ route[1] = s /\ route[Len(route)] = target
    BY <2>1 DEF Leads
  <2>5. Len(route) # 1
    BY <2>4
  <2>6. 1 \in 1 .. Len(route) - 1
    BY <2>4, <2>5
  <2>7. route[1 + 1] \in Exits(Before(route, s, 1), route[1]) \cap open
    BY <2>1, <2>6 DEF Leads
  <2> QED
    BY <2>2, <2>3, <2>4, <2>7, ExitsTouch DEF route
<1> QED
    BY <1>1, <1>2
-----------------------------------------------------------------------------
(* Walks, which may come to a section again.  A shortest one does not,     *)
(* though what it does between two visits cannot always be left out: the   *)
(* switches may forbid it.                                                 *)

(* A train that came from p and is in q may go on to r.                    *)
Legal(p, q, r) ==
    /\ r \in map_gate[q] /\ r # p
    /\ \A f \in Forced : f[1] = p /\ f[2] = q => f[3] = r

(* w is a walk of n sections through sections of P, and none from w[1]     *)
(* does with fewer moves: a walk from there has made at least D[p][q]       *)
(* moves with the one from p to q, and w just as many.                     *)
ShortestWalk(w, n, D, P) ==
    /\ n \in Nat /\ n >= 2 /\ w \in [1 .. n -> Sections]
    /\ P \subseteq Sections
    /\ D \in [Sections -> [Sections -> Int]]
    /\ \A i \in 1 .. n - 1 : w[i + 1] \in map_gate[w[i]] \cap P /\ D[w[i]][w[i + 1]] = i
    /\ \A i \in 1 .. n - 2 : Legal(w[i], w[i + 1], w[i + 2])
    /\ \A p, q, r \in Sections :
         q \in map_gate[p] \cap P /\ r \in P /\ Legal(p, q, r) => D[q][r] <= D[p][q] + 1
    /\ \A y \in map_gate[w[1]] \cap P : D[w[1]][y] <= 1
    /\ \A p \in Sections : w[n] \in map_gate[p] => D[p][w[n]] = n - 1

(* The sections that can follow a move.                                    *)
Follow(p, q, S) ==
    /\ p \in Sections /\ q \in map_gate[p]
    /\ \A r : Legal(p, q, r) <=> r \in S

(* The walk goes from p to q, as move D[p][q], once it is in w[h].         *)
Takes(w, n, D, h, p, q) ==
    D[p][q] \in h .. n - 1 /\ w[D[p][q]] = p /\ w[D[p][q] + 1] = q

(* What is known of the move from p to q if those from q to S follow it.   *)
Turns(w, n, D, P, h, p, q, S) ==
    /\ D[p][q] \in Int
    /\ Takes(w, n, D, h, p, q) =>
         /\ D[p][q] \in h .. n - 1 /\ w[D[p][q]] = p /\ w[D[p][q] + 1] = q /\ q \in P
         /\ \/ D[p][q] = n - 1
            \/ \E r \in S : Takes(w, n, D, h, q, r) /\ D[q][r] = D[p][q] + 1
    /\ \A r \in S : q \in P /\ r \in P => D[q][r] <= D[p][q] + 1
    /\ w[n] = q => D[p][q] = n - 1

(* Sections touch sections.                                                *)
LEMMA GatesTyped == \A s \in Sections : map_gate[s] \subseteq Sections
<1> SUFFICES ASSUME NEW s \in Sections PROVE map_gate[s] \subseteq 1 .. 16
    BY DEF Sections
<1> QED
    BY DEF map_gate, Sections

(* That is known of every move.                                            *)
LEMMA TurnsTo ==
    ASSUME NEW w, NEW n, NEW D, NEW P, ShortestWalk(w, n, D, P), NEW h \in 1 .. n - 1,
           NEW p, NEW q, NEW S, Follow(p, q, S)
    PROVE  Turns(w, n, D, P, h, p, q, S)
<1>0. /\ p \in Sections /\ q \in Sections /\ q \in map_gate[p]
      /\ \A r : Legal(p, q, r) <=> r \in S
      /\ \A r \in S : r \in Sections
  <2>1. p \in Sections /\ q \in map_gate[p] /\ \A r : Legal(p, q, r) <=> r \in S
    BY DEF Follow
  <2>2. \A r \in S : r \in map_gate[q]
    BY <2>1 DEF Legal
  <2> QED
    BY <2>1, <2>2, GatesTyped
<1>1. n \in Nat /\ D[p][q] \in Int
    BY <1>0 DEF ShortestWalk
<1>2. w[n] = q => D[p][q] = n - 1
  <2>1. \A x \in Sections : w[n] \in map_gate[x] => D[x][w[n]] = n - 1
    BY DEF ShortestWalk
  <2> QED
    BY <1>0, <2>1
<1>3. ASSUME NEW r \in S, q \in P, r \in P PROVE D[q][r] <= D[p][q] + 1
    BY <1>0, <1>3 DEF ShortestWalk
<1>4. ASSUME Takes(w, n, D, h, p, q), D[p][q] # n - 1
      PROVE  \E r \in S : Takes(w, n, D, h, q, r) /\ D[q][r] = D[p][q] + 1
  <2> DEFINE l == D[p][q]
  <2>1. l \in h .. n - 1 /\ w[l] = p /\ w[l + 1] = q
    BY <1>4 DEF Takes
  <2>2. /\ l + 1 \in 1 .. n - 1 /\ l + 1 \in h .. n - 1 /\ l \in 1 .. n - 2
        /\ (l + 1) + 1 = l + 2 /\ l + 2 \in 1 .. n
    BY <1>1, <1>4, <2>1
  <2>3. /\ D[w[l + 1]][w[l + 2]] = l + 1 /\ Legal(w[l], w[l + 1], w[l + 2])
        /\ w[l + 2] \in Sections
    BY <2>2 DEF ShortestWalk
  <2>4. w[l + 2] \in S /\ D[q][w[l + 2]] = l + 1
    BY <1>0, <2>1, <2>3
  <2> QED
    BY <2>1, <2>2, <2>4 DEF Takes
<1>5. ASSUME Takes(w, n, D, h, p, q) PROVE q \in P
  <2>1. D[p][q] \in 1 .. n - 1 /\ w[D[p][q] + 1] = q
    BY <1>1, <1>5 DEF Takes
  <2> QED
    BY <2>1 DEF ShortestWalk
<1> QED
    BY <1>1, <1>2, <1>3, <1>4, <1>5 DEF Turns, Takes

(* The layout's moves, each with those that can follow it.                 *)
LEMMA Follows ==
    /\ Follow(2, 1, {6, 13}) /\ Follow(6, 1, {2, 13}) /\ Follow(13, 1, {2, 6})
    /\ Follow(1, 2, {3, 14}) /\ Follow(3, 2, {1}) /\ Follow(14, 2, {1, 3})
    /\ Follow(2, 3, {4}) /\ Follow(4, 3, {2, 8}) /\ Follow(8, 3, {4})
    /\ Follow(3, 4, {5, 13, 16}) /\ Follow(5, 4, {3, 13, 16}) /\ Follow(13, 4, {3, 5, 16})
    /\ Follow(16, 4, {3, 5, 13})
    /\ Follow(4, 5, {6, 12}) /\ Follow(6, 5, {4}) /\ Follow(12, 5, {4})
    /\ Follow(1, 6, {5}) /\ Follow(5, 6, {1})
    /\ Follow(8, 7, {12, 15}) /\ Follow(12, 7, {8, 15}) /\ Follow(15, 7, {8, 12})
    /\ Follow(3, 8, {7}) /\ Follow(7, 8, {3, 9}) /\ Follow(9, 8, {3, 7})
    /\ Follow(8, 9, {10}) /\ Follow(10, 9, {8})
    /\ Follow(9, 10, {11}) /\ Follow(11, 10, {9})
    /\ Follow(10, 11, {12}) /\ Follow(12, 11, {10})
    /\ Follow(5, 12, {7}) /\ Follow(7, 12, {5, 11}) /\ Follow(11, 12, {7})
    /\ Follow(1, 13, {4}) /\ Follow(4, 13, {1})
    /\ Follow(2, 14, {}) /\ Follow(7, 15, {}) /\ Follow(4, 16, {})
<1>1. /\ map_gate[1] = {2, 6, 13} /\ map_gate[2] = {1, 3, 14} /\ map_gate[3] = {2, 4, 8}
      /\ map_gate[4] = {3, 5, 13, 16} /\ map_gate[5] = {4, 6, 12} /\ map_gate[6] = {1, 5}
      /\ map_gate[7] = {8, 12, 15} /\ map_gate[8] = {3, 7, 9} /\ map_gate[9] = {8, 10}
      /\ map_gate[10] = {9, 11} /\ map_gate[11] = {10, 12} /\ map_gate[12] = {5, 7, 11}
      /\ map_gate[13] = {1, 4} /\ map_gate[14] = {2} /\ map_gate[15] = {7}
      /\ map_gate[16] = {4}
    BY DEF map_gate
<1>2. /\ 1 \in Sections /\ 2 \in Sections /\ 3 \in Sections /\ 4 \in Sections
      /\ 5 \in Sections /\ 6 \in Sections /\ 7 \in Sections /\ 8 \in Sections
      /\ 9 \in Sections /\ 10 \in Sections /\ 11 \in Sections /\ 12 \in Sections
      /\ 13 \in Sections /\ 14 \in Sections /\ 15 \in Sections /\ 16 \in Sections
    BY DEF Sections
<1>3. /\ Follow(2, 1, {6, 13}) /\ Follow(6, 1, {2, 13}) /\ Follow(13, 1, {2, 6})
    BY <1>1, <1>2 DEF Follow, Legal, Forced
<1>4. /\ Follow(1, 2, {3, 14}) /\ Follow(3, 2, {1}) /\ Follow(14, 2, {1, 3})
    BY <1>1, <1>2 DEF Follow, Legal, Forced
<1>5. /\ Follow(2, 3, {4}) /\ Follow(4, 3, {2, 8}) /\ Follow(8, 3, {4})
    BY <1>1, <1>2 DEF Follow, Legal, Forced
<1>6. /\ Follow(3, 4, {5, 13, 16}) /\ Follow(5, 4, {3, 13, 16}) /\ Follow(13, 4, {3, 5, 16})
      /\ Follow(16, 4, {3, 5, 13})
    BY <1>1, <1>2 DEF Follow, Legal, Forced
<1>7. /\ Follow(4, 5, {6, 12}) /\ Follow(6, 5, {4}) /\ Follow(12, 5, {4})
    BY <1>1, <1>2 DEF Follow, Legal, Forced
<1>8. /\ Follow(1, 6, {5}) /\ Follow(5, 6, {1})
    BY <1>1, <1>2 DEF Follow, Legal, Forced
<1>9. /\ Follow(8, 7, {12, 15}) /\ Follow(12, 7, {8, 15}) /\ Follow(15, 7, {8, 12})
    BY <1>1, <1>2 DEF Follow, Legal, Forced
<1>10. /\ Follow(3, 8, {7}) /\ Follow(7, 8, {3, 9}) /\ Follow(9, 8, {3, 7})
    BY <1>1, <1>2 DEF Follow, Legal, Forced
<1>11. /\ Follow(8, 9, {10}) /\ Follow(10, 9, {8})
    BY <1>1, <1>2 DEF Follow, Legal, Forced
<1>12. /\ Follow(9, 10, {11}) /\ Follow(11, 10, {9})
    BY <1>1, <1>2 DEF Follow, Legal, Forced
<1>13. /\ Follow(10, 11, {12}) /\ Follow(12, 11, {10})
    BY <1>1, <1>2 DEF Follow, Legal, Forced
<1>14. /\ Follow(5, 12, {7}) /\ Follow(7, 12, {5, 11}) /\ Follow(11, 12, {7})
    BY <1>1, <1>2 DEF Follow, Legal, Forced
<1>15. /\ Follow(1, 13, {4}) /\ Follow(4, 13, {1})
    BY <1>1, <1>2 DEF Follow, Legal, Forced
<1>16. /\ Follow(2, 14, {}) /\ Follow(7, 15, {}) /\ Follow(4, 16, {})
    BY <1>1, <1>2 DEF Follow, Legal, Forced
<1> QED
    BY <1>3, <1>4, <1>5, <1>6, <1>7, <1>8, <1>9, <1>10, <1>11,
       <1>12, <1>13, <1>14, <1>15, <1>16

(* The walk comes back to section w[i] at j, from the section it went to.  *)
LoopAt(w, n, i, j) ==
    /\ i \in 2 .. n - 1 /\ j \in 2 .. n - 1 /\ i < j - 2
    /\ w[j] = w[i] /\ w[j - 1] = w[i + 1]
    /\ \A h \in 1 .. i - 1 : \A l \in 1 .. n : w[l] = w[h] => l = h

(* Going from w[i - 1] the other way, to a section the walk comes to       *)
(* later, is no shorter.                                                   *)
LEMMA NoDetour ==
    ASSUME NEW w, NEW n, NEW D, NEW P, ShortestWalk(w, n, D, P),
           NEW i, NEW j, LoopAt(w, n, i, j),
           NEW l \in i .. n, w[l] \in map_gate[w[i - 1]],
           \A f \in Forced : f[2] = w[i - 1] => f[3] = w[l]
    PROVE  D[w[i - 1]][w[l]] <= i - 1
<1>1. /\ n \in Nat /\ w \in [1 .. n -> Sections] /\ D \in [Sections -> [Sections -> Int]]
      /\ i \in Int /\ l \in Int /\ 2 <= i /\ i <= l /\ l <= n /\ i < n
  <2>1. n \in Nat /\ w \in [1 .. n -> Sections] /\ D \in [Sections -> [Sections -> Int]]
    BY DEF ShortestWalk
  <2>2. n \in Nat /\ i \in 2 .. n - 1 /\ l \in i .. n
    BY <2>1 DEF LoopAt
  <2>3. i \in Int /\ l \in Int /\ 2 <= i /\ i <= l /\ l <= n /\ i < n
    BY ONLY <2>2
  <2> QED
    BY <2>1, <2>3
<1>2. w[l] \in P
  <2>1. l - 1 \in 1 .. n - 1 /\ (l - 1) + 1 = l
    BY <1>1
  <2> QED
    BY <2>1 DEF ShortestWalk
<1>3. CASE i = 2
  <2>1. i - 1 = 1
    BY <1>3
  <2>2. D[w[1]][w[l]] <= 1
    BY <2>1, <1>2 DEF ShortestWalk
  <2> QED
    BY <2>1, <2>2
<1>4. CASE i # 2
  <2>1. /\ i - 2 \in 1 .. n - 1 /\ i - 2 \in 1 .. i - 1 /\ i - 2 \in 1 .. n
        /\ i - 1 \in 1 .. n /\ l \in 1 .. n /\ l # i - 2 /\ (i - 2) + 1 = i - 1
    BY <1>1, <1>4
  <2>2. w[l] # w[i - 2]
    BY <2>1 DEF LoopAt
  <2>3. Legal(w[i - 2], w[i - 1], w[l])
    BY <2>2 DEF Legal
  <2>4. w[i - 1] \in map_gate[w[i - 2]] \cap P /\ D[w[i - 2]][w[i - 1]] = i - 2
    BY <2>1 DEF ShortestWalk
  <2>5. D[w[i - 1]][w[l]] <= D[w[i - 2]][w[i - 1]] + 1
    BY <1>1, <1>2, <2>1, <2>3, <2>4 DEF ShortestWalk
  <2>6. D[w[i - 1]][w[l]] \in Int
    BY <1>1, <2>1
  <2> QED
    BY <1>1, <2>4, <2>5, <2>6
<1> QED
    BY <1>3, <1>4

(* The four moves into the loop, round it and out of it, and what cannot   *)
(* be once the walk is in w[i - 1].                                        *)
LEMMA LoopMoves ==
    ASSUME NEW w, NEW n, NEW D, NEW P, ShortestWalk(w, n, D, P),
           NEW i, NEW j, LoopAt(w, n, i, j),
           NEW p, NEW q, NEW e, NEW z, w[i - 1] = p, w[i] = q, w[i + 1] = e, w[j + 1] = z
    PROVE  /\ i \in Int /\ j \in Int /\ n \in Int /\ i - 1 \in 1 .. n - 1 /\ i + 2 < j
           /\ Takes(w, n, D, i - 1, p, q) /\ D[p][q] = i - 1
           /\ Takes(w, n, D, i - 1, q, e) /\ D[q][e] = i
           /\ Takes(w, n, D, i - 1, e, q) /\ D[e][q] = j - 1
           /\ Takes(w, n, D, i - 1, q, z) /\ D[q][z] = j
           /\ w[n] # p /\ w[n] # q
           /\ \A x : ~ Takes(w, n, D, i - 1, x, p)
           /\ \A x, y : Takes(w, n, D, i - 1, x, y) /\ y \in map_gate[p]
                          /\ (\A f \in Forced : f[2] = p => f[3] = y)
                          => D[p][y] <= i - 1
<1>1. /\ n \in Nat /\ w \in [1 .. n -> Sections] /\ i \in Int /\ j \in Int
      /\ 2 <= i /\ i < j - 2 /\ j <= n - 1 /\ w[j] = q /\ w[j - 1] = e
    BY DEF ShortestWalk, LoopAt
<1>2. /\ i - 1 \in 1 .. n - 1 /\ i \in 1 .. n - 1 /\ j - 1 \in 1 .. n - 1
      /\ j \in 1 .. n - 1 /\ i - 1 \in 1 .. n /\ n \in 1 .. n
    BY ONLY <1>1
<1>3. /\ i - 1 \in i - 1 .. n - 1 /\ i \in i - 1 .. n - 1 /\ j - 1 \in i - 1 .. n - 1
      /\ j \in i - 1 .. n - 1 /\ i - 1 \in 1 .. i - 1
    BY ONLY <1>1
<1>4. (i - 1) + 1 = i /\ (j - 1) + 1 = j /\ n # i - 1 /\ n - 1 # i - 1
    BY ONLY <1>1
<1>5. /\ D[p][q] = i - 1 /\ D[q][e] = i /\ D[e][q] = j - 1 /\ D[q][z] = j
      /\ p \in Sections /\ q \in map_gate[p]
  <2>1. \A h \in 1 .. n - 1 : w[h + 1] \in map_gate[w[h]] /\ D[w[h]][w[h + 1]] = h
    BY DEF ShortestWalk
  <2>2. D[p][q] = i - 1 /\ q \in map_gate[p] /\ p \in Sections
    BY <1>1, <1>2, <1>4, <2>1
  <2>3. D[q][e] = i /\ D[e][q] = j - 1 /\ D[q][z] = j
    BY <1>1, <1>2, <1>4, <2>1
  <2> QED
    BY <2>2, <2>3
<1>6. /\ Takes(w, n, D, i - 1, p, q) /\ Takes(w, n, D, i - 1, q, e)
      /\ Takes(w, n, D, i - 1, e, q) /\ Takes(w, n, D, i - 1, q, z)
    BY <1>1, <1>2, <1>3, <1>4, <1>5 DEF Takes
<1>7. w[n] # p
    BY <1>2, <1>3, <1>4 DEF LoopAt
<1>8. w[n] # q
  <2>1. \A x \in Sections : w[n] \in map_gate[x] => D[x][w[n]] = n - 1
    BY DEF ShortestWalk
  <2> QED
    BY <1>2, <1>3, <1>4, <1>5, <2>1
<1>9. ASSUME NEW x, NEW y, Takes(w, n, D, i - 1, x, y)
      PROVE  \E l \in i .. n : w[l] = y /\ l \in 1 .. n /\ l # i - 1
  <2>1. D[x][y] \in i - 1 .. n - 1 /\ w[D[x][y] + 1] = y
    BY <1>9 DEF Takes
  <2>2. D[x][y] + 1 \in i .. n /\ D[x][y] + 1 \in 1 .. n /\ D[x][y] + 1 # i - 1
    BY <1>1, <2>1
  <2> QED
    BY <2>1, <2>2
<1>10. ASSUME NEW x, Takes(w, n, D, i - 1, x, p) PROVE FALSE
  <2>1. PICK l \in i .. n : w[l] = p /\ l \in 1 .. n /\ l # i - 1
    BY <1>9, <1>10
  <2> QED
    BY <1>2, <1>3, <1>4, <2>1 DEF LoopAt
<1>11. ASSUME NEW x, NEW y, Takes(w, n, D, i - 1, x, y), y \in map_gate[p],
             \A f \in Forced : f[2] = p => f[3] = y
      PROVE  D[p][y] <= i - 1
  <2>1. PICK l \in i .. n : w[l] = y
    BY <1>9, <1>11
  <2> QED
    BY <1>11, <2>1, NoDetour
<1> QED
    BY <1>1, <1>2, <1>3, <1>4, <1>5, <1>6, <1>7, <1>8, <1>10, <1>11

(* No shortest walk has a loop that enters 2 from 3 and leaves it for 14.  *)
LEMMA NoLoop3To2 ==
    ASSUME NEW w, NEW n, NEW D, NEW P, ShortestWalk(w, n, D, P),
           NEW i, NEW j, LoopAt(w, n, i, j),
           w[i - 1] = 3, w[i] = 2, w[i + 1] = 1, w[j + 1] = 14
    PROVE  FALSE
<1> DEFINE Goes(x, y) == Takes(w, n, D, i - 1, x, y)
           To(x, y, S) == Turns(w, n, D, P, i - 1, x, y, S)
<1>1. /\ i \in Int /\ j \in Int /\ n \in Int /\ i - 1 \in 1 .. n - 1 /\ i + 2 < j
      /\ Goes(3, 2) /\ D[3][2] = i - 1 /\ Goes(2, 1) /\ D[2][1] = i
      /\ Goes(1, 2) /\ D[1][2] = j - 1 /\ Goes(2, 14) /\ D[2][14] = j
      /\ w[n] # 3 /\ w[n] # 2
    BY LoopMoves
<1>2. ~ Goes(4, 3)
    BY LoopMoves
<1>3. 4 \in map_gate[3] /\ \A f \in Forced : f[2] = 3 => f[3] = 4
    BY DEF Forced, map_gate
<1>4. \A x : Goes(x, 4) => D[3][4] <= i - 1
    BY <1>3, LoopMoves
<1>5. /\ (Goes(3, 4) => D[3][4] <= i - 1) /\ (Goes(5, 4) => D[3][4] <= i - 1)
      /\ (Goes(13, 4) => D[3][4] <= i - 1) /\ (Goes(16, 4) => D[3][4] <= i - 1)
    BY <1>4
<1>6. /\ To(1, 6, {5}) /\ To(1, 13, {4}) /\ To(2, 1, {6, 13}) /\ To(2, 14, {})
      /\ To(3, 2, {1}) /\ To(3, 4, {5, 13, 16}) /\ To(4, 3, {2, 8}) /\ To(4, 5, {6, 12})
      /\ To(4, 13, {1}) /\ To(4, 16, {}) /\ To(5, 4, {3, 13, 16}) /\ To(5, 6, {1})
      /\ To(5, 12, {7}) /\ To(6, 5, {4}) /\ To(13, 1, {2, 6}) /\ To(13, 4, {3, 5, 16})
    BY <1>1, TurnsTo, Follows
<1> QED
    BY <1>1, <1>2, <1>5, <1>6 DEF Turns

(* Nor one that enters 3 from 2 and leaves it for 8.                       *)
LEMMA NoLoop2To3 ==
    ASSUME NEW w, NEW n, NEW D, NEW P, ShortestWalk(w, n, D, P),
           NEW i, NEW j, LoopAt(w, n, i, j),
           w[i - 1] = 2, w[i] = 3, w[i + 1] = 4, w[j + 1] = 8
    PROVE  FALSE
<1> DEFINE Goes(x, y) == Takes(w, n, D, i - 1, x, y)
           To(x, y, S) == Turns(w, n, D, P, i - 1, x, y, S)
<1>1. /\ i \in Int /\ j \in Int /\ n \in Int /\ i - 1 \in 1 .. n - 1 /\ i + 2 < j
      /\ Goes(2, 3) /\ D[2][3] = i - 1 /\ Goes(3, 4) /\ D[3][4] = i
      /\ Goes(4, 3) /\ D[4][3] = j - 1 /\ Goes(3, 8) /\ D[3][8] = j
      /\ w[n] # 2 /\ w[n] # 3
    BY LoopMoves
<1>2. ~ Goes(1, 2)
    BY LoopMoves
<1>3. 1 \in map_gate[2] /\ \A f \in Forced : f[2] = 2 => f[3] = 1
    BY DEF Forced, map_gate
<1>4. \A x : Goes(x, 1) => D[2][1] <= i - 1
    BY <1>3, LoopMoves
<1>5. /\ (Goes(2, 1) => D[2][1] <= i - 1) /\ (Goes(6, 1) => D[2][1] <= i - 1)
      /\ (Goes(13, 1) => D[2][1] <= i - 1)
    BY <1>4
<1>6. /\ To(1, 2, {3, 14}) /\ To(1, 6, {5}) /\ To(1, 13, {4}) /\ To(2, 1, {6, 13})
      /\ To(2, 3, {4}) /\ To(3, 2, {1}) /\ To(3, 4, {5, 13, 16}) /\ To(3, 8, {7})
      /\ To(4, 3, {2, 8}) /\ To(4, 5, {6, 12}) /\ To(4, 13, {1}) /\ To(4, 16, {})
      /\ To(5, 6, {1}) /\ To(5, 12, {7}) /\ To(6, 1, {2, 13}) /\ To(7, 8, {3, 9})
      /\ To(7, 15, {}) /\ To(8, 3, {4}) /\ To(8, 9, {10}) /\ To(9, 10, {11})
      /\ To(10, 11, {12}) /\ To(11, 12, {7}) /\ To(12, 7, {8, 15}) /\ To(13, 1, {2, 6})
      /\ To(13, 4, {3, 5, 16})
    BY <1>1, TurnsTo, Follows
<1> QED
    BY <1>1, <1>2, <1>5, <1>6 DEF Turns

(* Nor one that enters 12 from 11 and leaves it for 5.                     *)
LEMMA NoLoop11To12 ==
    ASSUME NEW w, NEW n, NEW D, NEW P, ShortestWalk(w, n, D, P),
           NEW i, NEW j, LoopAt(w, n, i, j),
           w[i - 1] = 11, w[i] = 12, w[i + 1] = 7, w[j + 1] = 5
    PROVE  FALSE
<1> DEFINE Goes(x, y) == Takes(w, n, D, i - 1, x, y)
           To(x, y, S) == Turns(w, n, D, P, i - 1, x, y, S)
<1>1. /\ i \in Int /\ j \in Int /\ n \in Int /\ i - 1 \in 1 .. n - 1 /\ i + 2 < j
      /\ Goes(11, 12) /\ D[11][12] = i - 1 /\ Goes(12, 7) /\ D[12][7] = i
      /\ Goes(7, 12) /\ D[7][12] = j - 1 /\ Goes(12, 5) /\ D[12][5] = j
      /\ w[n] # 11 /\ w[n] # 12
    BY LoopMoves
<1>2. ~ Goes(10, 11)
    BY LoopMoves
<1>3. Goes(3, 4) /\ D[3][4] = i + 3
  <2>1. /\ To(7, 8, {3, 9}) /\ To(7, 15, {}) /\ To(8, 3, {4}) /\ To(8, 9, {10})
        /\ To(9, 10, {11}) /\ To(12, 5, {4}) /\ To(12, 7, {8, 15})
    BY <1>1, TurnsTo, Follows
  <2> QED
    BY <1>1, <1>2, <2>1 DEF Turns
<1>4. \/ Goes(4, 5) /\ D[4][5] = i + 4
      \/ Goes(4, 13) /\ D[4][13] = i + 4
  <2>1. To(3, 4, {5, 13, 16}) /\ To(4, 16, {})
    BY <1>1, TurnsTo, Follows
  <2>2. w[j] = 12 /\ j <= n - 1 /\ w[i + 3] = 3
    BY <1>1, <1>3 DEF Takes
  <2>3. D[3][4] # n - 1
    BY <1>1, <1>3, <2>2
  <2>4. ASSUME Goes(4, 16), D[4][16] = D[3][4] + 1 PROVE FALSE
    <3>1. D[4][16] = n - 1 /\ w[D[4][16]] = 4
      BY <2>1, <2>4 DEF Turns
    <3>2. i + 4 = n - 1 /\ w[i + 4] = 4
      BY <1>1, <1>3, <2>4, <3>1
    <3>3. j = i + 3 \/ j = i + 4
      BY <1>1, <2>2, <3>2
    <3> QED
      BY <2>2, <3>2, <3>3
  <2>5. \E r \in {5, 13, 16} : Goes(4, r) /\ D[4][r] = D[3][4] + 1
    BY <1>3, <2>1, <2>3 DEF Turns
  <2>6. \/ Goes(4, 5) /\ D[4][5] = D[3][4] + 1
        \/ Goes(4, 13) /\ D[4][13] = D[3][4] + 1
    BY <2>4, <2>5
  <2>7. D[3][4] + 1 = i + 4
    BY <1>1, <1>3
  <2> QED
    BY <2>6, <2>7
<1>5. CASE Goes(4, 5) /\ D[4][5] = i + 4
  <2>1. /\ To(1, 2, {3, 14}) /\ To(1, 13, {4}) /\ To(2, 3, {4}) /\ To(2, 14, {})
        /\ To(3, 4, {5, 13, 16}) /\ To(4, 5, {6, 12}) /\ To(4, 13, {1}) /\ To(4, 16, {})
        /\ To(5, 4, {3, 13, 16}) /\ To(5, 6, {1}) /\ To(5, 12, {7}) /\ To(6, 1, {2, 13})
        /\ To(12, 5, {4}) /\ To(13, 4, {3, 5, 16})
    BY <1>1, TurnsTo, Follows
  <2> QED
    BY <1>1, <1>3, <1>5, <2>1 DEF Turns
<1>6. CASE Goes(4, 13) /\ D[4][13] = i + 4
  <2>1. /\ To(1, 2, {3, 14}) /\ To(1, 13, {4}) /\ To(2, 1, {6, 13}) /\ To(2, 3, {4})
        /\ To(2, 14, {}) /\ To(3, 2, {1}) /\ To(3, 4, {5, 13, 16}) /\ To(3, 8, {7})
        /\ To(4, 3, {2, 8}) /\ To(4, 5, {6, 12}) /\ To(4, 13, {1}) /\ To(4, 16, {})
        /\ To(5, 4, {3, 13, 16}) /\ To(7, 8, {3, 9}) /\ To(7, 15, {}) /\ To(8, 3, {4})
        /\ To(8, 7, {12, 15}) /\ To(12, 5, {4}) /\ To(12, 7, {8, 15})
        /\ To(13, 1, {2, 6}) /\ To(13, 4, {3, 5, 16})
    BY <1>1, TurnsTo, Follows
  <2> QED
    BY <1>1, <1>3, <1>6, <2>1 DEF Turns
<1> QED
    BY <1>4, <1>5, <1>6

(* Nor one that enters 5 from 6 and leaves it for 12.                      *)
LEMMA NoLoop6To5 ==
    ASSUME NEW w, NEW n, NEW D, NEW P, ShortestWalk(w, n, D, P),
           NEW i, NEW j, LoopAt(w, n, i, j),
           w[i - 1] = 6, w[i] = 5, w[i + 1] = 4, w[j + 1] = 12
    PROVE  FALSE
<1> DEFINE Goes(x, y) == Takes(w, n, D, i - 1, x, y)
           To(x, y, S) == Turns(w, n, D, P, i - 1, x, y, S)
<1>1. /\ i \in Int /\ j \in Int /\ n \in Int /\ i - 1 \in 1 .. n - 1 /\ i + 2 < j
      /\ Goes(6, 5) /\ D[6][5] = i - 1 /\ Goes(5, 4) /\ D[5][4] = i
      /\ Goes(4, 5) /\ D[4][5] = j - 1 /\ Goes(5, 12) /\ D[5][12] = j
      /\ w[n] # 6 /\ w[n] # 5
    BY LoopMoves
<1>2. ~ Goes(1, 6)
    BY LoopMoves
<1>3. 1 \in map_gate[6] /\ \A f \in Forced : f[2] = 6 => f[3] = 1
    BY DEF Forced, map_gate
<1>4. \A x : Goes(x, 1) => D[6][1] <= i - 1
    BY <1>3, LoopMoves
<1>5. (Goes(2, 1) => D[6][1] <= i - 1) /\ (Goes(13, 1) => D[6][1] <= i - 1)
    BY <1>4
<1>6. ~ (Goes(4, 13) /\ D[4][13] = i + 1)
  <2>1. /\ To(1, 13, {4}) /\ To(4, 5, {6, 12}) /\ To(4, 13, {1})
        /\ To(5, 4, {3, 13, 16}) /\ To(6, 1, {2, 13}) /\ To(6, 5, {4})
        /\ To(13, 1, {2, 6}) /\ To(13, 4, {3, 5, 16})
    BY <1>1, TurnsTo, Follows
  <2> QED
    BY <1>1, <1>5, <2>1 DEF Turns
<1>7. Goes(4, 3) /\ D[4][3] = i + 1
  <2>1. To(5, 4, {3, 13, 16}) /\ To(4, 16, {})
    BY <1>1, TurnsTo, Follows
  <2>2. j <= n - 1
    BY <1>1 DEF Takes
  <2>3. D[5][4] # n - 1
    BY <1>1, <2>2
  <2>4. ASSUME Goes(4, 16), D[4][16] = i + 1 PROVE FALSE
    <3>1. D[4][16] = n - 1
      BY <2>1, <2>4 DEF Turns
    <3> QED
      BY <1>1, <2>2, <2>4, <3>1
  <2>5. \E r \in {3, 13, 16} : Goes(4, r) /\ D[4][r] = i + 1
    BY <1>1, <2>1, <2>3 DEF Turns
  <2> QED
    BY <1>6, <2>4, <2>5
<1>8. \/ Goes(3, 2) /\ D[3][2] = i + 2
      \/ Goes(3, 8) /\ D[3][8] = i + 2
  <2>1. /\ To(4, 3, {2, 8}) /\ To(5, 12, {7})
    BY <1>1, TurnsTo, Follows
  <2> QED
    BY <1>1, <1>7, <2>1 DEF Turns
<1>9. CASE Goes(3, 2) /\ D[3][2] = i + 2
  <2>1. /\ To(1, 13, {4}) /\ To(2, 1, {6, 13}) /\ To(3, 2, {1}) /\ To(5, 12, {7})
        /\ To(6, 1, {2, 13}) /\ To(6, 5, {4})
    BY <1>1, TurnsTo, Follows
  <2> QED
    BY <1>1, <1>2, <1>5, <1>7, <1>9, <2>1 DEF Turns
<1>10. CASE Goes(3, 8) /\ D[3][8] = i + 2
  <2>1. /\ To(3, 8, {7}) /\ To(5, 12, {7}) /\ To(7, 8, {3, 9}) /\ To(7, 12, {5, 11})
        /\ To(7, 15, {}) /\ To(8, 7, {12, 15}) /\ To(8, 9, {10}) /\ To(9, 8, {3, 7})
        /\ To(9, 10, {11}) /\ To(10, 9, {8}) /\ To(10, 11, {12}) /\ To(11, 10, {9})
        /\ To(11, 12, {7}) /\ To(12, 5, {4}) /\ To(12, 7, {8, 15}) /\ To(12, 11, {10})
    BY <1>1, TurnsTo, Follows
  <2> QED
    BY <1>1, <1>7, <1>10, <2>1 DEF Turns
<1> QED
    BY <1>8, <1>9, <1>10

(* Nor one that enters 12 from 5 and leaves it for 11.                     *)
LEMMA NoLoop5To12 ==
    ASSUME NEW w, NEW n, NEW D, NEW P, ShortestWalk(w, n, D, P),
           NEW i, NEW j, LoopAt(w, n, i, j),
           w[i - 1] = 5, w[i] = 12, w[i + 1] = 7, w[j + 1] = 11
    PROVE  FALSE
<1> DEFINE Goes(x, y) == Takes(w, n, D, i - 1, x, y)
           To(x, y, S) == Turns(w, n, D, P, i - 1, x, y, S)
<1>1. /\ i \in Int /\ j \in Int /\ n \in Int /\ i - 1 \in 1 .. n - 1 /\ i + 2 < j
      /\ Goes(5, 12) /\ D[5][12] = i - 1 /\ Goes(12, 7) /\ D[12][7] = i
      /\ Goes(7, 12) /\ D[7][12] = j - 1 /\ Goes(12, 11) /\ D[12][11] = j
      /\ w[n] # 5 /\ w[n] # 12
    BY LoopMoves
<1>2. ~ Goes(4, 5)
    BY LoopMoves
<1>3. 4 \in map_gate[5] /\ \A f \in Forced : f[2] = 5 => f[3] = 4
    BY DEF Forced, map_gate
<1>4. \A x : Goes(x, 4) => D[5][4] <= i - 1
    BY <1>3, LoopMoves
<1>5. /\ (Goes(3, 4) => D[5][4] <= i - 1) /\ (Goes(5, 4) => D[5][4] <= i - 1)
      /\ (Goes(13, 4) => D[5][4] <= i - 1) /\ (Goes(16, 4) => D[5][4] <= i - 1)
    BY <1>4
<1>6. /\ To(3, 4, {5, 13, 16}) /\ To(4, 3, {2, 8}) /\ To(4, 5, {6, 12}) /\ To(4, 13, {1})
      /\ To(4, 16, {}) /\ To(5, 4, {3, 13, 16}) /\ To(5, 12, {7}) /\ To(7, 8, {3, 9})
      /\ To(7, 15, {}) /\ To(8, 3, {4}) /\ To(8, 9, {10}) /\ To(9, 10, {11})
      /\ To(10, 11, {12}) /\ To(11, 10, {9}) /\ To(11, 12, {7}) /\ To(12, 7, {8, 15})
      /\ To(12, 11, {10}) /\ To(13, 1, {2, 6})
    BY <1>1, TurnsTo, Follows
<1> QED
    BY <1>1, <1>2, <1>5, <1>6 DEF Turns

(* Nor one that enters 5 from 12 and leaves it for 6.                      *)
LEMMA NoLoop12To5 ==
    ASSUME NEW w, NEW n, NEW D, NEW P, ShortestWalk(w, n, D, P),
           NEW i, NEW j, LoopAt(w, n, i, j),
           w[i - 1] = 12, w[i] = 5, w[i + 1] = 4, w[j + 1] = 6
    PROVE  FALSE
<1> DEFINE Goes(x, y) == Takes(w, n, D, i - 1, x, y)
           To(x, y, S) == Turns(w, n, D, P, i - 1, x, y, S)
<1>1. /\ i \in Int /\ j \in Int /\ n \in Int /\ i - 1 \in 1 .. n - 1 /\ i + 2 < j
      /\ Goes(12, 5) /\ D[12][5] = i - 1 /\ Goes(5, 4) /\ D[5][4] = i
      /\ Goes(4, 5) /\ D[4][5] = j - 1 /\ Goes(5, 6) /\ D[5][6] = j
      /\ w[n] # 12 /\ w[n] # 5
    BY LoopMoves
<1>2. ~ Goes(7, 12)
    BY LoopMoves
<1>3. /\ To(1, 2, {3, 14}) /\ To(1, 6, {5}) /\ To(1, 13, {4}) /\ To(2, 1, {6, 13})
      /\ To(2, 3, {4}) /\ To(2, 14, {}) /\ To(3, 2, {1}) /\ To(3, 8, {7})
      /\ To(4, 3, {2, 8}) /\ To(4, 5, {6, 12}) /\ To(4, 13, {1}) /\ To(4, 16, {})
      /\ To(5, 4, {3, 13, 16}) /\ To(5, 6, {1}) /\ To(6, 1, {2, 13}) /\ To(6, 5, {4})
      /\ To(7, 12, {5, 11}) /\ To(7, 15, {}) /\ To(8, 7, {12, 15}) /\ To(13, 1, {2, 6})
      /\ To(13, 4, {3, 5, 16})
    BY <1>1, TurnsTo, Follows
<1> QED
    BY <1>1, <1>2, <1>3 DEF Turns

(* Nor one that enters 3 from 8 and leaves it for 2.                       *)
LEMMA NoLoop8To3 ==
    ASSUME NEW w, NEW n, NEW D, NEW P, ShortestWalk(w, n, D, P),
           NEW i, NEW j, LoopAt(w, n, i, j),
           w[i - 1] = 8, w[i] = 3, w[i + 1] = 4, w[j + 1] = 2
    PROVE  FALSE
<1> DEFINE Goes(x, y) == Takes(w, n, D, i - 1, x, y)
           To(x, y, S) == Turns(w, n, D, P, i - 1, x, y, S)
<1>1. /\ i \in Int /\ j \in Int /\ n \in Int /\ i - 1 \in 1 .. n - 1 /\ i + 2 < j
      /\ Goes(8, 3) /\ D[8][3] = i - 1 /\ Goes(3, 4) /\ D[3][4] = i
      /\ Goes(4, 3) /\ D[4][3] = j - 1 /\ Goes(3, 2) /\ D[3][2] = j
      /\ w[n] # 8 /\ w[n] # 3
    BY LoopMoves
<1>2. ~ Goes(7, 8)
    BY LoopMoves
<1>3. /\ To(1, 2, {3, 14}) /\ To(1, 6, {5}) /\ To(1, 13, {4}) /\ To(2, 1, {6, 13})
      /\ To(2, 3, {4}) /\ To(2, 14, {}) /\ To(3, 2, {1}) /\ To(3, 4, {5, 13, 16})
      /\ To(4, 3, {2, 8}) /\ To(4, 5, {6, 12}) /\ To(4, 13, {1}) /\ To(4, 16, {})
      /\ To(5, 4, {3, 13, 16}) /\ To(5, 6, {1}) /\ To(5, 12, {7}) /\ To(6, 1, {2, 13})
      /\ To(6, 5, {4}) /\ To(7, 8, {3, 9}) /\ To(7, 15, {}) /\ To(12, 7, {8, 15})
      /\ To(13, 1, {2, 6}) /\ To(13, 4, {3, 5, 16})
    BY <1>1, TurnsTo, Follows
<1> QED
    BY <1>1, <1>2, <1>3 DEF Turns

(* Nor one that enters 8 from 3 and leaves it for 9.                       *)
LEMMA NoLoop3To8 ==
    ASSUME NEW w, NEW n, NEW D, NEW P, ShortestWalk(w, n, D, P),
           NEW i, NEW j, LoopAt(w, n, i, j),
           w[i - 1] = 3, w[i] = 8, w[i + 1] = 7, w[j + 1] = 9
    PROVE  FALSE
<1> DEFINE Goes(x, y) == Takes(w, n, D, i - 1, x, y)
           To(x, y, S) == Turns(w, n, D, P, i - 1, x, y, S)
<1>1. /\ i \in Int /\ j \in Int /\ n \in Int /\ i - 1 \in 1 .. n - 1 /\ i + 2 < j
      /\ Goes(3, 8) /\ D[3][8] = i - 1 /\ Goes(8, 7) /\ D[8][7] = i
      /\ Goes(7, 8) /\ D[7][8] = j - 1 /\ Goes(8, 9) /\ D[8][9] = j
      /\ w[n] # 3 /\ w[n] # 8
    BY LoopMoves
<1>2. ~ Goes(4, 3)
    BY LoopMoves
<1>3. 4 \in map_gate[3] /\ \A f \in Forced : f[2] = 3 => f[3] = 4
    BY DEF Forced, map_gate
<1>4. \A x : Goes(x, 4) => D[3][4] <= i - 1
    BY <1>3, LoopMoves
<1>5. /\ (Goes(3, 4) => D[3][4] <= i - 1) /\ (Goes(5, 4) => D[3][4] <= i - 1)
      /\ (Goes(13, 4) => D[3][4] <= i - 1) /\ (Goes(16, 4) => D[3][4] <= i - 1)
    BY <1>4
<1>6. /\ To(3, 4, {5, 13, 16}) /\ To(3, 8, {7}) /\ To(4, 3, {2, 8}) /\ To(4, 5, {6, 12})
      /\ To(4, 13, {1}) /\ To(4, 16, {}) /\ To(5, 4, {3, 13, 16}) /\ To(7, 8, {3, 9})
      /\ To(7, 12, {5, 11}) /\ To(7, 15, {}) /\ To(8, 7, {12, 15}) /\ To(8, 9, {10})
      /\ To(9, 8, {3, 7}) /\ To(9, 10, {11}) /\ To(10, 9, {8}) /\ To(10, 11, {12})
      /\ To(11, 10, {9}) /\ To(11, 12, {7}) /\ To(12, 5, {4}) /\ To(12, 7, {8, 15})
      /\ To(12, 11, {10}) /\ To(13, 1, {2, 6})
    BY <1>1, TurnsTo, Follows
<1> QED
    BY <1>1, <1>2, <1>5, <1>6 DEF Turns

(* At a switch taken by force there are three sections: the one the train  *)
(* came from, the one it must go to and one more.                          *)
LEMMA ForcedCases ==
    ASSUME NEW p, NEW q, NEW e, NEW x \in Sections, NEW z, <<p, q, e>> \in Forced,
           q \in map_gate[x], z \in map_gate[q], x # p, x # z, z # p, z # e
    PROVE  /\ x = e
           /\ \/ p = 3 /\ q = 2 /\ e = 1 /\ z = 14
              \/ p = 2 /\ q = 3 /\ e = 4 /\ z = 8
              \/ p = 11 /\ q = 12 /\ e = 7 /\ z = 5
              \/ p = 6 /\ q = 5 /\ e = 4 /\ z = 12
              \/ p = 5 /\ q = 12 /\ e = 7 /\ z = 11
              \/ p = 12 /\ q = 5 /\ e = 4 /\ z = 6
              \/ p = 8 /\ q = 3 /\ e = 4 /\ z = 2
              \/ p = 3 /\ q = 8 /\ e = 7 /\ z = 9
<1>1. /\ map_gate[2] = {1, 3, 14} /\ map_gate[3] = {2, 4, 8} /\ map_gate[5] = {4, 6, 12}
      /\ map_gate[8] = {3, 7, 9} /\ map_gate[12] = {5, 7, 11}
    BY DEF map_gate
<1>2. /\ 2 \in map_gate[x] => x \in {1, 3, 14}
      /\ 3 \in map_gate[x] => x \in {2, 4, 8}
      /\ 5 \in map_gate[x] => x \in {4, 6, 12}
      /\ 8 \in map_gate[x] => x \in {3, 7, 9}
      /\ 12 \in map_gate[x] => x \in {5, 7, 11}
    BY DEF map_gate, Sections
<1>3. \/ p = 3 /\ q = 2 /\ e = 1
      \/ p = 2 /\ q = 3 /\ e = 4
      \/ p = 11 /\ q = 12 /\ e = 7
      \/ p = 6 /\ q = 5 /\ e = 4
      \/ p = 5 /\ q = 12 /\ e = 7
      \/ p = 12 /\ q = 5 /\ e = 4
      \/ p = 8 /\ q = 3 /\ e = 4
      \/ p = 3 /\ q = 8 /\ e = 7
    BY DEF Forced
<1> QED
    BY <1>1, <1>2, <1>3

(* A shortest walk comes to no section twice: what lies between could be   *)
(* left out, unless a switch forbids it, and there too it is not shortest. *)
LEMMA ShortestIsSimple ==
    ASSUME NEW w, NEW n, NEW D, NEW P, ShortestWalk(w, n, D, P), w[1] # w[n]
    PROVE  \A i, j \in 1 .. n : w[i] = w[j] => i = j
<1> DEFINE T == {h \in 1 .. n : \E l \in 1 .. n : l > h /\ w[l] = w[h]}
<1>1. n \in Nat /\ n >= 2 /\ w \in [1 .. n -> Sections]
    BY DEF ShortestWalk
<1>2. /\ \A h \in 1 .. n - 1 : w[h + 1] \in map_gate[w[h]] \cap P /\ D[w[h]][w[h + 1]] = h
      /\ \A h \in 1 .. n - 2 : Legal(w[h], w[h + 1], w[h + 2])
      /\ \A y \in map_gate[w[1]] \cap P : D[w[1]][y] <= 1
      /\ \A p \in Sections : w[n] \in map_gate[p] => D[p][w[n]] = n - 1
    BY DEF ShortestWalk
<1>3. SUFFICES ASSUME T # {} PROVE FALSE
  <2> SUFFICES ASSUME NEW a \in 1 .. n, NEW b \in 1 .. n, w[a] = w[b], a # b
               PROVE  T # {}
    OBVIOUS
  <2>1. a < b \/ b < a
    BY <1>1
  <2> QED
    BY <2>1
<1>4. PICK i \in T : \A h \in T : i <= h
  <2>1. T \in SUBSET (1 .. n) /\ 1 \in Int /\ n \in Int
    BY <1>1
  <2> HIDE DEF T
  <2> QED
    BY <1>3, <2>1, LowestNumber
<1>5. PICK j \in 1 .. n : j > i /\ w[j] = w[i]
    OBVIOUS
<1>6. i \in 1 .. n /\ i \in Int /\ j \in Int /\ 1 <= i /\ i < j /\ j <= n
    BY <1>1, <1>5
<1>7. \A h \in 1 .. i - 1 : \A l \in 1 .. n : w[l] = w[h] => l = h
  <2> SUFFICES ASSUME NEW h \in 1 .. i - 1, NEW l \in 1 .. n, w[l] = w[h], l # h
               PROVE  FALSE
    OBVIOUS
  <2>1. h \in 1 .. n /\ h < i /\ h \in Int /\ l \in Int
    BY <1>1, <1>6
  <2>2. l > h \/ h > l
    BY <1>1, <1>6
  <2>3. CASE l > h
    <3>1. h \in T
      BY <2>1, <2>3
    <3> QED
      BY <1>4, <1>6, <2>1, <3>1
  <2>4. CASE h > l
    <3>1. l \in T
      BY <2>1, <2>4
    <3>2. l < i /\ l \in Int
      BY <1>6, <2>1, <2>4
    <3> QED
      BY <1>4, <1>6, <3>1, <3>2
  <2> QED
    BY <2>2, <2>3, <2>4
<1> HIDE DEF T
<1>8. w[j] \in Sections /\ w[i] \in Sections /\ i \in 1 .. n - 1
    BY <1>1, <1>6
<1>9. j # n
  <2>1. i - 1 \in 1 .. n - 1 \/ i = 1
    BY <1>1, <1>6
  <2>2. CASE i # 1
    <3>1. (i - 1) + 1 = i /\ i - 1 # n - 1 /\ i - 1 \in 1 .. n
      BY <1>1, <1>6, <1>8, <2>2
    <3>2. w[i] \in map_gate[w[i - 1]] /\ D[w[i - 1]][w[i]] = i - 1 /\ w[i - 1] \in Sections
      BY <1>1, <1>2, <2>1, <2>2, <3>1
    <3> QED
      BY <1>2, <1>5, <3>1, <3>2
  <2> QED
    BY <1>5, <2>2
<1>10. j \in 1 .. n - 1 /\ j - 1 \in 1 .. n - 1 /\ (j - 1) + 1 = j /\ j \in 2 .. n - 1
       /\ j - 1 \in 1 .. n - 2 /\ (j - 1) + 2 = j + 1 /\ j + 1 \in 1 .. n /\ j - 1 \in 1 .. n
    BY <1>1, <1>6, <1>9
<1>11. /\ w[j + 1] \in map_gate[w[j]] \cap P /\ D[w[j]][w[j + 1]] = j
       /\ w[j] \in map_gate[w[j - 1]] /\ w[j - 1] # w[j + 1] /\ w[j + 1] \in Sections
       /\ w[j - 1] \in Sections
    BY <1>1, <1>2, <1>10 DEF Legal
<1>12. i # 1
    BY <1>2, <1>5, <1>6, <1>11
<1>13. /\ i - 1 \in 1 .. n - 2 /\ (i - 1) + 1 = i /\ (i - 1) + 2 = i + 1 /\ i - 1 \in 1 .. n - 1
       /\ i - 1 \in 1 .. i - 1 /\ i - 1 \in 1 .. n /\ i \in 2 .. n - 1 /\ i + 1 \in 1 .. n
    BY <1>1, <1>6, <1>10, <1>12
<1>14. /\ w[i] \in map_gate[w[i - 1]] \cap P /\ D[w[i - 1]][w[i]] = i - 1
       /\ Legal(w[i - 1], w[i], w[i + 1]) /\ w[i - 1] \in Sections /\ w[i + 1] \in Sections
    BY <1>1, <1>2, <1>13
<1>15. ~ Legal(w[i - 1], w[i], w[j + 1])
  <2> SUFFICES ASSUME Legal(w[i - 1], w[i], w[j + 1]) PROVE FALSE
    OBVIOUS
  <2>1. D[w[i]][w[j + 1]] <= D[w[i - 1]][w[i]] + 1
    BY <1>8, <1>11, <1>14 DEF ShortestWalk
  <2> QED
    BY <1>5, <1>6, <1>11, <1>14, <2>1
<1>16. w[j + 1] # w[i - 1] /\ w[j - 1] # w[i - 1]
  <2>1. j + 1 # i - 1 /\ j - 1 # i - 1
    BY <1>6
  <2> QED
    BY <1>7, <1>10, <1>13, <2>1
<1>17. PICK f \in Forced : f[1] = w[i - 1] /\ f[2] = w[i] /\ f[3] # w[j + 1]
    BY <1>5, <1>11, <1>15, <1>16 DEF Legal
<1>18. f = <<w[i - 1], w[i], w[i + 1]>>
  <2>1. f[3] = w[i + 1]
    BY <1>14, <1>17 DEF Legal
  <2>2. f = <<f[1], f[2], f[3]>>
    BY DEF Forced
  <2> QED
    BY <1>17, <2>1, <2>2
<1>19. w[j - 1] = w[i + 1] /\ w[j + 1] # w[i + 1]
    BY <1>5, <1>11, <1>16, <1>17, <1>18, ForcedCases
<1>20. LoopAt(w, n, i, j)
  <2>1. j # i + 1 /\ j # i + 2
    <3>1. j = i + 1 => w[j - 1] = w[i]
      BY <1>6
    <3>2. \A s \in Sections : s \notin map_gate[s]
      BY DEF Sections, map_gate
    <3>3. j = i + 2 => w[i] = w[i + 2] /\ i \in 1 .. n - 2
      <4>1. j = i + 2 => i \in 1 .. n - 2
        BY <1>1, <1>6
      <4> QED
        BY <1>5, <4>1
    <3>4. \A h \in 1 .. n - 2 : w[h + 2] # w[h]
      BY <1>2 DEF Legal
    <3>5. j # i + 1
      BY <1>5, <1>8, <1>11, <3>1, <3>2
    <3> QED
      BY <3>3, <3>4, <3>5
  <2>2. i < j - 2
    BY <1>6, <2>1
  <2> QED
    BY <1>5, <1>7, <1>10, <1>13, <1>19, <2>2 DEF LoopAt
<1>21. \/ w[i - 1] = 3 /\ w[i] = 2 /\ w[i + 1] = 1 /\ w[j + 1] = 14
       \/ w[i - 1] = 2 /\ w[i] = 3 /\ w[i + 1] = 4 /\ w[j + 1] = 8
       \/ w[i - 1] = 11 /\ w[i] = 12 /\ w[i + 1] = 7 /\ w[j + 1] = 5
       \/ w[i - 1] = 6 /\ w[i] = 5 /\ w[i + 1] = 4 /\ w[j + 1] = 12
       \/ w[i - 1] = 5 /\ w[i] = 12 /\ w[i + 1] = 7 /\ w[j + 1] = 11
       \/ w[i - 1] = 12 /\ w[i] = 5 /\ w[i + 1] = 4 /\ w[j + 1] = 6
       \/ w[i - 1] = 8 /\ w[i] = 3 /\ w[i + 1] = 4 /\ w[j + 1] = 2
       \/ w[i - 1] = 3 /\ w[i] = 8 /\ w[i + 1] = 7 /\ w[j + 1] = 9
    BY <1>5, <1>11, <1>16, <1>18, <1>19, ForcedCases
<1> QED
    BY <1>20, <1>21, NoLoop3To2, NoLoop2To3, NoLoop11To12, NoLoop6To5,
       NoLoop5To12, NoLoop12To5, NoLoop8To3, NoLoop3To8
=============================================================================
