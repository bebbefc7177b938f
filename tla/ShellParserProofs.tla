-------------------------- MODULE ShellParserProofs --------------------------
(***************************************************************************)
(* What holds of the parser for every set of lines, of token lists and of  *)
(* targets: no access is out of bounds, every block is freed once,         *)
(* whichever allocation fails, and each of the three functions gives the   *)
(* result that a definition on whole inputs gives.                         *)
(*                                                                         *)
(* An array grows by doubling (GrowingArray), what pipeline_free frees and *)
(* the value of a port are folds, and a quote at a place of a line depends *)
(* on the places before it: these are recursive functions, and what is     *)
(* said of them is proved by induction over the naturals (Induct).         *)
(***************************************************************************)
EXTENDS ShellParser, GrowingArray, Ordered, FiniteSetTheorems, SequenceTheorems, TLAPS

-----------------------------------------------------------------------------
(* Induction, and array_grow *)

\* A least number outside T would leave a finite set that fits into a smaller one.
LEMMA Induct == ASSUME NEW T, 0 \in T, \A n \in Nat : n \in T => n + 1 \in T
                PROVE  Nat \subseteq T
<1> SUFFICES ASSUME NEW n \in Nat, n \notin T PROVE FALSE
  OBVIOUS
<1> DEFINE S == (0 .. n) \cap T
           U == S \ {0}
           f == [x \in S |-> x + 1]
<1>1. 0 \in S /\ f \in [S -> U] /\ \A x, y \in S : f[x] = f[y] => x = y
  OBVIOUS
<1>2. S \in SUBSET (0 .. n)
  OBVIOUS
<1> HIDE DEF S, f
<1>3. IsFiniteSet(0 .. n)
  BY FS_Interval
<1>4. IsFiniteSet(S)
  BY <1>2, <1>3, FS_Subset
<1>5. IsFiniteSet(U) /\ Cardinality(U) = Cardinality(S) - 1
  BY <1>1, <1>4, FS_RemoveElement
<1>6. Cardinality(S) \in Nat
  BY <1>4, FS_CardinalityType
<1> HIDE DEF U
<1>7. Cardinality(U) < Cardinality(S)
  BY <1>5, <1>6
<1>8. \E x, y \in S : x # y /\ f[x] = f[y]
  BY <1>1, <1>4, <1>5, <1>7, FS_PigeonHole
<1> QED BY <1>1, <1>8

\* The loop of array_grow ends: every turn brings m closer to what is needed.
Near(need, n) == {m \in Nat \ {0} : m + n >= need}
Doubling(need, f, m) == IF m >= need THEN m ELSE f[2 * m]
Doubles(need, D, f) == f = [m \in D |-> Doubling(need, f, m)]
Doubled(need) == CHOOSE f : f = [m \in Nat \ {0} |-> Doubling(need, f, m)]

\* The capacity is enough, or it is doubled.
LEMMA GrownIs ==
    ASSUME NEW cap, NEW need
    PROVE  Grown(cap, need) = IF cap >= need THEN cap
                              ELSE Doubled(need)[IF cap = 0 THEN 4 ELSE cap]
BY DEF Grown, Doubled, Doubling

\* The doubling is a function on all capacities: induction on how far m is from need.
LEMMA DoubledUnfolds ==
    ASSUME NEW need \in Nat
    PROVE  Doubled(need) = [m \in Nat \ {0} |-> Doubling(need, Doubled(need), m)]
<1> DEFINE Q == {n \in Nat : \E f : Doubles(need, Near(need, n), f)}
<1>1. 0 \in Q
  <2> DEFINE f == [m \in Near(need, 0) |-> m]
  <2>1. f = [m \in Near(need, 0) |-> Doubling(need, f, m)]
    BY DEF Near, Doubling
  <2> HIDE DEF f
  <2>2. Doubles(need, Near(need, 0), f)
    BY <2>1 DEF Doubles
  <2> QED BY <2>2
<1>2. \A n \in Nat : n \in Q => n + 1 \in Q
  <2> SUFFICES ASSUME NEW n \in Nat, n \in Q PROVE \E f : Doubles(need, Near(need, n + 1), f)
    OBVIOUS
  <2>1. PICK f : Doubles(need, Near(need, n), f)
    OBVIOUS
  <2> DEFINE g == [m \in Near(need, n + 1) |-> Doubling(need, f, m)]
  <2>2. ASSUME NEW m \in Near(need, n + 1), ~(m >= need)
        PROVE  2 * m \in Near(need, n) /\ 2 * m \in Near(need, n + 1)
    BY <2>2 DEF Near
  <2>3. ASSUME NEW m \in Near(need, n + 1), ~(m >= need) PROVE g[2 * m] = f[2 * m]
    <3>1. g[2 * m] = Doubling(need, f, 2 * m)
      BY <2>2, <2>3
    <3>2. f[2 * m] = Doubling(need, f, 2 * m)
      BY <2>1, <2>2, <2>3 DEF Doubles
    <3> QED BY <3>1, <3>2
  <2> HIDE DEF g
  <2>4. ASSUME NEW m \in Near(need, n + 1) PROVE Doubling(need, f, m) = Doubling(need, g, m)
    BY <2>3, <2>4 DEF Doubling
  <2>5. g = [m \in Near(need, n + 1) |-> Doubling(need, g, m)]
    BY <2>4 DEF g
  <2>6. Doubles(need, Near(need, n + 1), g)
    BY <2>5 DEF Doubles
  <2> QED BY <2>6
<1>3. Nat \subseteq Q
  <2> HIDE DEF Q
  <2> QED BY <1>1, <1>2, Induct
<1>4. Near(need, need) = Nat \ {0}
  BY DEF Near
<1>5. \E f : f = [m \in Nat \ {0} |-> Doubling(need, f, m)]
  <2>1. \E f : Doubles(need, Near(need, need), f)
    BY <1>3
  <2> QED BY <2>1, <1>4 DEF Doubles
<1> QED BY <1>5 DEF Doubled

\* What doubling ends with is enough, and no less than what it started with.
LEMMA DoubledEnough ==
    ASSUME NEW need \in Nat, NEW m \in Nat \ {0}
    PROVE  Doubled(need)[m] \in Nat /\ Doubled(need)[m] >= need /\ Doubled(need)[m] >= m
<1> DEFINE f == Doubled(need)
           Enough(k) == f[k] \in Nat /\ f[k] >= need /\ f[k] >= k
           Q == {n \in Nat : \A k \in Near(need, n) : Enough(k)}
<1>0. \A k \in Nat \ {0} : f[k] = IF k >= need THEN k ELSE f[2 * k]
  <2>1. f = [k \in Nat \ {0} |-> Doubling(need, f, k)]
    BY DoubledUnfolds
  <2> HIDE DEF f
  <2> QED BY <2>1 DEF Doubling
<1> HIDE DEF f
<1>1. 0 \in Q
  BY <1>0 DEF Near
<1>2. \A n \in Nat : n \in Q => n + 1 \in Q
  <2> SUFFICES ASSUME NEW n \in Nat, n \in Q, NEW k \in Near(need, n + 1) PROVE Enough(k)
    OBVIOUS
  <2>1. CASE k >= need
    BY <1>0, <2>1 DEF Near
  <2>2. CASE ~(k >= need)
    <3>1. 2 * k \in Near(need, n) /\ k \in Nat \ {0}
      BY <2>2 DEF Near
    <3>2. Enough(2 * k)
      BY <3>1
    <3>3. f[k] = f[2 * k]
      BY <1>0, <2>2, <3>1
    <3> QED BY <3>1, <3>2, <3>3
  <2> QED BY <2>1, <2>2
<1>3. Nat \subseteq Q
  <2> HIDE DEF Q
  <2> QED BY <1>1, <1>2, Induct
<1>4. need \in Q /\ m \in Near(need, need)
  BY <1>3 DEF Near
<1> QED BY <1>4 DEF f

\* What the callers of array_grow rely on.
LEMMA GrownEnough ==
    ASSUME NEW cap \in Nat, NEW need \in Nat
    PROVE  Grown(cap, need) \in Nat /\ Grown(cap, need) >= need /\ Grown(cap, need) >= cap
<1>1. CASE cap >= need
  BY <1>1, GrownIs
<1>2. CASE ~(cap >= need)
  <2> DEFINE m == IF cap = 0 THEN 4 ELSE cap
  <2>1. m \in Nat \ {0} /\ m >= cap
    OBVIOUS
  <2>2. Grown(cap, need) = Doubled(need)[m]
    BY <1>2, GrownIs
  <2> HIDE DEF m
  <2>3. Doubled(need)[m] \in Nat /\ Doubled(need)[m] >= need /\ Doubled(need)[m] >= m
    BY <2>1, DoubledEnough
  <2> QED BY <2>1, <2>2, <2>3
<1> QED BY <1>1, <1>2

-----------------------------------------------------------------------------
(* Folds over a sequence from left to right: they take the largest index off *)
(* a set of indices, so that they go through the beginnings of the sequence. *)

Most(s) == Pipe!Max(s)
ButLast(s) == s \ {Most(s)}

\* A set of indices that is not empty has a largest one.
LEMMA MostOf ==
    ASSUME NEW n \in Nat, NEW s \in SUBSET (1 .. n), s # {}
    PROVE  Most(s) \in s /\ \A k \in s : Most(s) >= k
<1> DEFINE Has(u) == \E k \in u : \A m \in u : k >= m
           Q == {m \in Nat : \A u \in SUBSET (1 .. m) : u # {} => Has(u)}
<1>1. 0 \in Q
  <2>1. 1 .. 0 = {}
    OBVIOUS
  <2>2. \A u \in SUBSET (1 .. 0) : u = {}
    BY <2>1
  <2> HIDE DEF Has
  <2> QED BY <2>2
<1>2. \A m \in Nat : m \in Q => m + 1 \in Q
  <2> SUFFICES ASSUME NEW m \in Nat, m \in Q, NEW u \in SUBSET (1 .. m + 1), u # {}
               PROVE  Has(u)
    OBVIOUS
  <2>1. CASE m + 1 \in u
    <3>1. \A k \in u : m + 1 >= k
      OBVIOUS
    <3> QED BY <2>1, <3>1
  <2>2. CASE m + 1 \notin u
    <3>1. u \in SUBSET (1 .. m)
      BY <2>2
    <3> QED BY <3>1
  <2> QED BY <2>1, <2>2
<1>3. Nat \subseteq Q
  <2> HIDE DEF Q
  <2> QED BY <1>1, <1>2, Induct
<1>4. Has(s)
  BY <1>3
<1> QED BY <1>4 DEF Most, Pipe!Max

\* Without its largest element a set of indices up to n + 1 goes up to n.
LEMMA ButLastOf ==
    ASSUME NEW n \in Nat, NEW s \in SUBSET (1 .. n + 1)
    PROVE  ButLast(s) \in SUBSET (1 .. n)
<1>1. CASE s = {}
  BY <1>1 DEF ButLast
<1>2. CASE s # {}
  <2>1. Most(s) \in s /\ \A k \in s : Most(s) >= k
    <3>1. n + 1 \in Nat
      OBVIOUS
    <3> QED BY <1>2, <3>1, MostOf
  <2>2. Most(s) \in 1 .. n + 1
    BY <2>1
  <2>3. ASSUME NEW k \in s, k # Most(s) PROVE k \in 1 .. n
    <3>1. k \in 1 .. n + 1 /\ Most(s) >= k
      BY <2>1
    <3> QED BY <3>1, <2>2, <2>3
  <2> QED BY <2>3 DEF ButLast
<1> QED BY <1>1, <1>2

\* What the fold takes off the first n + 1 indices is n + 1.
LEMMA Beginnings ==
    ASSUME NEW n \in Nat
    PROVE  /\ 1 .. n + 1 # {} /\ Most(1 .. n + 1) = n + 1 /\ ButLast(1 .. n + 1) = 1 .. n
           /\ 1 .. 0 = {}
<1>1. Most(1 .. n + 1) \in 1 .. n + 1 /\ \A k \in 1 .. n + 1 : Most(1 .. n + 1) >= k
  <2>1. n + 1 \in Nat /\ 1 .. n + 1 \in SUBSET (1 .. n + 1) /\ 1 .. n + 1 # {}
    OBVIOUS
  <2> QED BY <2>1, MostOf
<1>2. Most(1 .. n + 1) = n + 1
  BY <1>1
<1> QED BY <1>2 DEF ButLast

\* A fold that puts an element e of a sequence to what there is by G exists.
Folds(G, base, n, h) ==
    \A s \in SUBSET (1 .. n) :
       h[s] = IF s = {} THEN base ELSE G[<<h[ButLast(s)], Most(s)>>]

\* There is one for every base and G: induction on n.
LEMMA FoldExists ==
    ASSUME NEW n \in Nat, NEW V, NEW base \in V, NEW G \in [V \X (1 .. n) -> V]
    PROVE  \E h \in [SUBSET (1 .. n) -> V] : Folds(G, base, n, h)
<1> DEFINE Has(m) == \E h \in [SUBSET (1 .. m) -> V] : Folds(G, base, m, h)
           Q == {m \in Nat : m <= n => Has(m)}
<1>1. 0 \in Q
  <2> DEFINE h == [s \in SUBSET (1 .. 0) |-> base]
  <2>1. h \in [SUBSET (1 .. 0) -> V]
    OBVIOUS
  <2>2. Folds(G, base, 0, h)
    <3>1. \A s \in SUBSET (1 .. 0) : s = {}
      OBVIOUS
    <3> QED BY <3>1 DEF Folds
  <2> HIDE DEF h
  <2> QED BY <2>1, <2>2
<1>2. \A m \in Nat : m \in Q => m + 1 \in Q
  <2> SUFFICES ASSUME NEW m \in Nat, m \in Q, m + 1 <= n PROVE Has(m + 1)
    <3>1. \A m \in Nat : m + 1 \in Nat
      OBVIOUS
    <3> HIDE DEF Has
    <3> QED BY <3>1
  <2>0. Has(m)
    <3>1. m <= n
      OBVIOUS
    <3> HIDE DEF Has
    <3> QED BY <3>1
  <2>1. PICK h \in [SUBSET (1 .. m) -> V] : Folds(G, base, m, h)
    BY <2>0
  <2> DEFINE S == SUBSET (1 .. m + 1)
             g == [s \in S |-> IF s = {} THEN base ELSE G[<<h[ButLast(s)], Most(s)>>]]
  <2>2. ASSUME NEW s \in S PROVE ButLast(s) \in SUBSET (1 .. m) /\ ButLast(s) \in S
    <3>1. ButLast(s) \in SUBSET (1 .. m)
      BY ButLastOf
    <3> QED BY <3>1
  <2>3. ASSUME NEW s \in S, s # {} PROVE <<h[ButLast(s)], Most(s)>> \in V \X (1 .. n)
    <3>1. Most(s) \in s
      <4>1. m + 1 \in Nat
        OBVIOUS
      <4> QED BY <2>3, <4>1, MostOf
    <3>2. h[ButLast(s)] \in V
      BY <2>2
    <3>3. Most(s) \in 1 .. n
      <4>1. Most(s) \in 1 .. m + 1
        BY <3>1
      <4> QED BY <4>1
    <3> QED BY <3>2, <3>3
  <2>4. g \in [S -> V]
    BY <2>3
  <2>5. ASSUME NEW s \in SUBSET (1 .. m) PROVE g[s] = h[s]
    <3>1. s \in S
      OBVIOUS
    <3>2. h[s] = IF s = {} THEN base ELSE G[<<h[ButLast(s)], Most(s)>>]
      BY <2>1 DEF Folds
    <3> QED BY <3>1, <3>2
  <2>6. ASSUME NEW s \in S
        PROVE  g[s] = IF s = {} THEN base ELSE G[<<g[ButLast(s)], Most(s)>>]
    <3>1. g[ButLast(s)] = h[ButLast(s)]
      BY <2>2, <2>5
    <3> QED BY <3>1
  <2> HIDE DEF g
  <2>7. Folds(G, base, m + 1, g)
    BY <2>6 DEF Folds
  <2> QED BY <2>4, <2>7
<1>3. Nat \subseteq Q
  <2> HIDE DEF Q
  <2> QED BY <1>1, <1>2, Induct
<1>4. n \in Q /\ n <= n
  <2> HIDE DEF Q
  <2> QED BY <1>3
<1>5. Has(n)
  <2> HIDE DEF Has
  <2> QED BY <1>4
<1> QED BY <1>5

\* Sums.
TotalBody(f, h, s) == IF s = {} THEN 0 ELSE h[ButLast(s)] + f[Most(s)]
TotalFold(f) == CHOOSE h : h = [s \in SUBSET DOMAIN f |-> TotalBody(f, h, s)]

\* Total is the fold over all indices.
LEMMA TotalIs == ASSUME NEW f PROVE Pipe!Total(f) = TotalFold(f)[DOMAIN f]
BY DEF Pipe!Total, Pipe!FoldLeft, Pipe!MapThenFoldSet, TotalFold, TotalBody, Most, ButLast

\* It adds the numbers one by one.
LEMMA TotalSteps ==
    ASSUME NEW n \in Nat, NEW f \in [1 .. n -> Nat]
    PROVE  /\ TotalFold(f)[1 .. 0] = 0
           /\ \A k \in 0 .. n - 1 : TotalFold(f)[1 .. k + 1] = TotalFold(f)[1 .. k] + f[k + 1]
<1> DEFINE S == SUBSET (1 .. n)
           F == TotalFold(f)
           G == [x \in Nat \X (1 .. n) |-> x[1] + f[x[2]]]
<1>1. G \in [Nat \X (1 .. n) -> Nat]
  OBVIOUS
<1>2. PICK h \in [S -> Nat] : Folds(G, 0, n, h)
  <2> HIDE DEF G
  <2> QED BY <1>1, FoldExists
<1>3. h = [s \in S |-> TotalBody(f, h, s)]
  <2> SUFFICES ASSUME NEW s \in S PROVE h[s] = TotalBody(f, h, s)
    OBVIOUS
  <2>1. h[s] = IF s = {} THEN 0 ELSE G[<<h[ButLast(s)], Most(s)>>]
    BY <1>2 DEF Folds
  <2>2. s # {} => Most(s) \in 1 .. n /\ ButLast(s) \in S
    BY MostOf DEF ButLast
  <2>3. s # {} => G[<<h[ButLast(s)], Most(s)>>] = h[ButLast(s)] + f[Most(s)]
    BY <2>2
  <2> QED BY <2>1, <2>3 DEF TotalBody
<1>4. F = [s \in S |-> TotalBody(f, F, s)]
  <2>1. DOMAIN f = 1 .. n
    OBVIOUS
  <2>2. \E g : g = [s \in SUBSET DOMAIN f |-> TotalBody(f, g, s)]
    BY <1>3, <2>1
  <2>3. F = [s \in SUBSET DOMAIN f |-> TotalBody(f, F, s)]
    BY <2>2 DEF TotalFold
  <2> QED BY <2>1, <2>3
<1> HIDE DEF F, S
<1>5. \A s \in S : F[s] = TotalBody(f, F, s)
  BY <1>4
<1>6. F[1 .. 0] = 0
  <2>1. 1 .. 0 = {} /\ {} \in S
    BY DEF S
  <2> QED BY <1>5, <2>1 DEF TotalBody
<1>7. ASSUME NEW k \in 0 .. n - 1 PROVE F[1 .. k + 1] = F[1 .. k] + f[k + 1]
  <2>1. 1 .. k + 1 \in S /\ k \in Nat
    BY DEF S
  <2>2. F[1 .. k + 1] = TotalBody(f, F, 1 .. k + 1)
    BY <1>5, <2>1
  <2>3. 1 .. k + 1 # {} /\ Most(1 .. k + 1) = k + 1 /\ ButLast(1 .. k + 1) = 1 .. k
    BY <2>1, Beginnings
  <2> QED BY <2>2, <2>3 DEF TotalBody
<1> QED BY <1>6, <1>7 DEF F

\* The sum of natural numbers is one.
LEMMA TotalType ==
    ASSUME NEW n \in Nat, NEW f \in [1 .. n -> Nat]
    PROVE  \A k \in 0 .. n : TotalFold(f)[1 .. k] \in Nat
<1> DEFINE F == TotalFold(f)
           Q == {k \in Nat : k <= n => F[1 .. k] \in Nat}
<1>0. F[1 .. 0] = 0 /\ \A k \in 0 .. n - 1 : F[1 .. k + 1] = F[1 .. k] + f[k + 1]
  BY TotalSteps
<1> HIDE DEF F
<1>1. 0 \in Q
  BY <1>0
<1>2. \A k \in Nat : k \in Q => k + 1 \in Q
  <2> SUFFICES ASSUME NEW k \in Nat, k \in Q, k + 1 <= n PROVE F[1 .. k + 1] \in Nat
    OBVIOUS
  <2>1. k \in 0 .. n - 1 /\ f[k + 1] \in Nat
    OBVIOUS
  <2> QED BY <1>0, <2>1
<1>3. Nat \subseteq Q
  <2> HIDE DEF Q
  <2> QED BY <1>1, <1>2, Induct
<1> QED BY <1>3 DEF F

\* One more number.
LEMMA TotalMore ==
    ASSUME NEW n \in Nat, NEW f \in [1 .. n -> Nat], NEW g \in [1 .. n + 1 -> Nat],
           \A k \in 1 .. n : g[k] = f[k]
    PROVE  /\ Pipe!Total(f) \in Nat
           /\ Pipe!Total(g) = Pipe!Total(f) + g[n + 1]
<1> DEFINE F == TotalFold(f)
           H == TotalFold(g)
           Q == {k \in Nat : k <= n => F[1 .. k] = H[1 .. k]}
<1>1. F[1 .. 0] = 0 /\ \A k \in 0 .. n - 1 : F[1 .. k + 1] = F[1 .. k] + f[k + 1]
  BY TotalSteps
<1>2. H[1 .. 0] = 0 /\ \A k \in 0 .. n : H[1 .. k + 1] = H[1 .. k] + g[k + 1]
  <2>1. n + 1 \in Nat /\ (n + 1) - 1 = n
    OBVIOUS
  <2> QED BY <2>1, TotalSteps
<1>3. F[1 .. n] \in Nat
  BY TotalType
<1>4. Pipe!Total(f) = F[1 .. n] /\ Pipe!Total(g) = H[1 .. n + 1]
  <2>1. DOMAIN f = 1 .. n /\ DOMAIN g = 1 .. n + 1
    OBVIOUS
  <2> QED BY <2>1, TotalIs
<1> HIDE DEF F, H
<1>5. 0 \in Q
  BY <1>1, <1>2
<1>6. \A k \in Nat : k \in Q => k + 1 \in Q
  <2> SUFFICES ASSUME NEW k \in Nat, k \in Q, k + 1 <= n PROVE F[1 .. k + 1] = H[1 .. k + 1]
    OBVIOUS
  <2>1. k \in 0 .. n - 1 /\ k \in 0 .. n /\ g[k + 1] = f[k + 1]
    OBVIOUS
  <2> QED BY <1>1, <1>2, <2>1
<1>7. Nat \subseteq Q
  <2> HIDE DEF Q
  <2> QED BY <1>5, <1>6, Induct
<1>8. F[1 .. n] = H[1 .. n]
  BY <1>7
<1> QED BY <1>2, <1>3, <1>4, <1>8

\* No numbers.
LEMMA TotalNone == ASSUME NEW f \in [1 .. 0 -> Nat] PROVE Pipe!Total(f) = 0
<1>1. DOMAIN f = 1 .. 0 /\ 0 \in Nat
  OBVIOUS
<1>2. TotalFold(f)[1 .. 0] = 0
  BY <1>1, TotalSteps
<1> QED BY <1>1, <1>2, TotalIs
-----------------------------------------------------------------------------
(* What pipeline_free leaves of the blocks. *)

Redirects == {Pipe!NoRedirect} \cup [type : Pipe!Accepted, target : Texts]
Commands == [argv : Seq(Texts), input : Redirects, output : Redirects]
Blocks == [tokens : Int, commands : Int, argvs : Int, args : Int, targets : Int]

ArgsIn(ps) == [k \in DOMAIN ps |-> Len(ps[k].argv)]
TargetsIn(ps) == [k \in DOMAIN ps |-> Pipe!TargetsOf(ps[k])]
OneOf(redirect) == IF redirect.type = "none" THEN 0 ELSE 1

\* A command has a target for each of its redirections.
LEMMA TargetsAre ==
    ASSUME NEW cmd \in Commands
    PROVE  /\ Pipe!TargetsOf(cmd) = OneOf(cmd.input) + OneOf(cmd.output)
           /\ Pipe!TargetsOf(cmd) \in Nat
<1> DEFINE S == {s \in {"input", "output"} : cmd[s].type # "none"}
<1>1. Pipe!TargetsOf(cmd) = Cardinality(S)
  BY DEF Pipe!TargetsOf, Pipe!Cardinality, Cardinality
<1>2. cmd["input"] = cmd.input /\ cmd["output"] = cmd.output
  BY DEF Commands
<1>3. Cardinality({}) = 0 /\ IsFiniteSet({})
  BY FS_EmptySet
<1>4. \A s \in {"input", "output"} : IsFiniteSet({s}) /\ Cardinality({s}) = 1
  BY FS_Singleton
<1>5. Cardinality({"input", "output"}) = 2
  <2>1. {"input", "output"} = {"input"} \cup {"output"} /\ "output" \notin {"input"}
    OBVIOUS
  <2>2. Cardinality({"input"} \cup {"output"}) = 1 + 1
    BY <1>4, <2>1, FS_AddElement
  <2> QED BY <2>1, <2>2
<1>6. CASE cmd.input.type = "none" /\ cmd.output.type = "none"
  <2>1. S = {}
    BY <1>2, <1>6
  <2> QED BY <1>1, <1>3, <1>6, <2>1 DEF OneOf
<1>7. CASE cmd.input.type # "none" /\ cmd.output.type = "none"
  <2>1. S = {"input"}
    BY <1>2, <1>7
  <2> QED BY <1>1, <1>4, <1>7, <2>1 DEF OneOf
<1>8. CASE cmd.input.type = "none" /\ cmd.output.type # "none"
  <2>1. S = {"output"}
    BY <1>2, <1>8
  <2>2. OneOf(cmd.input) = 0 /\ OneOf(cmd.output) = 1
    BY <1>8 DEF OneOf
  <2>3. Cardinality(S) = 1
    BY <1>4, <2>1
  <2> HIDE DEF S
  <2> QED BY <1>1, <2>2, <2>3
<1>9. CASE cmd.input.type # "none" /\ cmd.output.type # "none"
  <2>1. S = {"input", "output"}
    BY <1>2, <1>9
  <2> QED BY <1>1, <1>5, <1>9, <2>1 DEF OneOf
<1> QED BY <1>6, <1>7, <1>8, <1>9

\* What is left of l without the blocks of one command, and of some commands.
Without(l, commands, argvs, args, targs) ==
    [tokens |-> l.tokens, commands |-> l.commands - commands,
     argvs |-> l.argvs - argvs, args |-> l.args - args, targets |-> l.targets - targs]

\* Blocks are still blocks when some are gone.
LEMMA WithoutType ==
    ASSUME NEW l \in Blocks, NEW w \in Int, NEW x \in Int, NEW y \in Int, NEW z \in Int
    PROVE  Without(l, w, x, y, z) \in Blocks
BY DEF Without, Blocks

\* One command more.
LEMMA WithoutTwice ==
    ASSUME NEW l \in Blocks, NEW k \in Nat, NEW y \in Nat, NEW z \in Nat,
           NEW args \in Nat, NEW targs \in Nat
    PROVE  Without(Without(l, 0, k, y, z), 0, 1, args, targs)
           = Without(l, 0, k + 1, y + args, z + targs)
<1>1. /\ l.commands \in Int /\ l.argvs \in Int /\ l.args \in Int /\ l.targets \in Int
  BY DEF Blocks
<1>2. /\ (l.commands - 0) - 0 = l.commands - 0
      /\ (l.argvs - k) - 1 = l.argvs - (k + 1)
      /\ (l.args - y) - args = l.args - (y + args)
      /\ (l.targets - z) - targs = l.targets - (z + targs)
  BY <1>1
<1> QED BY <1>2 DEF Without

\* What command_free frees.
LEMMA CommandFreed ==
    ASSUME NEW l \in Blocks, NEW cmd \in Commands, NEW cap \in Nat
    PROVE  Pipe!AfterCommandFree(l, cmd, cap)
           = Without(l, 0, IF cap > 0 THEN 1 ELSE 0, Len(cmd.argv), Pipe!TargetsOf(cmd))
<1>1. Pipe!TargetsOf(cmd) \in Nat
  BY TargetsAre
<1>2. cmd.argv \in Seq(Texts) /\ Len(cmd.argv) \in Nat
  BY DEF Commands
<1> DEFINE y == Len(cmd.argv)
           z == Pipe!TargetsOf(cmd)
           x == IF cap > 0 THEN 1 ELSE 0
           left == [l EXCEPT !.args = @ - y, !.argvs = IF cap > 0 THEN @ - 1 ELSE @,
                             !.targets = @ - z]
<1>3. Pipe!AfterCommandFree(l, cmd, cap) = left
  BY DEF Pipe!AfterCommandFree
<1>4. y \in Nat /\ z \in Nat
  BY <1>1, <1>2
<1> HIDE DEF y, z
<1>5. /\ l.tokens \in Int /\ l.commands \in Int /\ l.argvs \in Int
      /\ DOMAIN l = {"tokens", "commands", "argvs", "args", "targets"}
  BY DEF Blocks
<1>6. l = [tokens |-> l.tokens, commands |-> l.commands, argvs |-> l.argvs,
           args |-> l.args, targets |-> l.targets]
  BY DEF Blocks
<1>7. left = [tokens |-> l.tokens, commands |-> l.commands,
              argvs |-> IF cap > 0 THEN l.argvs - 1 ELSE l.argvs,
              args |-> l.args - y, targets |-> l.targets - z]
  <2> DEFINE l1 == [l EXCEPT !.args = @ - y]
             l2 == [l1 EXCEPT !.argvs = IF cap > 0 THEN @ - 1 ELSE @]
             l3 == [l2 EXCEPT !.targets = @ - z]
  <2>1. l1 = [tokens |-> l.tokens, commands |-> l.commands, argvs |-> l.argvs,
              args |-> l.args - y, targets |-> l.targets]
    BY <1>6
  <2> HIDE DEF l1
  <2>2. l2 = [tokens |-> l.tokens, commands |-> l.commands,
              argvs |-> IF cap > 0 THEN l.argvs - 1 ELSE l.argvs,
              args |-> l.args - y, targets |-> l.targets]
    BY <2>1
  <2> HIDE DEF l2
  <2>3. l3 = [tokens |-> l.tokens, commands |-> l.commands,
              argvs |-> IF cap > 0 THEN l.argvs - 1 ELSE l.argvs,
              args |-> l.args - y, targets |-> l.targets - z]
    BY <2>2
  <2>4. left = l3
    BY DEF l1, l2
  <2> QED BY <2>3, <2>4
<1>8. l.commands - 0 = l.commands
  BY <1>5
<1>9. (IF cap > 0 THEN l.argvs - 1 ELSE l.argvs) = l.argvs - x
  BY <1>5
<1>10. left = Without(l, 0, x, y, z)
  BY <1>7, <1>8, <1>9 DEF Without
<1> QED BY <1>3, <1>10 DEF y, z

\* Its result are blocks again.
LEMMA FreedIn ==
    ASSUME NEW l \in Blocks, NEW cmd \in Commands, NEW cap \in Nat
    PROVE  Pipe!AfterCommandFree(l, cmd, cap) \in Blocks
<1> DEFINE x == IF cap > 0 THEN 1 ELSE 0
           y == Len(cmd.argv)
           z == Pipe!TargetsOf(cmd)
<1>1. 0 \in Int /\ x \in Int
  OBVIOUS
<1>2. y \in Int
  BY DEF Commands
<1>3. z \in Int
  BY TargetsAre
<1>4. Pipe!AfterCommandFree(l, cmd, cap) = Without(l, 0, x, y, z)
  BY CommandFreed
<1> HIDE DEF x, y, z
<1>5. Without(l, 0, x, y, z) \in Blocks
  BY <1>1, <1>2, <1>3, WithoutType
<1> QED BY <1>4, <1>5

\* There is a number for every command.
LEMMA NumbersIn ==
    ASSUME NEW ps \in Seq(Commands)
    PROVE  /\ ArgsIn(ps) \in [1 .. Len(ps) -> Nat]
           /\ TargetsIn(ps) \in [1 .. Len(ps) -> Nat]
<1>1. DOMAIN ps = 1 .. Len(ps) /\ \A k \in 1 .. Len(ps) : ps[k] \in Commands
  OBVIOUS
<1>2. ASSUME NEW k \in 1 .. Len(ps)
      PROVE  Len(ps[k].argv) \in Nat /\ Pipe!TargetsOf(ps[k]) \in Nat
  <2>1. ps[k] \in Commands
    BY <1>1
  <2>2. ps[k].argv \in Seq(Texts)
    BY <2>1 DEF Commands
  <2> QED BY <2>1, <2>2, TargetsAre
<1> QED BY <1>1, <1>2 DEF ArgsIn, TargetsIn

FreeBody(l, ps, h, s) ==
    IF s = {} THEN l ELSE Pipe!AfterCommandFree(h[ButLast(s)], ps[Most(s)], 1)
FreeFold(l, ps) == CHOOSE h : h = [s \in SUBSET DOMAIN ps |-> FreeBody(l, ps, h, s)]

\* pipeline_free is the fold over all commands, and then the array.
LEMMA FreeIs ==
    ASSUME NEW l, NEW ps, NEW cap
    PROVE  Pipe!AfterPipelineFree(l, ps, cap)
           = [FreeFold(l, ps)[DOMAIN ps] EXCEPT !.commands = IF cap > 0 THEN @ - 1 ELSE @]
BY DEF Pipe!AfterPipelineFree, Pipe!FoldLeft, Pipe!MapThenFoldSet, FreeFold, FreeBody,
       Most, ButLast

\* It frees the commands one by one.
LEMMA FreeSteps ==
    ASSUME NEW l \in Blocks, NEW ps \in Seq(Commands)
    PROVE  /\ FreeFold(l, ps)[1 .. 0] = l
           /\ \A k \in 0 .. Len(ps) - 1 :
                FreeFold(l, ps)[1 .. k + 1]
                = Pipe!AfterCommandFree(FreeFold(l, ps)[1 .. k], ps[k + 1], 1)
<1> DEFINE n == Len(ps)
           S == SUBSET (1 .. n)
           F == FreeFold(l, ps)
           G == [x \in Blocks \X (1 .. n) |-> Pipe!AfterCommandFree(x[1], ps[x[2]], 1)]
<1>0. n \in Nat /\ DOMAIN ps = 1 .. n /\ \A k \in 1 .. n : ps[k] \in Commands
  OBVIOUS
<1> HIDE DEF n
<1>1. G \in [Blocks \X (1 .. n) -> Blocks]
  <2> SUFFICES ASSUME NEW x \in Blocks \X (1 .. n)
               PROVE  Pipe!AfterCommandFree(x[1], ps[x[2]], 1) \in Blocks
    OBVIOUS
  <2>1. x[1] \in Blocks /\ ps[x[2]] \in Commands /\ 1 \in Nat
    BY <1>0
  <2> QED BY <2>1, FreedIn
<1>2. PICK h \in [S -> Blocks] : Folds(G, l, n, h)
  <2> HIDE DEF G
  <2> QED BY <1>0, <1>1, FoldExists
<1>3. h = [s \in S |-> FreeBody(l, ps, h, s)]
  <2> SUFFICES ASSUME NEW s \in S PROVE h[s] = FreeBody(l, ps, h, s)
    OBVIOUS
  <2>1. h[s] = IF s = {} THEN l ELSE G[<<h[ButLast(s)], Most(s)>>]
    BY <1>2 DEF Folds
  <2>2. s # {} => Most(s) \in 1 .. n /\ ButLast(s) \in S
    BY <1>0, MostOf DEF ButLast
  <2>3. s # {} => G[<<h[ButLast(s)], Most(s)>>]
                  = Pipe!AfterCommandFree(h[ButLast(s)], ps[Most(s)], 1)
    BY <2>2
  <2> QED BY <2>1, <2>3 DEF FreeBody
<1>4. F = [s \in S |-> FreeBody(l, ps, F, s)]
  <2>2. \E g : g = [s \in SUBSET DOMAIN ps |-> FreeBody(l, ps, g, s)]
    BY <1>3, <1>0
  <2>3. F = [s \in SUBSET DOMAIN ps |-> FreeBody(l, ps, F, s)]
    BY <2>2 DEF FreeFold
  <2> QED BY <2>3, <1>0
<1> HIDE DEF F, S
<1>5. \A s \in S : F[s] = FreeBody(l, ps, F, s)
  BY <1>4
<1>6. F[1 .. 0] = l
  <2>1. 1 .. 0 = {} /\ {} \in S
    BY DEF S
  <2> QED BY <1>5, <2>1 DEF FreeBody
<1>7. ASSUME NEW k \in 0 .. n - 1
      PROVE  F[1 .. k + 1] = Pipe!AfterCommandFree(F[1 .. k], ps[k + 1], 1)
  <2>1. 1 .. k + 1 \in S /\ k \in Nat
    BY <1>0 DEF S
  <2>2. F[1 .. k + 1] = FreeBody(l, ps, F, 1 .. k + 1)
    BY <1>5, <2>1
  <2>3. 1 .. k + 1 # {} /\ Most(1 .. k + 1) = k + 1 /\ ButLast(1 .. k + 1) = 1 .. k
    BY <2>1, Beginnings
  <2> QED BY <2>2, <2>3 DEF FreeBody
<1> QED BY <1>6, <1>7 DEF F, n

\* pipeline_free frees the blocks of every command and the commands themselves.
LEMMA PipelineFreed ==
    ASSUME NEW l \in Blocks, NEW ps \in Seq(Commands), NEW cap \in Nat
    PROVE  Pipe!AfterPipelineFree(l, ps, cap)
           = Without(l, IF cap > 0 THEN 1 ELSE 0, Len(ps), Pipe!Total(ArgsIn(ps)),
                     Pipe!Total(TargetsIn(ps)))
<1> DEFINE n == Len(ps)
           F == FreeFold(l, ps)
           A == TotalFold(ArgsIn(ps))
           T == TotalFold(TargetsIn(ps))
           Here(k) == F[1 .. k] = Without(l, 0, k, A[1 .. k], T[1 .. k])
           Q == {k \in Nat : k <= n => Here(k)}
<1>0. n \in Nat /\ DOMAIN ps = 1 .. n /\ \A k \in 1 .. n : ps[k] \in Commands
  OBVIOUS
<1>1. ArgsIn(ps) \in [1 .. n -> Nat] /\ TargetsIn(ps) \in [1 .. n -> Nat]
  BY NumbersIn
<1>2. /\ A[1 .. 0] = 0 /\ T[1 .. 0] = 0
      /\ \A k \in 0 .. n - 1 : /\ A[1 .. k + 1] = A[1 .. k] + ArgsIn(ps)[k + 1]
                               /\ T[1 .. k + 1] = T[1 .. k] + TargetsIn(ps)[k + 1]
  <2> HIDE DEF n
  <2> QED BY <1>0, <1>1, TotalSteps
<1>3. \A k \in 0 .. n : A[1 .. k] \in Nat /\ T[1 .. k] \in Nat
  <2> HIDE DEF n
  <2> QED BY <1>0, <1>1, TotalType
<1>4. F[1 .. 0] = l /\ \A k \in 0 .. n - 1 :
                         F[1 .. k + 1] = Pipe!AfterCommandFree(F[1 .. k], ps[k + 1], 1)
  BY FreeSteps
<1>5. Pipe!Total(ArgsIn(ps)) = A[1 .. n] /\ Pipe!Total(TargetsIn(ps)) = T[1 .. n]
  <2>1. DOMAIN ArgsIn(ps) = 1 .. n /\ DOMAIN TargetsIn(ps) = 1 .. n
    BY <1>1
  <2> QED BY <2>1, TotalIs
<1>6. \A k \in 1 .. n : /\ ArgsIn(ps)[k] = Len(ps[k].argv)
                        /\ TargetsIn(ps)[k] = Pipe!TargetsOf(ps[k])
                        /\ ArgsIn(ps)[k] \in Nat /\ TargetsIn(ps)[k] \in Nat
  BY <1>0, <1>1 DEF ArgsIn, TargetsIn
<1> HIDE DEF n, F, A, T
<1>7. Here(0)
  <2>1. l = Without(l, 0, 0, 0, 0)
    BY DEF Without, Blocks
  <2> QED BY <1>2, <1>4, <2>1
<1>8. \A k \in Nat : k \in Q => k + 1 \in Q
  <2> SUFFICES ASSUME NEW k \in Nat, k \in Q, k + 1 <= n PROVE Here(k + 1)
    <3>1. \A m \in Nat : m + 1 \in Nat
      OBVIOUS
    <3> HIDE DEF Here
    <3> QED BY <3>1
  <2>1. k \in 0 .. n - 1 /\ k \in 0 .. n /\ k + 1 \in 1 .. n /\ k <= n
    BY <1>0
  <2>2. Here(k)
    <3> HIDE DEF Here
    <3> QED BY <2>1
  <2> DEFINE before == F[1 .. k]
             cmd == ps[k + 1]
             y == A[1 .. k]
             z == T[1 .. k]
             args == Len(cmd.argv)
             targs == Pipe!TargetsOf(cmd)
  <2>3. before \in Blocks /\ before = Without(l, 0, k, y, z) /\ y \in Nat /\ z \in Nat
    <3>1. y \in Nat /\ z \in Nat
      BY <1>3, <2>1
    <3>2. 0 \in Int /\ k \in Int /\ y \in Int /\ z \in Int
      BY <3>1
    <3> HIDE DEF y, z
    <3>3. Without(l, 0, k, y, z) \in Blocks
      BY <3>2, WithoutType
    <3> QED BY <2>2, <3>1, <3>3 DEF y, z
  <2>4. cmd \in Commands
    BY <1>0, <2>1
  <2>5. F[1 .. k + 1] = Pipe!AfterCommandFree(before, cmd, 1)
    BY <1>4, <2>1
  <2>6. A[1 .. k + 1] = y + args /\ T[1 .. k + 1] = z + targs /\ args \in Nat /\ targs \in Nat
    BY <1>2, <1>6, <2>1
  <2> HIDE DEF before, cmd, y, z
  <2>7. F[1 .. k + 1] = Without(before, 0, 1, args, targs)
    <3>1. Pipe!AfterCommandFree(before, cmd, 1)
          = Without(before, 0, IF 1 > 0 THEN 1 ELSE 0, args, targs)
      BY <2>3, <2>4, CommandFreed
    <3> QED BY <2>5, <3>1
  <2> HIDE DEF args, targs
  <2>8. Without(before, 0, 1, args, targs) = Without(l, 0, k + 1, y + args, z + targs)
    <3>1. y \in Nat /\ z \in Nat /\ args \in Nat /\ targs \in Nat
      BY <2>3, <2>6
    <3>2. Without(Without(l, 0, k, y, z), 0, 1, args, targs)
          = Without(l, 0, k + 1, y + args, z + targs)
      BY <3>1, WithoutTwice
    <3> QED BY <2>3, <3>2
  <2> QED BY <2>6, <2>7, <2>8
<1>9. Here(n)
  <2>1. Nat \subseteq Q
    <3>1. 0 \in Q
      <4> HIDE DEF Here
      <4> QED BY <1>7
    <3> HIDE DEF Q
    <3> QED BY <1>8, <3>1, Induct
  <2>2. n \in Q /\ n <= n
    <3> HIDE DEF Q
    <3> QED BY <1>0, <2>1
  <2> HIDE DEF Here
  <2> QED BY <2>2
<1>10. A[1 .. n] \in Nat /\ T[1 .. n] \in Nat
  BY <1>0, <1>3
<1> DEFINE all == F[1 .. n]
           y == A[1 .. n]
           z == T[1 .. n]
<1>11. Pipe!AfterPipelineFree(l, ps, cap)
       = [all EXCEPT !.commands = IF cap > 0 THEN @ - 1 ELSE @]
  BY <1>0, FreeIs DEF F
<1>12. all = Without(l, 0, n, y, z)
  BY <1>9
<1> HIDE DEF all, y, z
<1>13. [all EXCEPT !.commands = IF cap > 0 THEN @ - 1 ELSE @]
       = Without(l, IF cap > 0 THEN 1 ELSE 0, n, y, z)
  <2>1. CASE cap > 0
    BY <1>12, <2>1 DEF Without, Blocks
  <2>2. CASE ~(cap > 0)
    BY <1>12, <2>2 DEF Without, Blocks
  <2> QED BY <2>1, <2>2
<1> QED BY <1>5, <1>11, <1>13 DEF n, y, z
-----------------------------------------------------------------------------
(* tokenize *)

TokTexts == Seq(Tok!Chars) \cup {Tok!NoText}
TokenSet == [type : Tok!Operators \cup {"WORD", "END"}, text : TokTexts, pos : Nat]
One(cap) == IF cap > 0 THEN 1 ELSE 0

TokTypeInv ==
    /\ line \in Seq(Tok!Chars) /\ i \in Nat /\ start \in Nat
    /\ tokens \in Seq(TokenSet) /\ tcap \in Nat
    /\ b \in Seq(Tok!Chars) /\ bcap \in Nat
    /\ pc \in {"token", "word", "failed", "freed", "succeeded"}

\* The indices and the room that is left; outside a word there is no buffer.
RoomInv ==
    /\ i <= Len(line)
    /\ Len(b) > 0 => Len(b) < bcap
    /\ pc # "word" => b = <<>> /\ bcap = 0
    /\ Len(tokens) <= tcap
    /\ pc = "freed" => tokens = <<>> /\ tcap = 0

LiveInv == live = [list |-> One(tcap), texts |-> Tok!TextsOf(tokens), buffer |-> One(bcap)]

\* As long as nothing failed, every word has a text and END comes last.
WordsHaveTexts ==
    \A k \in 1 .. Len(tokens) : tokens[k].type = "WORD" => tokens[k].text # Tok!NoText
EndInv ==
    /\ pc \in {"token", "word"} =>
         WordsHaveTexts /\ \A k \in 1 .. Len(tokens) : tokens[k].type # "END"
    /\ pc = "succeeded" => WordsHaveTexts /\ Pipe!EndsOnce(tokens)

TokInv == TokTypeInv /\ RoomInv /\ LiveInv /\ EndInv

\* Every step of the parser is one of tokenize, or leaves its state alone.
LEMMA TokSteps == [Next]_vars => [Tok!Next]_tokState
BY DEF Next, vars, TokNext, PipeNext, RedirectNext

\* No text of a word is taken for a missing one.
LEMMA InTexts == Seq(Tok!Chars) \subseteq TokTexts /\ Tok!NoText \in TokTexts
                 /\ \A s \in Seq(Tok!Chars) : s # Tok!NoText
<1>1. Seq(Tok!Chars) \subseteq TokTexts /\ Tok!NoText \in TokTexts
  BY DEF TokTexts
<1>2. ASSUME NEW s \in Seq(Tok!Chars), s = <<"none">> PROVE FALSE
  <2>1. Len(s) = 1 /\ s[1] = "none"
    BY <1>2
  <2>2. s[1] \in Tok!Chars
    BY <2>1
  <2>3. QED
    BY <2>1, <2>2 DEF Tok!Chars, Tok!Quotes, Tok!Operators
<1>3. QED
  BY <1>1, <1>2 DEF Tok!NoText

\* No tokens, no texts.
LEMMA TextsNone == Tok!TextsOf(<<>>) = 0
<1>1. {k \in DOMAIN <<>> : <<>>[k].text # Tok!NoText} = {}
  OBVIOUS
<1>2. Tok!TextsOf(<<>>) = Cardinality({k \in DOMAIN <<>> : <<>>[k].text # Tok!NoText})
  BY DEF Tok!TextsOf, Tok!Cardinality, Cardinality
<1>3. QED
  BY <1>1, <1>2, FS_EmptySet

\* How many texts there are with one more token.
LEMMA TextsMore ==
    ASSUME NEW S, NEW list \in Seq(S), NEW tk \in S
    PROVE  /\ Tok!TextsOf(list) \in Nat
           /\ Tok!TextsOf(Append(list, tk))
                = Tok!TextsOf(list) + (IF tk.text = Tok!NoText THEN 0 ELSE 1)
<1> DEFINE more == Append(list, tk)
           n == Len(list)
           T == {k \in 1 .. n : list[k].text # Tok!NoText}
           U == {k \in 1 .. n + 1 : more[k].text # Tok!NoText}
<1>1. n \in Nat /\ DOMAIN list = 1 .. n /\ Len(more) = n + 1 /\ DOMAIN more = 1 .. n + 1
      /\ more[n + 1] = tk /\ \A k \in 1 .. n : more[k] = list[k]
  BY AppendProperties, LenProperties
<1>2. Tok!TextsOf(list) = Cardinality(T) /\ Tok!TextsOf(more) = Cardinality(U)
  <2>1. Tok!TextsOf(list) = Cardinality({k \in DOMAIN list : list[k].text # Tok!NoText})
        /\ Tok!TextsOf(more) = Cardinality({k \in DOMAIN more : more[k].text # Tok!NoText})
    BY DEF Tok!TextsOf, Tok!Cardinality, Cardinality
  <2>2. QED
    BY <1>1, <2>1
<1>3. IsFiniteSet(T)
  <2>1. IsFiniteSet(1 .. n)
    BY <1>1, FS_Interval
  <2>2. T \subseteq 1 .. n
    OBVIOUS
  <2>3. QED
    BY <2>1, <2>2, FS_Subset
<1>4. 1 .. n + 1 = (1 .. n) \cup {n + 1} /\ n + 1 \notin 1 .. n
  BY <1>1
<1>5. U = IF tk.text = Tok!NoText THEN T ELSE T \cup {n + 1}
  <2> HIDE DEF more
  <2> QED BY <1>1, <1>4
<1>6. n + 1 \notin T
  BY <1>4
<1> HIDE DEF T, U, more, n
<1>7. Cardinality(T) \in Nat /\ Cardinality(T \cup {n + 1}) = Cardinality(T) + 1
  BY <1>3, <1>6, FS_CardinalityType, FS_AddElement
<1>8. QED
  BY <1>2, <1>5, <1>7 DEF more

\* The instance has the same Grown.
LEMMA GrownTok == \A cap, need : Tok!Grown(cap, need) = Grown(cap, need)
BY DEF Tok!Grown, Grown

\* A token is added: the list and its capacity grow together.
LEMMA AddedToken ==
    ASSUME TokTypeInv, Len(tokens) <= tcap,
           NEW type \in Tok!Operators \cup {"WORD", "END"},
           NEW text \in TokTexts, NEW pos \in Nat,
           NEW buf, NEW l,
           l = [list |-> One(tcap), texts |-> Tok!TextsOf(tokens), buffer |-> buf],
           NEW to, Tok!AddToken(l, type, text, pos, to)
    PROVE  /\ tokens' \in Seq(TokenSet) /\ tcap' \in Nat /\ Len(tokens') <= tcap'
           /\ live' = [list |-> One(tcap'), texts |-> Tok!TextsOf(tokens'), buffer |-> buf]
           /\ \/ pc' = to /\ tokens' = Append(tokens, Tok!Token(type, text, pos))
              \/ pc' = "failed"
<1> DEFINE cap == Grown(tcap, Len(tokens) + 1)
           tk == Tok!Token(type, text, pos)
           bad == Tok!Token(type, Tok!NoText, pos)
           grown == [list |-> 1, texts |-> Tok!TextsOf(tokens), buffer |-> buf]
<1>1. Len(tokens) \in Nat /\ Len(tokens) + 1 \in Nat /\ tcap \in Nat
  BY DEF TokTypeInv
<1>2. cap \in Nat /\ cap >= Len(tokens) + 1 /\ cap >= tcap
  BY <1>1, GrownEnough
<1>3. tk \in TokenSet /\ tk.text = text /\ bad \in TokenSet /\ bad.text = Tok!NoText
  BY InTexts DEF TokenSet, Tok!Token
<1>4. Tok!AllocIfNew(l, "list", tcap) = grown
  <2>1. l.list = One(tcap)
    OBVIOUS
  <2>2. [l EXCEPT !["list"] = IF tcap = 0 THEN l["list"] + 1 ELSE l["list"]] = grown
    BY <1>1, <2>1 DEF One
  <2>3. QED
    BY <2>2 DEF Tok!AllocIfNew
<1>5. \/ /\ tokens' = Append(tokens, tk) /\ tcap' = cap /\ pc' = to
         /\ live' = IF text = Tok!NoText THEN grown
                     ELSE [grown EXCEPT !.texts = grown.texts + 1]
      \/ live' = l /\ pc' = "failed" /\ tokens' = tokens /\ tcap' = tcap
      \/ tokens' = Append(tokens, bad) /\ tcap' = cap /\ pc' = "failed" /\ live' = grown
  <2> HIDE DEF tk, bad, grown, cap
  <2> QED BY <1>4, GrownTok DEF Tok!AddToken, Tok!OutOfMemory, tk, bad, cap
<1>6. /\ Tok!TextsOf(tokens) \in Nat
      /\ Tok!TextsOf(Append(tokens, tk))
         = Tok!TextsOf(tokens) + (IF text = Tok!NoText THEN 0 ELSE 1)
      /\ Tok!TextsOf(Append(tokens, bad)) = Tok!TextsOf(tokens)
  <2> HIDE DEF tk, bad
  <2>1. tokens \in Seq(TokenSet)
    BY DEF TokTypeInv
  <2>2. Tok!TextsOf(tokens) \in Nat
        /\ Tok!TextsOf(Append(tokens, tk))
         = Tok!TextsOf(tokens) + (IF tk.text = Tok!NoText THEN 0 ELSE 1)
    BY <1>3, <2>1, TextsMore
  <2>3. Tok!TextsOf(Append(tokens, bad))
        = Tok!TextsOf(tokens) + (IF bad.text = Tok!NoText THEN 0 ELSE 1)
    BY <1>3, <2>1, TextsMore
  <2> QED BY <1>3, <2>2, <2>3
<1>7. One(cap) = 1
  BY <1>1, <1>2 DEF One
<1>8. /\ Append(tokens, tk) \in Seq(TokenSet) /\ Len(Append(tokens, tk)) = Len(tokens) + 1
      /\ Append(tokens, bad) \in Seq(TokenSet) /\ Len(Append(tokens, bad)) = Len(tokens) + 1
  <2> HIDE DEF tk, bad
  <2> QED BY <1>3 DEF TokTypeInv
<1> HIDE DEF tk, bad, cap
<1>9. CASE tokens' = Append(tokens, tk) /\ tcap' = cap /\ pc' = to
           /\ live' = IF text = Tok!NoText THEN grown
                     ELSE [grown EXCEPT !.texts = grown.texts + 1]
  <2>1. live' = [list |-> One(tcap'), texts |-> Tok!TextsOf(tokens'), buffer |-> buf]
    BY <1>6, <1>7, <1>9
  <2>2. tokens' \in Seq(TokenSet) /\ tcap' \in Nat /\ Len(tokens') <= tcap'
    BY <1>1, <1>2, <1>8, <1>9
  <2>3. QED
    BY <1>9, <2>1, <2>2 DEF tk
<1>10. CASE live' = l /\ pc' = "failed" /\ tokens' = tokens /\ tcap' = tcap
  BY <1>10 DEF TokTypeInv
<1>11. CASE tokens' = Append(tokens, bad) /\ tcap' = cap /\ pc' = "failed" /\ live' = grown
  <2>1. live' = [list |-> One(tcap'), texts |-> Tok!TextsOf(tokens'), buffer |-> buf]
    BY <1>6, <1>7, <1>11
  <2>2. tokens' \in Seq(TokenSet) /\ tcap' \in Nat /\ Len(tokens') <= tcap'
    BY <1>1, <1>2, <1>8, <1>11
  <2>3. QED
    BY <1>11, <2>1, <2>2
<1>12. QED
  BY <1>5, <1>9, <1>10, <1>11

\* The line ends where NUL is, and not before.
LEMMA CharAt ==
    ASSUME TokTypeInv, RoomInv
    PROVE  /\ i < Len(line) <=> Tok!At(i) # "NUL"
           /\ Tok!At(i) # "NUL" => Tok!At(i) \in Tok!Chars
           /\ Len(line) \in Nat
<1>1. Len(line) \in Nat /\ \A k \in 1 .. Len(line) : line[k] \in Tok!Chars
  BY DEF TokTypeInv
<1>2. i < Len(line) => i + 1 \in 1 .. Len(line)
  BY <1>1 DEF TokTypeInv
<1>3. "NUL" \notin Tok!Chars
  BY DEF Tok!Chars, Tok!Quotes, Tok!Operators
<1>4. QED
  BY <1>1, <1>2, <1>3 DEF Tok!At

\* The invariant holds at the start; one lemma for each action follows.
LEMMA InitTok == Init => TokInv
<1> SUFFICES ASSUME Init PROVE TokInv
  OBVIOUS
<1>1. /\ i = 0 /\ start = 0 /\ tokens = <<>> /\ tcap = 0 /\ b = <<>> /\ bcap = 0
      /\ live = [list |-> 0, texts |-> 0, buffer |-> 0] /\ pc = "token"
  BY DEF Init, Tok!Start
<1>2. line \in Seq(Tok!Chars)
  BY LinesAssumption DEF Init, AnyLine
<1>3. LiveInv
  BY <1>1, TextsNone DEF LiveInv, One
<1>4. TokTypeInv /\ RoomInv
  BY <1>1, <1>2 DEF TokTypeInv, RoomInv
<1>5. EndInv
  BY <1>1 DEF EndInv, WordsHaveTexts
<1>6. QED
  BY <1>3, <1>4, <1>5 DEF TokInv

\* A step that neither adds a token nor touches the buffer.
LEMMA TokMoves ==
    ASSUME TokInv, UNCHANGED <<line, tokens, tcap, b, bcap, live, pc>>,
           i' \in Nat, i' <= Len(line), start' \in Nat
    PROVE  TokInv'
BY DEF TokInv, TokTypeInv, RoomInv, LiveInv, EndInv, WordsHaveTexts, Tok!TextsOf,
       Pipe!EndsOnce, One

LEMMA SkipSpaceKeeps == ASSUME TokInv, Tok!SkipSpace PROVE TokInv'
<1>1. i < Len(line) /\ Len(line) \in Nat /\ i \in Nat /\ start \in Nat
  BY CharAt DEF TokInv, TokTypeInv, Tok!SkipSpace
<1>2. UNCHANGED <<line, tokens, tcap, b, bcap, live, pc, start>> /\ i' = i + 1
  BY DEF Tok!SkipSpace
<1>3. QED
  BY <1>1, <1>2, TokMoves

LEMMA QuoteKeeps == ASSUME TokInv, Tok!OpenQuote \/ Tok!CloseQuote PROVE TokInv'
<1>1. i < Len(line) /\ Len(line) \in Nat /\ i \in Nat /\ start \in Nat
  BY CharAt DEF TokInv, TokTypeInv, Tok!OpenQuote, Tok!CloseQuote, Tok!InWord
<1>2. UNCHANGED <<line, tokens, tcap, b, bcap, live, pc, start>> /\ i' = i + 1
  BY DEF Tok!OpenQuote, Tok!CloseQuote
<1>3. QED
  BY <1>1, <1>2, TokMoves

LEMMA BeginWordKeeps == ASSUME TokInv, Tok!BeginWord PROVE TokInv'
<1>1. /\ pc = "token" /\ b' = <<>> /\ bcap' = 0 /\ pc' = "word" /\ start' = i
      /\ UNCHANGED <<line, i, tokens, tcap, live>>
  BY DEF Tok!BeginWord
<1>2. b = <<>> /\ bcap = 0
  BY <1>1 DEF TokInv, RoomInv
<1>3. QED
  BY <1>1, <1>2 DEF TokInv, TokTypeInv, RoomInv, LiveInv, EndInv, WordsHaveTexts,
     Tok!TextsOf, One

\* What the buffer held is gone when it is freed.
LEMMA Freed == ASSUME TokInv
               PROVE Tok!BufferFreed
                     = [list |-> One(tcap), texts |-> Tok!TextsOf(tokens), buffer |-> 0]
BY DEF TokInv, TokTypeInv, LiveInv, Tok!BufferFreed, One

LEMMA AddCharKeeps == ASSUME TokInv, Tok!AddChar PROVE TokInv'
<1> DEFINE cap == Grown(bcap, Len(b) + 2)
<1>1. i < Len(line) /\ Len(line) \in Nat /\ i \in Nat /\ start \in Nat /\ Tok!At(i) \in Tok!Chars
  BY CharAt DEF TokInv, TokTypeInv, Tok!AddChar, Tok!InWord
<1>2. Len(b) \in Nat /\ Len(b) + 2 \in Nat /\ bcap \in Nat
  BY DEF TokInv, TokTypeInv
<1>3. cap \in Nat /\ cap >= Len(b) + 2
  BY <1>2, GrownEnough
<1>4. Tok!Grown(bcap, Tok!BufferNeed) = cap
  BY GrownTok DEF Tok!BufferNeed
<1> HIDE DEF cap
<1>5. UNCHANGED <<line, start, tokens, tcap>> /\ pc = "word"
  BY DEF Tok!AddChar, Tok!InWord
<1>6. CASE /\ b' = Append(b, Tok!At(i)) /\ bcap' = cap
           /\ live' = Tok!AllocIfNew(live, "buffer", bcap) /\ i' = i + 1 /\ pc' = pc
  <2>1. b' \in Seq(Tok!Chars) /\ Len(b') = Len(b) + 1
    BY <1>1, <1>6 DEF TokInv, TokTypeInv
  <2>2. live' = [list |-> One(tcap), texts |-> Tok!TextsOf(tokens), buffer |-> 1]
    <3>1. live = [list |-> One(tcap), texts |-> Tok!TextsOf(tokens), buffer |-> One(bcap)]
      BY DEF TokInv, LiveInv
    <3>2. live' = [live EXCEPT !["buffer"] =
                     IF bcap = 0 THEN live["buffer"] + 1 ELSE live["buffer"]]
      BY <1>6 DEF Tok!AllocIfNew
    <3>3. live.buffer = One(bcap)
      BY <3>1
    <3>4. (IF bcap = 0 THEN live["buffer"] + 1 ELSE live["buffer"]) = 1
      BY <1>2, <3>3 DEF One
    <3>5. live' = [live EXCEPT !["buffer"] = 1]
      BY <3>2, <3>4
    <3>6. QED
      BY <3>1, <3>5
  <2>3. One(cap) = 1
    BY <1>2, <1>3 DEF One
  <2>4. LiveInv'
    <3>1. Tok!TextsOf(tokens') = Tok!TextsOf(tokens) /\ One(tcap') = One(tcap) /\ One(bcap') = 1
      BY <1>5, <1>6, <2>3
    <3>2. QED
      BY <2>2, <3>1 DEF LiveInv
  <2>5. TokTypeInv' /\ RoomInv'
    BY <1>1, <1>2, <1>3, <1>5, <1>6, <2>1 DEF TokInv, TokTypeInv, RoomInv
  <2>6. EndInv'
    BY <1>5, <1>6 DEF TokInv, EndInv, WordsHaveTexts
  <2>7. QED
    BY <2>4, <2>5, <2>6 DEF TokInv
<1>7. CASE live' = Tok!BufferFreed /\ b' = <<>> /\ bcap' = 0 /\ i' = i /\ pc' = "failed"
  BY <1>5, <1>7, Freed DEF TokInv, TokTypeInv, RoomInv, LiveInv, EndInv, Tok!TextsOf, One
<1>8. QED
  BY <1>4, <1>6, <1>7 DEF Tok!AddChar, Tok!OutOfMemory

LEMMA BadWordKeeps == ASSUME TokInv, Tok!BadWord PROVE TokInv'
<1>1. /\ live' = Tok!BufferFreed /\ b' = <<>> /\ bcap' = 0 /\ pc' = "failed"
      /\ UNCHANGED <<line, i, start, tokens, tcap>>
  BY DEF Tok!BadWord
<1>2. QED
  BY <1>1, Freed DEF TokInv, TokTypeInv, RoomInv, LiveInv, EndInv, Tok!TextsOf, One

\* A token is added, or not, and the buffer is empty.
LEMMA AddKeeps ==
    ASSUME TokInv, line' = line, i' \in Nat, i' <= Len(line), start' \in Nat,
           b' = <<>>, bcap' = 0, pc \in {"token", "word"},
           NEW type \in Tok!Operators \cup {"WORD", "END"}, NEW text \in TokTexts,
           type = "WORD" => text # Tok!NoText,
           NEW pos \in Nat, NEW l,
           l = [list |-> One(tcap), texts |-> Tok!TextsOf(tokens), buffer |-> 0],
           Tok!AddToken(l, type, text, pos, IF type = "END" THEN "succeeded" ELSE "token")
    PROVE  TokInv'
<1> DEFINE to == IF type = "END" THEN "succeeded" ELSE "token"
           tk == Tok!Token(type, text, pos)
<1>1. TokTypeInv /\ Len(tokens) <= tcap
  BY DEF TokInv, RoomInv
<1>2. /\ tokens' \in Seq(TokenSet) /\ tcap' \in Nat /\ Len(tokens') <= tcap'
      /\ live' = [list |-> One(tcap'), texts |-> Tok!TextsOf(tokens'), buffer |-> 0]
      /\ (pc' = to /\ tokens' = Append(tokens, tk)) \/ pc' = "failed"
  <2> HIDE DEF to
  <2>1. Tok!AddToken(l, type, text, pos, to)
    BY DEF to
  <2>2. QED
    BY <1>1, <2>1, AddedToken
<1>3. LiveInv'
  BY <1>2 DEF LiveInv, One
<1>4. TokTypeInv' /\ RoomInv'
  BY <1>2 DEF TokInv, TokTypeInv, RoomInv
<1>5. EndInv'
  <2>1. CASE pc' = "failed"
    BY <2>1 DEF EndInv
  <2>2. CASE pc' = to /\ tokens' = Append(tokens, tk)
    <3>1. WordsHaveTexts /\ \A k \in 1 .. Len(tokens) : tokens[k].type # "END"
      BY DEF TokInv, EndInv
    <3>2. tk.type = type /\ tk.text = text /\ tk \in TokenSet
      BY DEF Tok!Token, TokenSet
    <3> HIDE DEF tk
    <3>3. /\ Len(tokens) \in Nat /\ Len(tokens') = Len(tokens) + 1
          /\ tokens'[Len(tokens) + 1] = tk
          /\ \A k \in 1 .. Len(tokens) : tokens'[k] = tokens[k]
      BY <1>1, <2>2, <3>2 DEF TokTypeInv
    <3>4. WordsHaveTexts'
      BY <3>1, <3>2, <3>3 DEF WordsHaveTexts
    <3>5. CASE type = "END"
      <4>1. tokens' # <<>>
        BY <3>3
      <4>2. \A k \in 1 .. Len(tokens') : tokens'[k].type = "END" <=> k = Len(tokens')
        BY <3>1, <3>2, <3>3, <3>5
      <4>3. pc' = "succeeded"
        BY <2>2, <3>5
      <4>4. QED
        BY <3>4, <4>1, <4>2, <4>3 DEF EndInv, Pipe!EndsOnce
    <3>6. CASE type # "END"
      <4>1. \A k \in 1 .. Len(tokens') : tokens'[k].type # "END"
        BY <3>1, <3>2, <3>3, <3>6
      <4>2. QED
        BY <2>2, <3>4, <3>6, <4>1 DEF EndInv
    <3>7. QED
      BY <3>5, <3>6
  <2>3. QED
    BY <1>2, <2>1, <2>2
<1>6. QED
  BY <1>3, <1>4, <1>5 DEF TokInv

LEMMA OperatorKeeps == ASSUME TokInv, Tok!OperatorToken PROVE TokInv'
<1>1. i < Len(line) /\ Len(line) \in Nat /\ i \in Nat /\ Tok!At(i) \in Tok!Operators
  BY CharAt DEF TokInv, TokTypeInv, Tok!OperatorToken, Tok!Operators
<1>2. /\ pc = "token" /\ i' = i + 1 /\ start' = i /\ UNCHANGED <<line, b, bcap>>
      /\ Tok!AddToken(live, Tok!At(i), Tok!NoText, i, "token")
  BY DEF Tok!OperatorToken
<1>3. b = <<>> /\ bcap = 0
  BY <1>2 DEF TokInv, RoomInv
<1>4. live = [list |-> One(tcap), texts |-> Tok!TextsOf(tokens), buffer |-> 0]
  BY <1>3 DEF TokInv, LiveInv, One
<1>5. Tok!At(i) # "WORD" /\ Tok!At(i) # "END"
  BY <1>1 DEF Tok!Operators
<1>6. Tok!AddToken(live, Tok!At(i), Tok!NoText, i,
                   IF Tok!At(i) = "END" THEN "succeeded" ELSE "token")
  BY <1>2, <1>5
<1>7. i' \in Nat /\ i' <= Len(line) /\ start' \in Nat /\ Tok!NoText \in TokTexts
  BY <1>1, <1>2, InTexts
<1>8. QED
  BY <1>1, <1>2, <1>3, <1>4, <1>5, <1>6, <1>7, AddKeeps

LEMMA EndOfLineKeeps == ASSUME TokInv, Tok!EndOfLine PROVE TokInv'
<1>1. /\ pc = "token" /\ i' = i /\ UNCHANGED <<line, start, b, bcap>>
      /\ Tok!AddToken(live, "END", Tok!NoText, i, "succeeded")
  BY DEF Tok!EndOfLine
<1>2. b = <<>> /\ bcap = 0 /\ i \in Nat /\ i <= Len(line) /\ start \in Nat
  BY <1>1 DEF TokInv, RoomInv, TokTypeInv
<1>3. live = [list |-> One(tcap), texts |-> Tok!TextsOf(tokens), buffer |-> 0]
  BY <1>2 DEF TokInv, LiveInv, One
<1>4. Tok!AddToken(live, "END", Tok!NoText, i, IF "END" = "END" THEN "succeeded" ELSE "token")
  BY <1>1
<1>5. Tok!NoText \in TokTexts
  BY InTexts
<1>6. QED
  BY <1>1, <1>2, <1>3, <1>4, <1>5, AddKeeps

LEMMA EndWordKeeps == ASSUME TokInv, Tok!EndWord PROVE TokInv'
<1>1. /\ pc = "word" /\ i' = i /\ b' = <<>> /\ bcap' = 0 /\ UNCHANGED <<line, start>>
      /\ \/ Tok!AddToken(Tok!BufferFreed, "WORD", b, start, "token")
         \/ bcap = 0 /\ pc' = "failed" /\ UNCHANGED <<tokens, tcap, live>>
  BY DEF Tok!EndWord, Tok!OutOfMemory
<1>2. i \in Nat /\ i <= Len(line) /\ start \in Nat /\ b \in Seq(Tok!Chars)
  BY DEF TokInv, RoomInv, TokTypeInv
<1>3. b \in TokTexts /\ b # Tok!NoText
  BY <1>2, InTexts
<1>4. CASE Tok!AddToken(Tok!BufferFreed, "WORD", b, start, "token")
  <2>1. Tok!AddToken(Tok!BufferFreed, "WORD", b, start,
                     IF "WORD" = "END" THEN "succeeded" ELSE "token")
    BY <1>4
  <2> DEFINE l == Tok!BufferFreed
  <2>2. l = [list |-> One(tcap), texts |-> Tok!TextsOf(tokens), buffer |-> 0]
    BY Freed
  <2>3. QED
    BY <1>1, <1>2, <1>3, <2>1, <2>2, AddKeeps
<1>5. CASE bcap = 0 /\ pc' = "failed" /\ UNCHANGED <<tokens, tcap, live>>
  BY <1>1, <1>2, <1>5 DEF TokInv, TokTypeInv, RoomInv, LiveInv, EndInv, Tok!TextsOf, One
<1>6. QED
  BY <1>1, <1>4, <1>5

LEMMA FreeTokensKeeps == ASSUME TokInv, Tok!FreeTokens PROVE TokInv'
<1>1. /\ pc = "failed" /\ pc' = "freed" /\ tokens' = <<>> /\ tcap' = 0
      /\ live' = [live EXCEPT !.texts = live.texts - Tok!TextsOf(tokens),
                              !.list = IF tcap > 0 THEN live.list - 1 ELSE live.list]
      /\ UNCHANGED <<line, i, start, b, bcap>>
  BY DEF Tok!FreeTokens
<1>2. live = [list |-> One(tcap), texts |-> Tok!TextsOf(tokens), buffer |-> One(bcap)]
  BY DEF TokInv, LiveInv
<1>3. Tok!TextsOf(tokens) \in Nat
  <2>1. [type |-> "END", text |-> Tok!NoText, pos |-> 0] \in TokenSet
    BY InTexts DEF TokenSet
  <2>2. QED
    BY <2>1, TextsMore DEF TokInv, TokTypeInv
<1>4. live' = [list |-> 0, texts |-> 0, buffer |-> One(bcap)]
  <2>1. live.texts - Tok!TextsOf(tokens) = 0
    BY <1>2, <1>3
  <2>2. (IF tcap > 0 THEN live.list - 1 ELSE live.list) = 0
    BY <1>2 DEF One
  <2>3. live' = [live EXCEPT !.texts = 0, !.list = 0]
    BY <1>1, <2>1, <2>2
  <2>4. QED
    BY <1>2, <2>3
<1>5. LiveInv'
  <2>1. Tok!TextsOf(tokens') = 0 /\ One(tcap') = 0 /\ One(bcap') = One(bcap)
    BY <1>1, TextsNone DEF One
  <2>2. QED
    BY <1>4, <2>1 DEF LiveInv
<1>6. TokTypeInv' /\ RoomInv' /\ EndInv'
  BY <1>1 DEF TokInv, TokTypeInv, RoomInv, EndInv
<1>7. QED
  BY <1>5, <1>6 DEF TokInv

\* Every step of tokenize keeps the invariant.
LEMMA NextTok == TokInv /\ [Tok!Next]_tokState => TokInv'
<1> SUFFICES ASSUME TokInv, [Tok!Next]_tokState PROVE TokInv'
  OBVIOUS
<1>1. CASE UNCHANGED tokState
  BY <1>1, TokMoves DEF tokState, TokInv, TokTypeInv, RoomInv
<1>2. CASE Tok!Returned /\ UNCHANGED Tok!vars
  BY <1>1, <1>2 DEF Tok!vars, tokState
<1>3. QED
  BY <1>1, <1>2, SkipSpaceKeeps, OperatorKeeps, BeginWordKeeps, EndOfLineKeeps, QuoteKeeps,
     AddCharKeeps, BadWordKeeps, EndWordKeeps, FreeTokensKeeps DEF Tok!Next


\* The invariant of tokenize.
LEMMA TokInvariant == Spec => []TokInv
<1>1. TokInv /\ [Next]_vars => TokInv'
  BY NextTok, TokSteps
<1>2. QED
  BY <1>1, InitTok, PTL DEF Spec

(* tokenize stays within the line, the buffer and the list, for lines of any *)
(* length and whatever allocation fails: each array was grown to hold what   *)
(* is written to it, the NUL after a word included (parser.c:63-82, 93-185).  *)
THEOREM TokenizerStaysInBounds == Spec => []TokenizerInBounds
<1>1. TokInv => TokenizerInBounds
  BY DEF TokInv, RoomInv, TokenizerInBounds, Tok!InBounds
<1>2. QED
  BY <1>1, TokInvariant, PTL

(* tokenize and the tokenlist_free after its failure free each block once:   *)
(* outside a word there is no buffer, a token in the list owns its text      *)
(* although the copy of a later one has failed (parser.c:72-91, 148-184).     *)
THEOREM TokenizerFreesOnce == Spec => []TokenizerMemory
<1>1. TokInv => TokenizerMemory
  <2> SUFFICES ASSUME TokInv PROVE Tok!MemoryAccounted
    BY DEF TokenizerMemory
  <2>1. live = [list |-> One(tcap), texts |-> Tok!TextsOf(tokens), buffer |-> One(bcap)]
    BY DEF TokInv, LiveInv
  <2>2. pc \in {"succeeded", "freed"} => live.buffer = 0
    BY <2>1 DEF TokInv, RoomInv, One
  <2>3. pc = "freed" => live.list = 0 /\ live.texts = 0
    BY <2>1, TextsNone DEF TokInv, RoomInv, One
  <2>4. QED
    BY <2>1, <2>2, <2>3 DEF Tok!MemoryAccounted, One
<1>2. QED
  BY <1>1, TokInvariant, PTL

(* What pipeline_parse assumes of its tokens is what tokenize leaves when it *)
(* succeeds: END once, at the end, where every loop over the tokens stops,   *)
(* and a text for every word (parser.c:178-180, 334-391).                     *)
THEOREM TokensEndOnce ==
    Spec => [](pc = "succeeded" =>
                 /\ Pipe!EndsOnce(tokens)
                 /\ \A k \in 1 .. Len(tokens) :
                      /\ tokens[k].type \in Pipe!Types
                      /\ tokens[k].type = "WORD" => tokens[k].text # Tok!NoText)
<1> DEFINE Ends == pc = "succeeded" =>
                 /\ Pipe!EndsOnce(tokens)
                 /\ \A k \in 1 .. Len(tokens) :
                      /\ tokens[k].type \in Pipe!Types
                      /\ tokens[k].type = "WORD" => tokens[k].text # Tok!NoText
<1>1. TokInv => Ends
  <2> SUFFICES ASSUME TokInv PROVE Ends
    OBVIOUS
  <2>1. \A k \in 1 .. Len(tokens) : tokens[k] \in TokenSet
    BY DEF TokInv, TokTypeInv
  <2>2. \A k \in 1 .. Len(tokens) : tokens[k].type \in Pipe!Types
    BY <2>1 DEF TokenSet, Pipe!Types, Tok!Operators
  <2>3. QED
    BY <2>2 DEF TokInv, EndInv, WordsHaveTexts
<1>2. QED
  BY <1>1, TokInvariant, PTL

-----------------------------------------------------------------------------
(* pipeline_parse *)

TokenKind == [type : Pipe!Types, text : Texts]
Parsing == {"tokenize", "command", "tokens", "fail"}

PipeTypeInv ==
    /\ t \in Seq(TokenKind) /\ Pipe!EndsOnce(t)
    /\ next \in 1 .. Len(t)
    /\ c \in Commands /\ acap \in Nat
    /\ p \in Seq(Commands) /\ pcap \in Nat
    /\ place \in Parsing \cup {"succeeded", "failed", "released"}

\* The room that is left; between commands there is none in hand, and what was
\* freed is gone.
PipeRoomInv ==
    /\ c.argv # <<>> => Len(c.argv) < acap
    /\ Len(p) <= pcap
    /\ place \notin {"tokens", "fail"} => c = Pipe!NoCommand /\ acap = 0
    /\ place \in {"failed", "released"} => p = <<>> /\ pcap = 0

\* Who owns the blocks.
OwnedInv ==
    /\ blocks \in Blocks
    /\ blocks.tokens = IF place \in Parsing THEN 1 ELSE 0
    /\ blocks.commands = One(pcap)
    /\ blocks.argvs = Len(p) + One(acap)
    /\ blocks.args = Pipe!Total(ArgsIn(p)) + Len(c.argv)
    /\ blocks.targets = Pipe!Total(TargetsIn(p)) + Pipe!TargetsOf(c)

PipeInv == PipeTypeInv /\ PipeRoomInv /\ OwnedInv

\* Every step of the parser is one of pipeline_parse, or leaves its state alone.
LEMMA PipeSteps == [Next]_vars => [Pipe!Next]_pipeState
BY DEF Next, vars, TokNext, PipeNext, RedirectNext

\* The instance has the same Grown.
LEMMA GrownPipe == \A cap, need : Pipe!Grown(cap, need) = Grown(cap, need)
BY DEF Pipe!Grown, Grown

\* A command that was cleared owns nothing.
LEMMA NothingInHand ==
    /\ Pipe!NoCommand \in Commands /\ Pipe!NoCommand.argv = <<>>
    /\ Pipe!TargetsOf(Pipe!NoCommand) = 0
<1>1. Pipe!NoRedirect \in Redirects /\ Pipe!NoRedirect.type = "none"
  BY DEF Redirects, Pipe!NoRedirect
<1>2. Pipe!NoCommand \in Commands
  BY <1>1 DEF Pipe!NoCommand, Commands
<1>3. OneOf(Pipe!NoCommand.input) = 0 /\ OneOf(Pipe!NoCommand.output) = 0
  BY <1>1 DEF OneOf, Pipe!NoCommand
<1> QED BY <1>2, <1>3, TargetsAre DEF Pipe!NoCommand

\* Nor does an empty pipeline.
LEMMA NoCommands ==
    /\ <<>> \in Seq(Commands) /\ Len(<<>>) = 0
    /\ Pipe!Total(ArgsIn(<<>>)) = 0 /\ Pipe!Total(TargetsIn(<<>>)) = 0
<1>1. <<>> \in Seq(Commands) /\ Len(<<>>) = 0
  OBVIOUS
<1>2. ArgsIn(<<>>) \in [1 .. 0 -> Nat] /\ TargetsIn(<<>>) \in [1 .. 0 -> Nat]
  BY <1>1, NumbersIn
<1> QED BY <1>1, <1>2, TotalNone

\* The blocks of a pipeline are natural numbers.
LEMMA Totals ==
    ASSUME NEW ps \in Seq(Commands)
    PROVE  Pipe!Total(ArgsIn(ps)) \in Nat /\ Pipe!Total(TargetsIn(ps)) \in Nat
<1> DEFINE n == Len(ps)
<1>1. n \in Nat /\ ArgsIn(ps) \in [1 .. n -> Nat] /\ TargetsIn(ps) \in [1 .. n -> Nat]
  BY NumbersIn
<1> HIDE DEF n
<1>2. DOMAIN ArgsIn(ps) = 1 .. n /\ DOMAIN TargetsIn(ps) = 1 .. n /\ n \in 0 .. n
  BY <1>1
<1>3. TotalFold(ArgsIn(ps))[1 .. n] \in Nat /\ TotalFold(TargetsIn(ps))[1 .. n] \in Nat
  BY <1>1, <1>2, TotalType
<1> QED BY <1>2, <1>3, TotalIs

\* What the pipeline owns with one more command.
LEMMA OneMoreCommand ==
    ASSUME NEW ps \in Seq(Commands), NEW cmd \in Commands
    PROVE  /\ Append(ps, cmd) \in Seq(Commands) /\ Len(Append(ps, cmd)) = Len(ps) + 1
           /\ Pipe!Total(ArgsIn(Append(ps, cmd)))
                = Pipe!Total(ArgsIn(ps)) + Len(cmd.argv)
           /\ Pipe!Total(TargetsIn(Append(ps, cmd)))
                = Pipe!Total(TargetsIn(ps)) + Pipe!TargetsOf(cmd)
<1> DEFINE qs == Append(ps, cmd)
           n == Len(ps)
<1>1. n \in Nat /\ qs \in Seq(Commands) /\ Len(qs) = n + 1 /\ qs[n + 1] = cmd
      /\ \A k \in 1 .. n : qs[k] = ps[k]
  BY AppendProperties, LenProperties
<1>2. DOMAIN ps = 1 .. n /\ DOMAIN qs = 1 .. n + 1
  BY <1>1
<1> HIDE DEF qs
<1>3. /\ ArgsIn(ps) \in [1 .. n -> Nat] /\ TargetsIn(ps) \in [1 .. n -> Nat]
      /\ ArgsIn(qs) \in [1 .. n + 1 -> Nat] /\ TargetsIn(qs) \in [1 .. n + 1 -> Nat]
  BY <1>1, NumbersIn
<1> HIDE DEF n
<1>4. \A k \in 1 .. n : /\ k \in 1 .. n + 1 /\ ArgsIn(qs)[k] = ArgsIn(ps)[k]
                        /\ TargetsIn(qs)[k] = TargetsIn(ps)[k]
  <2>1. \A k \in 1 .. n : k \in 1 .. n + 1
    BY <1>1
  <2> QED BY <1>1, <1>2, <2>1 DEF ArgsIn, TargetsIn
<1>5. ArgsIn(qs)[n + 1] = Len(cmd.argv) /\ TargetsIn(qs)[n + 1] = Pipe!TargetsOf(cmd)
  <2>1. n + 1 \in 1 .. n + 1
    BY <1>1
  <2> QED BY <1>1, <1>2, <2>1 DEF ArgsIn, TargetsIn
<1>6. Pipe!Total(ArgsIn(qs)) = Pipe!Total(ArgsIn(ps)) + ArgsIn(qs)[n + 1]
  BY <1>1, <1>3, <1>4, TotalMore
<1>7. Pipe!Total(TargetsIn(qs)) = Pipe!Total(TargetsIn(ps)) + TargetsIn(qs)[n + 1]
  BY <1>1, <1>3, <1>4, TotalMore
<1> QED BY <1>1, <1>5, <1>6, <1>7 DEF qs, n

\* There is a token after each one that is not END.
LEMMA NextToken ==
    ASSUME PipeTypeInv
    PROVE  /\ t[next] \in TokenKind /\ next \in Nat /\ Len(t) \in Nat
           /\ t[next].type # "END" => next + 1 \in 1 .. Len(t)
           /\ next + 1 \in 1 .. Len(t) => t[next + 1] \in TokenKind
<1>1. Len(t) \in Nat /\ \A k \in 1 .. Len(t) : t[k] \in TokenKind
  BY DEF PipeTypeInv
<1>2. next \in 1 .. Len(t) /\ Pipe!EndsOnce(t)
  BY DEF PipeTypeInv
<1>3. t[next].type # "END" => next # Len(t)
  BY <1>2 DEF Pipe!EndsOnce
<1> QED BY <1>1, <1>2, <1>3

\* The invariant holds at the start; one lemma for each action follows.
LEMMA InitPipe == Init => PipeInv
<1> SUFFICES ASSUME Init PROVE PipeInv
  OBVIOUS
<1>1. /\ next = 1 /\ c = Pipe!NoCommand /\ acap = 0 /\ p = <<>> /\ pcap = 0
      /\ blocks = [tokens |-> 1, commands |-> 0, argvs |-> 0, args |-> 0, targets |-> 0]
      /\ place = "tokenize"
  BY DEF Init, Pipe!Start
<1>2. t \in TokenLists
  BY TokenListsAssumption DEF Init, AnyTokenList
<1>3. t \in Seq(TokenKind) /\ Pipe!EndsOnce(t)
  BY <1>2, TokenListsAssumption DEF TokenKind
<1>4. 1 \in 1 .. Len(t)
  <2>1. Len(t) \in Nat /\ t # <<>>
    BY <1>3 DEF Pipe!EndsOnce
  <2>2. Len(t) # 0
    BY <1>3, <2>1
  <2> QED BY <2>1, <2>2
<1>5. PipeTypeInv
  BY <1>1, <1>3, <1>4, NothingInHand, NoCommands DEF PipeTypeInv, Parsing
<1>6. PipeRoomInv
  BY <1>1, NothingInHand, NoCommands DEF PipeRoomInv
<1>7. OwnedInv
  <2>1. Len(Pipe!NoCommand.argv) = 0
    BY NothingInHand
  <2>2. blocks \in Blocks /\ blocks.tokens = 1 /\ blocks.commands = 0 /\ blocks.argvs = 0
        /\ blocks.args = 0 /\ blocks.targets = 0
    BY <1>1 DEF Blocks
  <2> QED BY <1>1, <2>1, <2>2, NothingInHand, NoCommands DEF OwnedInv, One, Parsing
<1> QED BY <1>5, <1>6, <1>7 DEF PipeInv

\* A step that neither allocates nor frees.
LEMMA PipeMoves ==
    ASSUME PipeInv, UNCHANGED <<t, c, acap, p, pcap, blocks>>, next' \in 1 .. Len(t),
           place \in Parsing, place' \in Parsing,
           place' \notin {"tokens", "fail"} => c = Pipe!NoCommand /\ acap = 0
    PROVE  PipeInv'
<1>1. PipeTypeInv'
  BY DEF PipeInv, PipeTypeInv, Pipe!EndsOnce
<1>2. PipeRoomInv'
  BY DEF PipeInv, PipeRoomInv, Pipe!NoCommand, Pipe!NoRedirect, Parsing
<1>3. OwnedInv'
  <2>1. /\ c' = c /\ p' = p /\ Pipe!Total(ArgsIn(p))' = Pipe!Total(ArgsIn(p))
        /\ Pipe!Total(TargetsIn(p))' = Pipe!Total(TargetsIn(p))
        /\ Pipe!TargetsOf(c)' = Pipe!TargetsOf(c)
    OBVIOUS
  <2> QED BY <2>1 DEF PipeInv, OwnedInv, One, Blocks
<1> QED BY <1>1, <1>2, <1>3 DEF PipeInv

\* The actions that only look at a token.
LEMMA LooksKeep ==
    ASSUME PipeInv,
           \/ Pipe!Tokenize \/ Pipe!BeginCommand \/ Pipe!NothingBeforePipe \/ Pipe!NoTarget
    PROVE  PipeInv'
<1>0. PipeTypeInv /\ PipeRoomInv /\ next \in 1 .. Len(t)
  BY DEF PipeInv, PipeTypeInv
<1>1. CASE Pipe!Tokenize
  <2>1. /\ UNCHANGED <<t, next, c, acap, p, pcap, blocks>>
        /\ place = "tokenize" /\ place' \in {"command", "fail"}
    BY <1>1 DEF Pipe!Tokenize, Pipe!Fail
  <2>2. c = Pipe!NoCommand /\ acap = 0
    BY <1>0, <2>1 DEF PipeRoomInv
  <2> QED BY <1>0, <2>1, <2>2, PipeMoves DEF Parsing
<1>2. CASE Pipe!BeginCommand
  <2>1. /\ UNCHANGED <<t, next, p, pcap, blocks>> /\ c' = Pipe!NoCommand /\ acap' = 0
        /\ place = "command" /\ place' = "tokens"
    BY <1>2 DEF Pipe!BeginCommand
  <2>2. UNCHANGED <<c, acap>>
    BY <1>0, <2>1 DEF PipeRoomInv
  <2> QED BY <1>0, <2>1, <2>2, PipeMoves DEF Parsing
<1>3. CASE Pipe!NothingBeforePipe
  <2>1. /\ UNCHANGED <<t, next, c, acap, p, pcap, blocks>>
        /\ place = "command" /\ place' = "fail"
    BY <1>3 DEF Pipe!NothingBeforePipe, Pipe!Fail
  <2> QED BY <1>0, <2>1, PipeMoves DEF Parsing
<1>4. CASE Pipe!NoTarget
  <2>1. /\ UNCHANGED <<t, c, acap, p, pcap, blocks>> /\ next' = next + 1
        /\ place = "tokens" /\ place' = "fail" /\ t[next].type # "END"
    BY <1>4 DEF Pipe!NoTarget, Pipe!Fail, Pipe!Type
  <2>2. next + 1 \in 1 .. Len(t)
    BY <1>0, <2>1, NextToken
  <2> QED BY <1>0, <2>1, <2>2, PipeMoves DEF Parsing
<1> QED BY <1>1, <1>2, <1>3, <1>4

\* command_add_arg: argv grows first, then the copy of the text is put into it.
LEMMA AddArgKeeps == ASSUME PipeInv, Pipe!AddArg PROVE PipeInv'
<1> DEFINE cap == Pipe!Grown(acap, Pipe!ArgvNeed)
           argvs == IF acap = 0 THEN blocks.argvs + 1 ELSE blocks.argvs
           arg == t[next].text
<1>0. /\ PipeTypeInv /\ PipeRoomInv /\ OwnedInv /\ place = "tokens"
      /\ next \in 1 .. Len(t) /\ t[next].type = "WORD"
  BY DEF PipeInv, PipeTypeInv, Pipe!AddArg, Pipe!Type
<1>1. next + 1 \in 1 .. Len(t) /\ arg \in Texts
  BY <1>0, NextToken DEF TokenKind
<1>2. UNCHANGED <<t, p, pcap>>
  BY DEF Pipe!AddArg
<1>3. c.argv \in Seq(Texts) /\ Len(c.argv) \in Nat /\ acap \in Nat /\ c \in Commands
      /\ c.input \in Redirects /\ c.output \in Redirects
  BY <1>0 DEF PipeTypeInv, Commands
<1>4. cap \in Nat /\ cap >= Len(c.argv) + 2 /\ cap >= acap
  <2>1. Len(c.argv) + 2 \in Nat
    BY <1>3
  <2> QED BY <1>3, <2>1, GrownPipe, GrownEnough DEF Pipe!ArgvNeed
<1>5. argvs = Len(p) + 1 /\ argvs \in Int /\ Len(p) \in Nat
  <2>1. blocks.argvs = Len(p) + One(acap) /\ Len(p) \in Nat
    BY <1>0 DEF OwnedInv, PipeTypeInv
  <2> QED BY <1>3, <2>1 DEF One
<1>6. \/ /\ c' = [c EXCEPT !.argv = Append(@, arg)] /\ acap' = cap
         /\ blocks' = [blocks EXCEPT !.argvs = argvs, !.args = @ + 1]
         /\ next' = next + 1 /\ place' = place
      \/ UNCHANGED <<next, c, acap, blocks>> /\ place' = "fail"
      \/ /\ acap' = cap /\ blocks' = [blocks EXCEPT !.argvs = argvs]
         /\ UNCHANGED <<next, c>> /\ place' = "fail"
  BY DEF Pipe!AddArg, Pipe!Fail
<1>7. One(cap) = 1
  BY <1>3, <1>4 DEF One
<1> HIDE DEF cap, argvs, arg
<1>8. blocks \in Blocks /\ blocks.tokens = 1 /\ blocks.commands = One(pcap)
      /\ blocks.args = Pipe!Total(ArgsIn(p)) + Len(c.argv)
      /\ blocks.targets = Pipe!Total(TargetsIn(p)) + Pipe!TargetsOf(c)
      /\ Pipe!Total(ArgsIn(p)) \in Nat /\ Pipe!Total(TargetsIn(p)) \in Nat
  BY <1>0, Totals DEF OwnedInv, PipeTypeInv, Parsing
<1>9. CASE /\ c' = [c EXCEPT !.argv = Append(@, arg)] /\ acap' = cap
           /\ blocks' = [blocks EXCEPT !.argvs = argvs, !.args = @ + 1]
           /\ next' = next + 1 /\ place' = place
  <2>1. /\ Append(c.argv, arg) \in Seq(Texts) /\ Append(c.argv, arg) # <<>>
        /\ Len(Append(c.argv, arg)) = Len(c.argv) + 1
    BY <1>1, <1>3, AppendProperties
  <2>2. c' \in Commands /\ c'.argv = Append(c.argv, arg)
        /\ c'.input = c.input /\ c'.output = c.output
    BY <1>3, <1>9, <2>1 DEF Commands
  <2>3. Pipe!TargetsOf(c') = Pipe!TargetsOf(c)
    BY <1>3, <2>2, TargetsAre
  <2>4. PipeTypeInv'
    BY <1>0, <1>1, <1>2, <1>4, <1>9, <2>2 DEF PipeTypeInv, Parsing, Pipe!EndsOnce
  <2>5. PipeRoomInv'
    BY <1>0, <1>2, <1>3, <1>4, <1>9, <2>1, <2>2 DEF PipeRoomInv
  <2>6. /\ blocks' \in Blocks /\ blocks'.tokens = blocks.tokens
        /\ blocks'.commands = blocks.commands /\ blocks'.argvs = argvs
        /\ blocks'.args = blocks.args + 1 /\ blocks'.targets = blocks.targets
    <3> DEFINE grown == [blocks EXCEPT !.argvs = argvs]
    <3>1. /\ grown \in Blocks /\ grown.tokens = blocks.tokens
          /\ grown.commands = blocks.commands /\ grown.argvs = argvs
          /\ grown.args = blocks.args /\ grown.targets = blocks.targets
      BY <1>5, <1>8 DEF Blocks
    <3>2. blocks' = [grown EXCEPT !.args = @ + 1]
      BY <1>8, <1>9 DEF Blocks
    <3> HIDE DEF grown
    <3> QED BY <3>1, <3>2 DEF Blocks
  <2>7. blocks'.args = Pipe!Total(ArgsIn(p)) + Len(c'.argv)
    BY <1>3, <1>8, <2>1, <2>2, <2>6
  <2>8. OwnedInv'
    BY <1>0, <1>2, <1>5, <1>7, <1>8, <1>9, <2>3, <2>6, <2>7 DEF OwnedInv, Parsing, One
  <2> QED BY <2>4, <2>5, <2>8 DEF PipeInv
<1>10. CASE UNCHANGED <<next, c, acap, blocks>> /\ place' = "fail"
  BY <1>0, <1>2, <1>10, PipeMoves DEF Parsing
<1>11. CASE /\ acap' = cap /\ blocks' = [blocks EXCEPT !.argvs = argvs]
            /\ UNCHANGED <<next, c>> /\ place' = "fail"
  <2>1. PipeTypeInv'
    BY <1>0, <1>1, <1>2, <1>4, <1>11 DEF PipeTypeInv, Parsing, Pipe!EndsOnce
  <2>2. PipeRoomInv'
    BY <1>0, <1>2, <1>3, <1>4, <1>11 DEF PipeRoomInv
  <2>3. /\ blocks' \in Blocks /\ blocks'.tokens = blocks.tokens
        /\ blocks'.commands = blocks.commands /\ blocks'.argvs = argvs
        /\ blocks'.args = blocks.args /\ blocks'.targets = blocks.targets
    BY <1>5, <1>8, <1>11 DEF Blocks
  <2>4. OwnedInv'
    BY <1>0, <1>2, <1>5, <1>7, <1>8, <1>11, <2>3 DEF OwnedInv, Parsing, One
  <2> QED BY <2>1, <2>2, <2>4 DEF PipeInv
<1> QED BY <1>6, <1>9, <1>10, <1>11

\* redirect_set puts a target where there was none.
LEMMA RedirectionKeeps == ASSUME PipeInv, Pipe!Redirection PROVE PipeInv'
<1> DEFINE side == IF t[next].type = "<" THEN "input" ELSE "output"
           text == t[next + 1].text
           redirect == [type |-> Outcome[text], target |-> text]
<1>0. /\ PipeTypeInv /\ PipeRoomInv /\ OwnedInv /\ place = "tokens"
      /\ next \in 1 .. Len(t) /\ t[next].type \in {"<", ">"} /\ t[next + 1].type = "WORD"
  BY DEF PipeInv, PipeTypeInv, Pipe!Redirection, Pipe!Type
<1>1. next + 1 \in 1 .. Len(t) /\ t[next + 1] \in TokenKind
  BY <1>0, NextToken
<1>2. next + 2 \in 1 .. Len(t)
  <2>1. next + 1 # Len(t)
    BY <1>0, <1>1 DEF PipeTypeInv, Pipe!EndsOnce
  <2>2. next \in Nat /\ Len(t) \in Nat
    BY <1>0, NextToken
  <2> QED BY <1>1, <2>1, <2>2
<1>3. UNCHANGED <<t, acap, p, pcap>>
  BY DEF Pipe!Redirection
<1>4. \/ /\ c[side].type = "none" /\ Outcome[text] \in Pipe!Accepted
         /\ c' = [c EXCEPT ![side] = redirect]
         /\ blocks' = [blocks EXCEPT !.targets = @ + 1]
         /\ next' = next + 2 /\ place' = place
      \/ next' = next + 1 /\ place' = "fail" /\ UNCHANGED <<c, blocks>>
  BY DEF Pipe!Redirection, Pipe!Fail, Pipe!Duplicate, Pipe!Type
<1>5. side \in {"input", "output"} /\ text \in Texts
  BY <1>1 DEF TokenKind
<1>6. CASE next' = next + 1 /\ place' = "fail" /\ UNCHANGED <<c, blocks>>
  BY <1>0, <1>1, <1>3, <1>6, PipeMoves DEF Parsing
<1>7. CASE /\ c[side].type = "none" /\ Outcome[text] \in Pipe!Accepted
           /\ c' = [c EXCEPT ![side] = redirect]
           /\ blocks' = [blocks EXCEPT !.targets = @ + 1]
           /\ next' = next + 2 /\ place' = place
  <2>1. redirect \in Redirects /\ redirect.type # "none"
    BY <1>5, <1>7 DEF Redirects, Pipe!Accepted
  <2> HIDE DEF side, redirect
  <2>2. c \in Commands
    BY <1>0 DEF PipeTypeInv
  <2>3. c' \in Commands /\ c'.argv = c.argv /\ Pipe!TargetsOf(c') = Pipe!TargetsOf(c) + 1
    <3>1. CASE side = "input"
      <4>1. /\ c' \in Commands /\ c'.argv = c.argv /\ c'.input = redirect
            /\ c'.output = c.output /\ c.input.type = "none"
        BY <1>7, <2>1, <2>2, <3>1 DEF Commands
      <4>2. OneOf(c.input) = 0 /\ OneOf(c'.input) = 1 /\ OneOf(c.output) \in Nat
        BY <2>1, <4>1 DEF OneOf
      <4> QED BY <2>2, <4>1, <4>2, TargetsAre
    <3>2. CASE side = "output"
      <4>1. /\ c' \in Commands /\ c'.argv = c.argv /\ c'.output = redirect
            /\ c'.input = c.input /\ c.output.type = "none"
        BY <1>7, <2>1, <2>2, <3>2 DEF Commands
      <4>2. OneOf(c.output) = 0 /\ OneOf(c'.output) = 1 /\ OneOf(c.input) \in Nat
        BY <2>1, <4>1 DEF OneOf
      <4> QED BY <2>2, <4>1, <4>2, TargetsAre
    <3>3. side \in {"input", "output"}
      BY <1>5 DEF side
    <3> QED BY <3>1, <3>2, <3>3
  <2>4. PipeTypeInv'
    BY <1>0, <1>2, <1>3, <1>7, <2>3 DEF PipeTypeInv, Parsing, Pipe!EndsOnce
  <2>5. PipeRoomInv'
    BY <1>0, <1>3, <1>7, <2>3 DEF PipeRoomInv
  <2>6. /\ blocks \in Blocks /\ Pipe!Total(TargetsIn(p)) \in Nat /\ Pipe!TargetsOf(c) \in Nat
        /\ blocks.targets = Pipe!Total(TargetsIn(p)) + Pipe!TargetsOf(c)
    BY <1>0, <2>2, Totals, TargetsAre DEF OwnedInv, PipeTypeInv
  <2>7. /\ blocks' \in Blocks /\ blocks'.tokens = blocks.tokens
        /\ blocks'.commands = blocks.commands /\ blocks'.argvs = blocks.argvs
        /\ blocks'.args = blocks.args /\ blocks'.targets = blocks.targets + 1
    BY <1>7, <2>6 DEF Blocks
  <2>8. blocks'.targets = Pipe!Total(TargetsIn(p)) + Pipe!TargetsOf(c')
    BY <2>3, <2>6, <2>7
  <2>9. OwnedInv'
    BY <1>0, <1>3, <1>7, <2>3, <2>7, <2>8 DEF OwnedInv, Parsing, One
  <2> QED BY <2>4, <2>5, <2>9 DEF PipeInv
<1> QED BY <1>4, <1>6, <1>7

\* command_add: what the command in hand owned is the pipeline's.
LEMMA EndCommandKeeps == ASSUME PipeInv, Pipe!EndCommand PROVE PipeInv'
<1> DEFINE cap == Pipe!Grown(pcap, Len(p) + 1)
<1>0. /\ PipeTypeInv /\ PipeRoomInv /\ OwnedInv /\ place = "tokens"
      /\ next \in 1 .. Len(t) /\ t[next].type \in {"|", "END"}
  BY DEF PipeInv, PipeTypeInv, Pipe!EndCommand, Pipe!Type
<1>1. UNCHANGED t
  BY DEF Pipe!EndCommand
<1>2. \/ UNCHANGED <<next, c, acap, p, pcap, blocks>> /\ place' = "fail"
      \/ /\ c.argv # <<>> /\ p' = Append(p, c) /\ pcap' = cap
         /\ c' = Pipe!NoCommand /\ acap' = 0
         /\ blocks' = [blocks EXCEPT !.commands = IF pcap = 0 THEN @ + 1 ELSE @]
         /\ \/ t[next].type = "END" /\ next' = next
            \/ t[next].type # "END" /\ next' = next + 1
         /\ place' \in {"command", "fail"}
  BY DEF Pipe!EndCommand, Pipe!Fail, Pipe!Type, Pipe!CommandCleared
<1>3. CASE UNCHANGED <<next, c, acap, p, pcap, blocks>> /\ place' = "fail"
  BY <1>0, <1>1, <1>3, PipeMoves DEF Parsing
<1>4. CASE /\ c.argv # <<>> /\ p' = Append(p, c) /\ pcap' = cap
           /\ c' = Pipe!NoCommand /\ acap' = 0
           /\ blocks' = [blocks EXCEPT !.commands = IF pcap = 0 THEN @ + 1 ELSE @]
           /\ \/ t[next].type = "END" /\ next' = next
              \/ t[next].type # "END" /\ next' = next + 1
           /\ place' \in {"command", "fail"}
  <2>1. c \in Commands /\ p \in Seq(Commands) /\ pcap \in Nat /\ acap \in Nat
        /\ Len(p) \in Nat /\ Len(c.argv) \in Nat
    BY <1>0 DEF PipeTypeInv, Commands
  <2>2. cap \in Nat /\ cap >= Len(p) + 1 /\ cap > 0
    <3>1. Len(p) + 1 \in Nat
      BY <2>1
    <3>2. cap = Grown(pcap, Len(p) + 1)
      BY GrownPipe
    <3>3. cap \in Nat /\ cap >= Len(p) + 1
      BY <2>1, <3>1, <3>2, GrownEnough
    <3> HIDE DEF cap
    <3> QED BY <2>1, <3>3
  <2> HIDE DEF cap
  <2>3. next' \in 1 .. Len(t)
    BY <1>0, <1>4, NextToken
  <2>4. /\ p' \in Seq(Commands) /\ Len(p') = Len(p) + 1
        /\ Pipe!Total(ArgsIn(p')) = Pipe!Total(ArgsIn(p)) + Len(c.argv)
        /\ Pipe!Total(TargetsIn(p')) = Pipe!Total(TargetsIn(p)) + Pipe!TargetsOf(c)
    BY <1>4, <2>1, OneMoreCommand
  <2>5. PipeTypeInv'
    BY <1>0, <1>1, <1>4, <2>2, <2>3, <2>4, NothingInHand
       DEF PipeTypeInv, Parsing, Pipe!EndsOnce
  <2>6. PipeRoomInv'
    BY <1>4, <2>2, <2>4, NothingInHand DEF PipeRoomInv
  <2>7. /\ blocks \in Blocks /\ blocks.tokens = 1 /\ blocks.commands = One(pcap)
        /\ blocks.argvs = Len(p) + 1
        /\ blocks.args = Pipe!Total(ArgsIn(p')) /\ blocks.targets = Pipe!Total(TargetsIn(p'))
    <3>1. acap > 0
      BY <1>0, <1>4, <2>1 DEF PipeRoomInv
    <3> QED BY <1>0, <2>4, <3>1 DEF OwnedInv, One, Parsing
  <2>8. /\ blocks' \in Blocks /\ blocks'.tokens = blocks.tokens
        /\ blocks'.commands = (IF pcap = 0 THEN blocks.commands + 1 ELSE blocks.commands)
        /\ blocks'.argvs = blocks.argvs
        /\ blocks'.args = blocks.args /\ blocks'.targets = blocks.targets
    BY <1>4, <2>7 DEF Blocks
  <2>9. blocks'.commands = One(pcap')
    BY <1>4, <2>1, <2>2, <2>7, <2>8 DEF One
  <2>10. Len(c'.argv) = 0 /\ Pipe!TargetsOf(c') = 0
    BY <1>4, NothingInHand, NoCommands
  <2>11. Pipe!Total(ArgsIn(p')) \in Nat /\ Pipe!Total(TargetsIn(p')) \in Nat
    BY <2>4, Totals
  <2>12. OwnedInv'
    <3>1. blocks'.argvs = Len(p') + One(acap')
      BY <1>4, <2>1, <2>4, <2>7, <2>8 DEF One
    <3>2. /\ blocks'.args = Pipe!Total(ArgsIn(p')) + Len(c'.argv)
          /\ blocks'.targets = Pipe!Total(TargetsIn(p')) + Pipe!TargetsOf(c')
      BY <2>7, <2>8, <2>10, <2>11
    <3>3. place' \in Parsing
      BY <1>4 DEF Parsing
    <3> QED BY <2>7, <2>8, <2>9, <3>1, <3>2, <3>3 DEF OwnedInv
  <2> QED BY <2>5, <2>6, <2>12 DEF PipeInv
<1> QED BY <1>2, <1>3, <1>4

\* The tokens are freed, and the pipeline is the caller's.
LEMMA SucceedKeeps == ASSUME PipeInv, Pipe!Succeed PROVE PipeInv'
<1>0. PipeTypeInv /\ PipeRoomInv /\ OwnedInv
  BY DEF PipeInv
<1>1. /\ place = "command" /\ blocks' = [blocks EXCEPT !.tokens = @ - 1]
      /\ place' = "succeeded" /\ UNCHANGED <<t, next, c, acap, p, pcap>>
  BY DEF Pipe!Succeed
<1>2. PipeTypeInv'
  BY <1>0, <1>1 DEF PipeTypeInv, Pipe!EndsOnce
<1>3. PipeRoomInv'
  BY <1>0, <1>1 DEF PipeRoomInv, Pipe!NoCommand, Pipe!NoRedirect
<1>4. /\ blocks' \in Blocks /\ blocks'.tokens = 0
      /\ blocks'.commands = blocks.commands /\ blocks'.argvs = blocks.argvs
      /\ blocks'.args = blocks.args /\ blocks'.targets = blocks.targets
  <2>1. blocks \in Blocks /\ blocks.tokens = 1
    BY <1>0, <1>1 DEF OwnedInv, Parsing
  <2> QED BY <1>1, <2>1 DEF Blocks
<1>5. OwnedInv'
  <2>1. /\ c' = c /\ p' = p /\ Pipe!Total(ArgsIn(p))' = Pipe!Total(ArgsIn(p))
        /\ Pipe!Total(TargetsIn(p))' = Pipe!Total(TargetsIn(p))
        /\ Pipe!TargetsOf(c)' = Pipe!TargetsOf(c)
    BY <1>1
  <2> QED BY <1>0, <1>1, <1>4, <2>1 DEF OwnedInv, One, Parsing
<1> QED BY <1>2, <1>3, <1>5 DEF PipeInv

\* Nothing is left when there is neither a command in hand nor a pipeline.
LEMMA AllFreed ==
    ASSUME PipeInv, UNCHANGED <<t, next>>, place' \in {"failed", "released"},
           c' = Pipe!NoCommand, acap' = 0, p' = <<>>, pcap' = 0,
           blocks' = [tokens |-> 0, commands |-> 0, argvs |-> 0, args |-> 0, targets |-> 0]
    PROVE  PipeInv'
<1>1. PipeTypeInv'
  <2>1. PipeTypeInv
    BY DEF PipeInv
  <2> QED BY <2>1, NothingInHand, NoCommands DEF PipeTypeInv, Pipe!EndsOnce
<1>2. PipeRoomInv'
  BY NothingInHand, NoCommands DEF PipeRoomInv
<1>3. OwnedInv'
  <2>1. /\ blocks' \in Blocks /\ blocks'.tokens = 0 /\ blocks'.commands = 0
        /\ blocks'.argvs = 0 /\ blocks'.args = 0 /\ blocks'.targets = 0
    BY DEF Blocks
  <2>2. Len(c'.argv) = 0 /\ Pipe!TargetsOf(c') = 0
    BY NothingInHand, NoCommands
  <2>3. /\ Len(p') = 0 /\ Pipe!Total(ArgsIn(p')) = 0 /\ Pipe!Total(TargetsIn(p')) = 0
    BY NoCommands
  <2>4. place' \notin Parsing
    BY DEF Parsing
  <2>5. One(pcap') = 0 /\ One(acap') = 0
    BY DEF One
  <2> QED BY <2>1, <2>2, <2>3, <2>4, <2>5 DEF OwnedInv
<1> QED BY <1>1, <1>2, <1>3 DEF PipeInv

\* The label `fail': the command in hand is freed, then the pipeline.
LEMMA FreeAllKeeps == ASSUME PipeInv, Pipe!FreeAll PROVE PipeInv'
<1> DEFINE l == [blocks EXCEPT !.tokens = @ - 1]
           l2 == Pipe!AfterCommandFree(l, c, acap)
           w == Len(p)
           x == Pipe!Total(ArgsIn(p))
           y == Pipe!Total(TargetsIn(p))
           m == Len(c.argv)
           n == Pipe!TargetsOf(c)
<1>0. PipeTypeInv /\ OwnedInv /\ place = "fail"
  BY DEF PipeInv, Pipe!FreeAll
<1>1. /\ c' = Pipe!NoCommand /\ acap' = 0 /\ p' = <<>> /\ pcap' = 0
      /\ place' = "failed" /\ UNCHANGED <<t, next>>
      /\ blocks' = Pipe!AfterPipelineFree(l2, p, pcap)
  BY DEF Pipe!FreeAll
<1>2. /\ c \in Commands /\ p \in Seq(Commands) /\ acap \in Nat /\ pcap \in Nat
      /\ w \in Nat /\ m \in Nat
  BY <1>0 DEF PipeTypeInv, Commands
<1>3. x \in Nat /\ y \in Nat /\ n \in Nat
  BY <1>2, Totals, TargetsAre
<1>4. /\ blocks \in Blocks /\ blocks.tokens = 1 /\ blocks.commands = One(pcap)
      /\ blocks.argvs = w + One(acap) /\ blocks.args = x + m /\ blocks.targets = y + n
  BY <1>0 DEF OwnedInv, Parsing
<1>5. /\ One(acap) \in Nat /\ One(acap) = (IF acap > 0 THEN 1 ELSE 0)
      /\ One(pcap) \in Nat /\ One(pcap) = (IF pcap > 0 THEN 1 ELSE 0)
  BY <1>2 DEF One
<1> HIDE DEF w, x, y, m, n
<1>6. /\ l \in Blocks /\ l.tokens = 0 /\ l.commands = One(pcap)
      /\ l.argvs = w + One(acap) /\ l.args = x + m /\ l.targets = y + n
  BY <1>4 DEF Blocks
<1> HIDE DEF l
<1>7. l2 = Without(l, 0, One(acap), m, n) /\ l2 \in Blocks
  BY <1>2, <1>5, <1>6, CommandFreed, FreedIn DEF m, n
<1>8. /\ l2.tokens = 0 /\ l2.commands = One(pcap) - 0
      /\ l2.argvs = (w + One(acap)) - One(acap)
      /\ l2.args = (x + m) - m /\ l2.targets = (y + n) - n
  BY <1>6, <1>7 DEF Without
<1> HIDE DEF l2
<1>9. \A k, q \in Nat : (k + q) - q = k /\ k - 0 = k /\ k - k = 0
  OBVIOUS
<1>10. l2.commands = One(pcap) /\ l2.argvs = w /\ l2.args = x /\ l2.targets = y
  BY <1>2, <1>3, <1>5, <1>8, <1>9
<1>11. blocks' = Without(l2, One(pcap), w, x, y)
  BY <1>1, <1>2, <1>5, <1>7, PipelineFreed DEF w, x, y
<1>12. blocks' = [tokens |-> 0, commands |-> 0, argvs |-> 0, args |-> 0, targets |-> 0]
  BY <1>2, <1>3, <1>5, <1>8, <1>9, <1>10, <1>11 DEF Without
<1> QED BY <1>1, <1>12, AllFreed

\* pipeline_free by the caller.
LEMMA ClientFreeKeeps == ASSUME PipeInv, Pipe!ClientFree PROVE PipeInv'
<1> DEFINE w == Len(p)
           x == Pipe!Total(ArgsIn(p))
           y == Pipe!Total(TargetsIn(p))
<1>0. PipeTypeInv /\ PipeRoomInv /\ OwnedInv /\ place = "succeeded"
  BY DEF PipeInv, Pipe!ClientFree
<1>1. /\ UNCHANGED <<t, next, c, acap>> /\ p' = <<>> /\ pcap' = 0 /\ place' = "released"
      /\ blocks' = Pipe!AfterPipelineFree(blocks, p, pcap)
  BY DEF Pipe!ClientFree
<1>2. c = Pipe!NoCommand /\ acap = 0
  BY <1>0 DEF PipeRoomInv
<1>3. p \in Seq(Commands) /\ pcap \in Nat /\ w \in Nat
  BY <1>0 DEF PipeTypeInv
<1>4. x \in Nat /\ y \in Nat
  BY <1>3, Totals
<1>5. One(acap) = 0 /\ One(pcap) \in Nat /\ One(pcap) = (IF pcap > 0 THEN 1 ELSE 0)
  BY <1>2, <1>3 DEF One
<1>6. Len(c.argv) = 0 /\ Pipe!TargetsOf(c) = 0
  BY <1>2, NothingInHand, NoCommands
<1>7. /\ blocks \in Blocks /\ blocks.tokens = 0 /\ blocks.commands = One(pcap)
      /\ blocks.argvs = w + One(acap) /\ blocks.args = x + Len(c.argv)
      /\ blocks.targets = y + Pipe!TargetsOf(c)
  BY <1>0 DEF OwnedInv, Parsing
<1> HIDE DEF w, x, y
<1>8. blocks.argvs = w /\ blocks.args = x /\ blocks.targets = y
  BY <1>3, <1>4, <1>5, <1>6, <1>7
<1>9. blocks' = Without(blocks, One(pcap), w, x, y)
  BY <1>1, <1>3, <1>5, <1>7, PipelineFreed DEF w, x, y
<1>10. \A k \in Nat : k - k = 0
  OBVIOUS
<1>11. blocks' = [tokens |-> 0, commands |-> 0, argvs |-> 0, args |-> 0, targets |-> 0]
  BY <1>3, <1>4, <1>5, <1>7, <1>8, <1>9, <1>10 DEF Without
<1> QED BY <1>1, <1>2, <1>11, AllFreed

\* Every step of pipeline_parse keeps the invariant.
LEMMA NextPipe == PipeInv /\ [Pipe!Next]_pipeState => PipeInv'
<1> SUFFICES ASSUME PipeInv, [Pipe!Next]_pipeState PROVE PipeInv'
  OBVIOUS
<1>1. CASE UNCHANGED pipeState
  BY <1>1 DEF pipeState, PipeInv, PipeTypeInv, PipeRoomInv, OwnedInv, One, ArgsIn,
     TargetsIn
<1>2. CASE Pipe!Next
  <2>1. CASE Pipe!Returned /\ UNCHANGED Pipe!vars
    BY <1>1, <2>1 DEF Pipe!vars, pipeState
  <2> QED BY <1>2, <2>1, LooksKeep, AddArgKeeps, RedirectionKeeps, EndCommandKeeps,
             SucceedKeeps, FreeAllKeeps, ClientFreeKeeps DEF Pipe!Next
<1> QED BY <1>1, <1>2

\* The invariant of pipeline_parse.
LEMMA PipeInvariant == Spec => []PipeInv
<1>1. PipeInv /\ [Next]_vars => PipeInv'
  BY NextPipe, PipeSteps
<1>2. QED
  BY <1>1, InitPipe, PTL DEF Spec

(* pipeline_parse never reads a token beyond END, and argv always has room   *)
(* for the NULL that follows its arguments (parser.c:214-225, 334-396).       *)
THEOREM PipelineStaysInBounds == Spec => []PipelineInBounds
<1>1. PipeInv => PipelineInBounds
  BY NextToken DEF PipeInv, PipeTypeInv, PipeRoomInv, PipelineInBounds, Pipe!InBounds
<1>2. QED
  BY <1>1, PipeInvariant, PTL

(* Every block has one owner, the tokens, the command in hand or the         *)
(* pipeline, so that pipeline_parse, where it fails, and pipeline_free free  *)
(* each block once (parser.c:187-234, 397-403).                              *)
THEOREM PipelineFreesOnce == Spec => []PipelineMemory
<1>1. PipeInv => PipelineMemory
  <2> SUFFICES ASSUME PipeInv PROVE Pipe!MemoryAccounted
    BY DEF PipelineMemory
  <2>1. OwnedInv /\ place \in Parsing \cup {"succeeded", "failed", "released"}
    BY DEF PipeInv, PipeTypeInv
  <2>2. blocks = [tokens |-> blocks.tokens, commands |-> blocks.commands,
                  argvs |-> blocks.argvs, args |-> blocks.args, targets |-> blocks.targets]
    BY <2>1 DEF OwnedInv, Blocks
  <2>3. blocks.tokens = IF place \in {"succeeded", "failed", "released"} THEN 0 ELSE 1
    BY <2>1 DEF OwnedInv, Parsing
  <2> QED BY <2>1, <2>2, <2>3 DEF OwnedInv, Pipe!MemoryAccounted, One, ArgsIn, TargetsIn
<1>2. QED
  BY <1>1, PipeInvariant, PTL

\* A set of numbers below m, without and with m.
LEMMA Below ==
    ASSUME NEW m \in Nat, NEW S \in SUBSET (0 .. m - 1)
    PROVE  /\ IsFiniteSet(S) /\ Cardinality(S) \in Nat
           /\ m \notin S /\ Cardinality(S \cup {m}) = Cardinality(S) + 1
<1>1. IsFiniteSet(0 .. m - 1)
  BY FS_Interval
<1>2. IsFiniteSet(S)
  BY <1>1, FS_Subset
<1>3. m \notin S
  OBVIOUS
<1> QED BY <1>2, <1>3, FS_CardinalityType, FS_AddElement

\* A largest number is the last in order, and does not change what comes before.
LEMMA NthMore ==
    ASSUME NEW m \in Nat, NEW S \in SUBSET (0 .. m - 1)
    PROVE  /\ \A n \in 1 .. Cardinality(S) : Nth(S \cup {m}, n) = Nth(S, n)
           /\ Nth(S \cup {m}, Cardinality(S) + 1) = m
<1> DEFINE T == S \cup {m}
           N == Cardinality(S)
           Before(U, k) == {j \in U : j < k}
<1>1. N \in Nat /\ m \notin S /\ IsFiniteSet(S)
  BY Below
<1>2. \A k \in S : k \in Int /\ k < m
  OBVIOUS
<1>3. \A k \in S : Before(T, k) = Before(S, k)
  BY <1>2
<1>4. Before(T, m) = S
  <2>1. ~(m < m)
    OBVIOUS
  <2>2. \A j \in T : j \in S \/ j = m
    OBVIOUS
  <2> QED BY <1>2, <2>1, <2>2
<1>5. ASSUME NEW k \in S PROVE Cardinality(Before(S, k)) # N
  <2>1. Before(S, k) \in SUBSET S /\ Before(S, k) # S
    BY <1>2
  <2> QED BY <1>1, <2>1, FS_Subset
<1>6. ASSUME NEW n \in 1 .. N PROVE Nth(T, n) = Nth(S, n)
  <2> DEFINE P(k) == Cardinality({j \in T : j < k}) = n - 1
             Q(k) == Cardinality({j \in S : j < k}) = n - 1
  <2>1. \A k \in S : P(k) <=> Q(k)
    BY <1>3
  <2>2. ~P(m)
    BY <1>1, <1>4
  <2>3. \A k : (k \in T /\ P(k)) <=> (k \in S /\ Q(k))
    BY <2>1, <2>2
  <2>4. (CHOOSE k : k \in T /\ P(k)) = (CHOOSE k : k \in S /\ Q(k))
    BY <2>3
  <2>5. (CHOOSE k \in T : P(k)) = (CHOOSE k \in S : Q(k))
    BY <2>3
  <2> QED BY <2>5 DEF Nth
<1>7. Nth(T, N + 1) = m
  <2> DEFINE P(k) == Cardinality({j \in T : j < k}) = (N + 1) - 1
  <2>1. (N + 1) - 1 = N
    BY <1>1
  <2>2. P(m) /\ \A k \in T : P(k) => k = m
    BY <1>3, <1>4, <1>5, <2>1
  <2>3. (CHOOSE k \in T : P(k)) = m
    BY <2>2
  <2> QED BY <2>3 DEF Nth
<1> QED BY <1>6, <1>7

\* There is an n-th number for each n up to how many there are.
LEMMA NthIn ==
    ASSUME NEW m \in Nat, NEW S \in SUBSET (0 .. m - 1)
    PROVE  \A n \in 1 .. Cardinality(S) : Nth(S, n) \in S
<1> DEFINE Has(U) == \A n \in 1 .. Cardinality(U) : Nth(U, n) \in U
           Q == {k \in Nat : \A U \in SUBSET (0 .. k - 1) : Has(U)}
<1>1. 0 \in Q
  <2>1. \A U \in SUBSET (0 .. 0 - 1) : U = {}
    OBVIOUS
  <2>2. 1 .. Cardinality({}) = {}
    BY FS_EmptySet
  <2>3. Has({})
    BY <2>2
  <2> HIDE DEF Has
  <2> QED BY <2>1, <2>3
<1>2. \A k \in Nat : k \in Q => k + 1 \in Q
  <2> SUFFICES ASSUME NEW k \in Nat, k \in Q, NEW U \in SUBSET (0 .. (k + 1) - 1) PROVE Has(U)
    OBVIOUS
  <2>1. CASE k \notin U
    <3>1. U \in SUBSET (0 .. k - 1)
      BY <2>1
    <3> QED BY <3>1
  <2>2. CASE k \in U
    <3> DEFINE R == U \ {k}
    <3>1. R \in SUBSET (0 .. k - 1) /\ U = R \cup {k}
      BY <2>2
    <3> HIDE DEF R
    <3>2. Has(R) /\ Cardinality(R) \in Nat /\ Cardinality(U) = Cardinality(R) + 1
      BY <3>1, Below
    <3>3. /\ \A n \in 1 .. Cardinality(R) : Nth(U, n) = Nth(R, n)
          /\ Nth(U, Cardinality(R) + 1) = k
      BY <3>1, NthMore
    <3>4. ASSUME NEW n \in 1 .. Cardinality(U) PROVE Nth(U, n) \in U
      <4>1. n \in 1 .. Cardinality(R) \/ n = Cardinality(R) + 1
        BY <3>2
      <4> QED BY <3>1, <3>2, <3>3, <4>1
    <3> QED BY <3>4
  <2> QED BY <2>1, <2>2
<1>3. Nat \subseteq Q
  <2> HIDE DEF Q
  <2> QED BY <1>1, <1>2, Induct
<1>4. m \in Q
  BY <1>3
<1> QED BY <1>4

\* The values of a function with one more argument, the largest.
LEMMA InOrderMore ==
    ASSUME NEW m \in Nat, NEW f, NEW g, DOMAIN f \in SUBSET (0 .. m - 1),
           DOMAIN g = DOMAIN f \cup {m}, \A k \in DOMAIN f : g[k] = f[k]
    PROVE  InOrder(g) = Append(InOrder(f), g[m])
<1> DEFINE S == DOMAIN f
           N == Cardinality(S)
           s == InOrder(f)
           V == {f[k] : k \in S}
<1>1. N \in Nat /\ Cardinality(DOMAIN g) = N + 1
  <2>1. S \in SUBSET (0 .. m - 1) /\ DOMAIN g = S \cup {m}
    OBVIOUS
  <2> HIDE DEF S, s, V
  <2>2. Cardinality(S) \in Nat /\ Cardinality(S \cup {m}) = Cardinality(S) + 1
    BY <2>1, Below
  <2> QED BY <2>1, <2>2
<1>2. \A n \in 1 .. N : Nth(S, n) \in S /\ Nth(DOMAIN g, n) = Nth(S, n)
  <2>1. /\ \A n \in 1 .. Cardinality(S) : Nth(S \cup {m}, n) = Nth(S, n)
        /\ \A n \in 1 .. Cardinality(S) : Nth(S, n) \in S
    BY NthIn, NthMore
  <2> QED BY <2>1
<1>3. Nth(DOMAIN g, N + 1) = m
  BY NthMore
<1>4. s = [n \in 1 .. N |-> f[Nth(S, n)]]
  BY DEF InOrder
<1>5. InOrder(g) = [n \in 1 .. N + 1 |-> g[Nth(DOMAIN g, n)]]
  BY <1>1 DEF InOrder
<1> HIDE DEF s, N, S
<1>6. s \in Seq(V) /\ Len(s) = N
  <2>1. \A n \in 1 .. N : f[Nth(S, n)] \in V
    BY <1>2
  <2> HIDE DEF V
  <2> QED BY <1>1, <1>4, <2>1
<1> DEFINE e == g[m]
           W == V \cup {e}
           more == Append(s, e)
<1>7. more \in Seq(W) /\ Len(more) = N + 1 /\ more[N + 1] = e /\ \A n \in 1 .. N : more[n] = s[n]
  <2>1. s \in Seq(W) /\ e \in W
    BY <1>6
  <2> HIDE DEF e, W
  <2> QED BY <1>6, <2>1, AppendProperties
<1> HIDE DEF more, e, W
<1>8. ASSUME NEW n \in 1 .. N + 1 PROVE g[Nth(DOMAIN g, n)] = more[n]
  <2>1. CASE n <= N
    <3>1. n \in 1 .. N
      BY <1>1, <2>1
    <3>2. Nth(S, n) \in S /\ Nth(DOMAIN g, n) = Nth(S, n)
      BY <1>2, <3>1
    <3>3. g[Nth(S, n)] = f[Nth(S, n)]
      BY <3>2 DEF S
    <3> QED BY <1>4, <1>7, <3>1, <3>2, <3>3
  <2>2. CASE ~(n <= N)
    <3>1. n = N + 1
      BY <1>1, <2>2
    <3> QED BY <1>3, <1>7, <3>1 DEF e
  <2> QED BY <2>1, <2>2
<1>9. more = [n \in 1 .. N + 1 |-> more[n]]
  BY <1>1, <1>7
<1> QED BY <1>5, <1>8, <1>9 DEF more, e, s

\* Nothing in order is the empty sequence.
LEMMA InOrderNone == ASSUME NEW f, DOMAIN f = {} PROVE InOrder(f) = <<>>
<1>1. 1 .. Cardinality({}) = {}
  BY FS_EmptySet
<1>2. InOrder(f) = [n \in {} |-> f[Nth(DOMAIN f, n)]]
  BY <1>1 DEF InOrder
<1> QED BY <1>2

-----------------------------------------------------------------------------
(* The tokens of a line *)

\* The instances have the same order.
LEMMA OrderIs == \A f : Tok!InOrder(f) = InOrder(f) /\ Pipe!InOrder(f) = InOrder(f)
BY DEF Tok!InOrder, Tok!Nth, Tok!Cardinality, Pipe!InOrder, Pipe!Nth, Pipe!Cardinality,
       InOrder, Nth, Cardinality

\* How the quote changes with a character.
Quote(q, ch) == IF q = Tok!NoQuote
                THEN IF ch \in Tok!Quotes THEN ch ELSE Tok!NoQuote
                ELSE IF ch = q THEN Tok!NoQuote ELSE q
QuoteBody(l, f, k) == IF k = 0 THEN Tok!NoQuote ELSE Quote(f[k - 1], l[k])

\* The quotes of a line are a function on its indices.
LEMMA QuoteSteps ==
    ASSUME NEW l, Len(l) \in Nat
    PROVE  /\ Tok!QuoteAt(l)[0] = Tok!NoQuote
           /\ \A k \in 0 .. Len(l) - 1 :
                Tok!QuoteAt(l)[k + 1] = Quote(Tok!QuoteAt(l)[k], l[k + 1])
<1> DEFINE Is(n, f) == f = [k \in 0 .. n |-> QuoteBody(l, f, k)]
           Q == {n \in Nat : \E f : Is(n, f)}
           qs == Tok!QuoteAt(l)
<1>1. 0 \in Q
  <2> DEFINE f == [k \in 0 .. 0 |-> Tok!NoQuote]
  <2>1. \A k \in 0 .. 0 : QuoteBody(l, f, k) = Tok!NoQuote
    BY DEF QuoteBody
  <2>2. Is(0, f)
    BY <2>1
  <2> QED BY <2>2
<1>2. \A n \in Nat : n \in Q => n + 1 \in Q
  <2> SUFFICES ASSUME NEW n \in Nat, n \in Q PROVE \E f : Is(n + 1, f)
    OBVIOUS
  <2>1. PICK f : Is(n, f)
    OBVIOUS
  <2> DEFINE g == [k \in 0 .. n + 1 |-> QuoteBody(l, f, k)]
  <2>2. \A k \in 0 .. n : k \in 0 .. n + 1 /\ g[k] = f[k]
    BY <2>1
  <2>3. ASSUME NEW k \in 0 .. n + 1 PROVE QuoteBody(l, f, k) = QuoteBody(l, g, k)
    <3>1. k = 0 \/ k - 1 \in 0 .. n
      OBVIOUS
    <3> HIDE DEF g
    <3> QED BY <2>2, <3>1 DEF QuoteBody
  <2> HIDE DEF g
  <2>4. g = [k \in 0 .. n + 1 |-> QuoteBody(l, g, k)]
    BY <2>3 DEF g
  <2> QED BY <2>4
<1>3. Nat \subseteq Q
  <2> HIDE DEF Q
  <2> QED BY <1>1, <1>2, Induct
<1>4. \E f : Is(Len(l), f)
  BY <1>3
<1>5. qs = CHOOSE f : f = [k \in 0 .. Len(l) |-> QuoteBody(l, f, k)]
  BY DEF Tok!QuoteAt, QuoteBody, Quote
<1> HIDE DEF qs
<1>6. qs = [k \in 0 .. Len(l) |-> QuoteBody(l, qs, k)]
  BY <1>4, <1>5
<1>7. qs[0] = Tok!NoQuote
  <2>1. qs[0] = QuoteBody(l, qs, 0)
    BY <1>6
  <2> QED BY <2>1 DEF QuoteBody
<1>8. ASSUME NEW k \in 0 .. Len(l) - 1 PROVE qs[k + 1] = Quote(qs[k], l[k + 1])
  <2>1. k + 1 \in 0 .. Len(l) /\ k + 1 # 0 /\ (k + 1) - 1 = k
    OBVIOUS
  <2>2. qs[k + 1] = QuoteBody(l, qs, k + 1)
    BY <1>6, <2>1
  <2> QED BY <2>1, <2>2 DEF QuoteBody
<1> QED BY <1>7, <1>8 DEF qs

\* The quotes of the line, what delimits them, and what belongs to words.
Inside == Tok!QuoteAt(line)
Word == Tok!WordChars(line)
Delimiter == Tok!Delimiters(line)
Opening == {k \in Delimiter : Inside[k] = Tok!NoQuote}

\* The tokens that start before k, and the text from j up to k.
TokensBefore(k) ==
    InOrder([j \in Tok!TokenStarts(line) \cap (0 .. k - 1) |-> Tok!TokenFrom(line, j)])
TextBetween(j, k) == InOrder([m \in (j .. k - 1) \ Delimiter |-> line[m + 1]])

\* Between words the tokens are those that start before i.
BetweenInv ==
    pc = "token" =>
      /\ error = Tok!NoError /\ Inside[i] = Tok!NoQuote
      /\ i - 1 \in Word => i \notin Word
      /\ tokens = TokensBefore(i)

\* In a word they are those before it, and the buffer has its text so far.
WordInv ==
    pc = "word" =>
      /\ error = Tok!NoError /\ quote = Inside[i]
      /\ start <= i /\ start \in Word /\ start - 1 \notin Word /\ start .. i - 1 \subseteq Word
      /\ started = (start < i)
      /\ b = TextBetween(start, i)
      /\ tokens = TokensBefore(start)
      /\ quote # Tok!NoQuote =>
           /\ start < i /\ quote_pos \in Opening /\ quote_pos < i
           /\ \A k \in Opening : k < i => k <= quote_pos

\* The end.
EndedInv ==
    /\ pc = "succeeded" => tokens = Tok!TokensOf(line) /\ ~Tok!Unterminated(line)
                           /\ error = Tok!NoError
    /\ pc \in {"failed", "freed"} =>
         \/ error.message = "out_of_memory"
         \/ /\ Tok!Unterminated(line)
            /\ error = [position |-> Tok!LastOpening(line), message |-> "unterminated_quote"]

RightInv == BetweenInv /\ WordInv /\ EndedInv

\* What a character at i is, said of the line.
LEMMA CharIs ==
    ASSUME TokInv
    PROVE  /\ i \in Nat /\ Len(line) \in Nat /\ i <= Len(line) /\ start \in Nat
           /\ i < Len(line) <=> Tok!At(i) # "NUL"
           /\ i < Len(line) => /\ Tok!At(i) = line[i + 1] /\ Tok!At(i) \in Tok!Chars
                               /\ Tok!At(i) # Tok!NoQuote
                               /\ Inside[i + 1] = Quote(Inside[i], Tok!At(i))
           /\ i \in Word <=> /\ i < Len(line)
                             /\ \/ Inside[i] # Tok!NoQuote
                                \/ Tok!At(i) \notin Tok!Operators \cup {"blank"}
           /\ i \in Delimiter <=>
                i \in Word /\ (IF Inside[i] = Tok!NoQuote THEN Tok!At(i) \in Tok!Quotes
                               ELSE Tok!At(i) = Inside[i])
           /\ Delimiter \subseteq Word /\ Word \subseteq 0 .. Len(line) - 1
<1>1. /\ i \in Nat /\ Len(line) \in Nat /\ i <= Len(line) /\ start \in Nat
      /\ i < Len(line) <=> Tok!At(i) # "NUL"
      /\ Tok!At(i) # "NUL" => Tok!At(i) \in Tok!Chars
  BY CharAt DEF TokInv, TokTypeInv, RoomInv
<1>2. i < Len(line) => Tok!At(i) = line[i + 1]
  BY DEF Tok!At
<1>3. i < Len(line) => i \in 0 .. Len(line) - 1
  BY <1>1
<1>4. i < Len(line) => Inside[i + 1] = Quote(Inside[i], Tok!At(i))
  BY <1>1, <1>2, <1>3, QuoteSteps DEF Inside
<1>5. Tok!NoQuote \notin Tok!Chars
  BY DEF Tok!NoQuote, Tok!Chars, Tok!Quotes, Tok!Operators
<1>6. i \in Word <=> /\ i < Len(line)
                     /\ \/ Inside[i] # Tok!NoQuote
                        \/ Tok!At(i) \notin Tok!Operators \cup {"blank"}
  BY <1>1, <1>2, <1>3 DEF Word, Inside, Tok!WordChars
<1>7. i \in Delimiter <=>
        i \in Word /\ (IF Inside[i] = Tok!NoQuote THEN Tok!At(i) \in Tok!Quotes
                       ELSE Tok!At(i) = Inside[i])
  BY <1>2, <1>6 DEF Delimiter, Word, Inside, Tok!Delimiters
<1>8. Delimiter \subseteq Word /\ Word \subseteq 0 .. Len(line) - 1
  BY DEF Delimiter, Word, Tok!Delimiters, Tok!WordChars
<1> QED BY <1>1, <1>2, <1>4, <1>5, <1>6, <1>7, <1>8

\* One character more of a text, and a delimiter more.
LEMMA TextMore ==
    ASSUME NEW j \in Nat, NEW k \in Nat, j <= k
    PROVE  TextBetween(j, k + 1) = IF k \in Delimiter THEN TextBetween(j, k)
                                   ELSE Append(TextBetween(j, k), line[k + 1])
<1> DEFINE S == (j .. k - 1) \ Delimiter
           T == (j .. (k + 1) - 1) \ Delimiter
           f == [m \in S |-> line[m + 1]]
           g == [m \in T |-> line[m + 1]]
<1>1. j .. (k + 1) - 1 = (j .. k - 1) \cup {k}
  OBVIOUS
<1>2. CASE k \in Delimiter
  <2>1. S = T
    BY <1>1, <1>2
  <2> QED BY <1>2, <2>1 DEF TextBetween
<1>3. CASE k \notin Delimiter
  <2>1. T = S \cup {k} /\ S \in SUBSET (0 .. k - 1)
    BY <1>1, <1>3
  <2> HIDE DEF S, T
  <2>2. DOMAIN f = S /\ DOMAIN g = T /\ \A m \in S : g[m] = f[m]
    BY <2>1
  <2>3. g[k] = line[k + 1]
    BY <2>1
  <2> HIDE DEF f, g
  <2>4. InOrder(g) = Append(InOrder(f), g[k])
    BY <2>1, <2>2, InOrderMore
  <2>5. TextBetween(j, k + 1) = InOrder(g) /\ TextBetween(j, k) = InOrder(f)
    BY DEF TextBetween, f, g, S, T
  <2> QED BY <1>3, <2>3, <2>4, <2>5
<1> QED BY <1>2, <1>3

\* No token starts between j + 1 and k.
LEMMA TokensMore ==
    ASSUME NEW j \in Nat, NEW k \in Nat, j < k,
           \A m \in j + 1 .. k - 1 : m \notin Tok!TokenStarts(line)
    PROVE  TokensBefore(k) = IF j \in Tok!TokenStarts(line)
                             THEN Append(TokensBefore(j), Tok!TokenFrom(line, j))
                             ELSE TokensBefore(j)
<1> DEFINE A == Tok!TokenStarts(line)
           S == A \cap (0 .. j - 1)
           T == A \cap (0 .. k - 1)
           f == [m \in S |-> Tok!TokenFrom(line, m)]
           g == [m \in T |-> Tok!TokenFrom(line, m)]
<1>1. 0 .. k - 1 = (0 .. j - 1) \cup {j} \cup (j + 1 .. k - 1)
  OBVIOUS
<1> HIDE DEF A
<1>2. CASE j \notin A
  <2>1. S = T
    BY <1>1, <1>2 DEF A
  <2> QED BY <1>2, <2>1 DEF TokensBefore, A
<1>3. CASE j \in A
  <2>1. T = S \cup {j} /\ S \in SUBSET (0 .. j - 1)
    BY <1>1, <1>3 DEF A
  <2> HIDE DEF S, T
  <2>2. DOMAIN f = S /\ DOMAIN g = T /\ \A m \in S : g[m] = f[m]
    BY <2>1
  <2>3. g[j] = Tok!TokenFrom(line, j)
    BY <2>1
  <2> HIDE DEF f, g
  <2>4. InOrder(g) = Append(InOrder(f), g[j])
    BY <2>1, <2>2, InOrderMore
  <2>5. TokensBefore(k) = InOrder(g) /\ TokensBefore(j) = InOrder(f)
    BY DEF TokensBefore, f, g, S, T, A
  <2> QED BY <1>3, <2>3, <2>4, <2>5 DEF A
<1> QED BY <1>2, <1>3

\* Before the first character there is nothing.
LEMMA NothingBefore ==
    TokensBefore(0) = <<>> /\ \A k \in Nat : TextBetween(k, k) = <<>>
<1>1. Tok!TokenStarts(line) \cap (0 .. 0 - 1) = {}
  OBVIOUS
<1>2. \A k \in Nat : (k .. k - 1) \ Delimiter = {}
  OBVIOUS
<1>3. TokensBefore(0) = <<>>
  <2> DEFINE f == [j \in Tok!TokenStarts(line) \cap (0 .. 0 - 1) |-> Tok!TokenFrom(line, j)]
  <2>1. DOMAIN f = {}
    BY <1>1
  <2> HIDE DEF f
  <2>2. InOrder(f) = <<>>
    BY <2>1, InOrderNone
  <2> QED BY <2>2 DEF TokensBefore, f
<1>4. ASSUME NEW k \in Nat PROVE TextBetween(k, k) = <<>>
  <2> DEFINE f == [m \in (k .. k - 1) \ Delimiter |-> line[m + 1]]
  <2>1. DOMAIN f = {}
    BY <1>2
  <2> HIDE DEF f
  <2>2. InOrder(f) = <<>>
    BY <2>1, InOrderNone
  <2> QED BY <2>2 DEF TextBetween, f
<1> QED BY <1>3, <1>4

\* Adding a token succeeds, or memory is out.
LEMMA Adds ==
    ASSUME NEW l, NEW type, NEW text, NEW pos, NEW to, Tok!AddToken(l, type, text, pos, to)
    PROVE  \/ /\ pc' = to /\ error' = error
              /\ tokens' = Append(tokens, Tok!Token(type, text, pos))
           \/ pc' = "failed" /\ error'.message = "out_of_memory"
BY DEF Tok!AddToken, Tok!OutOfMemory

\* A failure for want of memory is one.
LEMMA FailsRight ==
    ASSUME pc' = "failed", error'.message = "out_of_memory" PROVE RightInv'
BY DEF RightInv, BetweenInv, WordInv, EndedInv

\* Nothing is read yet, and nothing is before the first character.
LEMMA InitRight == Init => RightInv
<1> SUFFICES ASSUME Init PROVE RightInv
  OBVIOUS
<1>1. i = 0 /\ tokens = <<>> /\ pc = "token" /\ error = Tok!NoError
  BY DEF Init, Tok!Start
<1>2. Len(line) \in Nat
  BY InitTok DEF TokInv, TokTypeInv
<1>3. Inside[i] = Tok!NoQuote
  BY <1>1, <1>2, QuoteSteps DEF Inside
<1>4. i - 1 \notin Word
  BY <1>1 DEF Word, Tok!WordChars
<1> QED BY <1>1, <1>3, <1>4, NothingBefore DEF RightInv, BetweenInv, WordInv, EndedInv

\* What depends on the line only.
LEMMA SameLine ==
    ASSUME line' = line
    PROVE  /\ Inside' = Inside /\ Word' = Word /\ Delimiter' = Delimiter /\ Opening' = Opening
           /\ \A j, k : TextBetween(j, k)' = TextBetween(j, k)
           /\ \A k : TokensBefore(k)' = TokensBefore(k)
BY DEF Inside, Word, Delimiter, Opening, TextBetween, TokensBefore

\* A blank between words is behind every token that ends there.
LEMMA SkipSpaceRight == ASSUME TokInv, RightInv, Tok!SkipSpace PROVE RightInv'
<1>1. /\ pc = "token" /\ pc' = "token" /\ Tok!At(i) = "blank" /\ i' = i + 1
      /\ line' = line /\ tokens' = tokens /\ error' = error
  BY DEF Tok!SkipSpace
<1>2. /\ error = Tok!NoError /\ Inside[i] = Tok!NoQuote /\ tokens = TokensBefore(i)
  BY <1>1 DEF RightInv, BetweenInv
<1>3. i < Len(line) /\ i \in Nat /\ i \notin Word /\ Inside[i + 1] = Tok!NoQuote
      /\ Tok!At(i) = line[i + 1]
  BY <1>1, <1>2, CharIs DEF Quote, Tok!Quotes
<1>4. i \notin Tok!TokenStarts(line)
  BY <1>1, <1>3 DEF Tok!TokenStarts, Word, Tok!Operators
<1>5. TokensBefore(i + 1) = TokensBefore(i)
  <2>1. i + 1 \in Nat /\ i < i + 1 /\ \A m \in i + 1 .. (i + 1) - 1 : FALSE
    BY <1>3
  <2> QED BY <1>3, <1>4, <2>1, TokensMore
<1>6. (i + 1) - 1 = i
  BY <1>3
<1>7. BetweenInv'
  BY <1>1, <1>2, <1>3, <1>5, <1>6, SameLine DEF BetweenInv
<1> QED BY <1>1, <1>7 DEF RightInv, WordInv, EndedInv

\* An operator is a token of its own.
LEMMA OperatorRight == ASSUME TokInv, RightInv, Tok!OperatorToken PROVE RightInv'
<1>1. /\ pc = "token" /\ Tok!At(i) \in Tok!Operators /\ i' = i + 1 /\ line' = line
      /\ Tok!AddToken(live, Tok!At(i), Tok!NoText, i, "token")
  BY DEF Tok!OperatorToken
<1>2. /\ error = Tok!NoError /\ Inside[i] = Tok!NoQuote /\ tokens = TokensBefore(i)
  BY <1>1 DEF RightInv, BetweenInv
<1>3. i < Len(line) /\ i \in Nat /\ Len(line) \in Nat /\ i \notin Word
      /\ Inside[i + 1] = Tok!NoQuote /\ Tok!At(i) = line[i + 1]
  BY <1>1, <1>2, CharIs DEF Quote, Tok!Quotes, Tok!Operators
<1>4. i \in Tok!TokenStarts(line)
  <2>1. i \in 0 .. Len(line) - 1
    BY <1>3
  <2> QED BY <1>1, <1>3, <2>1 DEF Tok!TokenStarts, Word
<1>5. Tok!TokenFrom(line, i) = Tok!Token(Tok!At(i), Tok!NoText, i)
  BY <1>3 DEF Tok!TokenFrom, Word
<1>6. TokensBefore(i + 1) = Append(tokens, Tok!Token(Tok!At(i), Tok!NoText, i))
  <2>1. i + 1 \in Nat /\ i < i + 1 /\ \A m \in i + 1 .. (i + 1) - 1 : FALSE
    BY <1>3
  <2> QED BY <1>2, <1>3, <1>4, <1>5, <2>1, TokensMore
<1>7. (i + 1) - 1 = i
  BY <1>3
<1>8. CASE pc' = "token" /\ error' = error
           /\ tokens' = Append(tokens, Tok!Token(Tok!At(i), Tok!NoText, i))
  <2>1. BetweenInv'
    BY <1>1, <1>2, <1>3, <1>6, <1>7, <1>8, SameLine DEF BetweenInv
  <2> QED BY <1>8, <2>1 DEF RightInv, WordInv, EndedInv
<1> QED BY <1>1, <1>8, Adds, FailsRight

\* A word begins at the first character that is neither blank nor an operator.
LEMMA BeginWordRight == ASSUME TokInv, RightInv, Tok!BeginWord PROVE RightInv'
<1>1. /\ pc = "token" /\ Tok!At(i) \notin Tok!Operators \cup {"blank", "NUL"}
      /\ start' = i /\ b' = <<>> /\ quote' = Tok!NoQuote /\ started' = FALSE /\ pc' = "word"
      /\ line' = line /\ i' = i /\ tokens' = tokens /\ error' = error
  BY DEF Tok!BeginWord
<1>2. /\ error = Tok!NoError /\ Inside[i] = Tok!NoQuote /\ tokens = TokensBefore(i)
      /\ i - 1 \in Word => i \notin Word
  BY <1>1 DEF RightInv, BetweenInv
<1>3. i \in Word /\ i \in Nat
  BY <1>1, <1>2, CharIs
<1>4. i .. i - 1 = {} /\ i <= i /\ ~(i < i)
  BY <1>3
<1>5. TextBetween(i, i) = <<>>
  BY <1>3, NothingBefore
<1>6. /\ error' = Tok!NoError /\ quote' = Inside'[i'] /\ start' <= i' /\ start' \in Word'
      /\ start' - 1 \notin Word' /\ start' .. i' - 1 \subseteq Word'
      /\ started' = (start' < i') /\ quote' = Tok!NoQuote
  <2>1. start' .. i' - 1 = {} /\ start' <= i' /\ (start' < i') = FALSE
    BY <1>1, <1>4
  <2>2. start' - 1 \notin Word'
    BY <1>1, <1>2, <1>3, SameLine
  <2> QED BY <1>1, <1>2, <1>3, <2>1, <2>2, SameLine
<1>7. b' = TextBetween(start, i)' /\ tokens' = TokensBefore(start)'
  BY <1>1, <1>2, <1>5, SameLine
<1>8. WordInv'
  BY <1>6, <1>7 DEF WordInv
<1> QED BY <1>1, <1>8 DEF RightInv, BetweenInv, EndedInv

\* The END token is the last of the line.
LEMMA EndOfLineRight == ASSUME TokInv, RightInv, Tok!EndOfLine PROVE RightInv'
<1>1. /\ pc = "token" /\ Tok!At(i) = "NUL" /\ i' = i /\ line' = line
      /\ Tok!AddToken(live, "END", Tok!NoText, i, "succeeded")
  BY DEF Tok!EndOfLine
<1>2. /\ error = Tok!NoError /\ Inside[i] = Tok!NoQuote /\ tokens = TokensBefore(i)
  BY <1>1 DEF RightInv, BetweenInv
<1>3. i = Len(line) /\ i \in Nat
  BY <1>1, CharIs
<1>4. ~Tok!Unterminated(line)
  BY <1>2, <1>3 DEF Tok!Unterminated, Inside
<1>5. Append(tokens, Tok!Token("END", Tok!NoText, i)) = Tok!TokensOf(line)
  <2>1. Tok!TokenStarts(line) \cap (0 .. i - 1) = Tok!TokenStarts(line)
    BY <1>3 DEF Tok!TokenStarts
  <2>2. tokens = InOrder([j \in Tok!TokenStarts(line) |-> Tok!TokenFrom(line, j)])
    BY <1>2, <2>1 DEF TokensBefore
  <2> QED BY <1>3, <2>2, OrderIs DEF Tok!TokensOf
<1>6. CASE pc' = "succeeded" /\ error' = error
           /\ tokens' = Append(tokens, Tok!Token("END", Tok!NoText, i))
  BY <1>1, <1>2, <1>4, <1>5, <1>6 DEF RightInv, BetweenInv, WordInv, EndedInv
<1> QED BY <1>1, <1>6, Adds, FailsRight

\* A character more in a word.
LEMMA InWordRight ==
    ASSUME TokInv, RightInv, Tok!InWord, UNCHANGED <<line, start, tokens, error, pc>>,
           i' = i + 1, started' = TRUE \/ (started' = started /\ quote # Tok!NoQuote),
           quote' = Inside[i + 1],
           b' = TextBetween(start, i + 1),
           quote' # Tok!NoQuote =>
             \/ quote' = quote /\ quote_pos' = quote_pos /\ i \notin Opening
             \/ quote_pos' = i /\ i \in Opening
    PROVE  RightInv'
<1>1. /\ pc = "word" /\ pc' = "word" /\ Tok!At(i) # "NUL"
      /\ quote # Tok!NoQuote \/ Tok!At(i) \notin Tok!Operators \cup {"blank"}
  BY DEF Tok!InWord, Tok!Separates
<1>2. WordInv
  BY DEF RightInv
<1>3. /\ error = Tok!NoError /\ quote = Inside[i]
      /\ start <= i /\ start \in Word /\ start - 1 \notin Word /\ start .. i - 1 \subseteq Word
      /\ started = (start < i) /\ tokens = TokensBefore(start)
      /\ quote # Tok!NoQuote =>
           /\ start < i /\ quote_pos \in Opening /\ quote_pos < i
           /\ \A k \in Opening : k < i => k <= quote_pos
  BY <1>1, <1>2 DEF WordInv
<1>4. i \in Word /\ i \in Nat /\ start \in Nat
  BY <1>1, <1>3, CharIs
<1>5. start .. (i + 1) - 1 = (start .. i - 1) \cup {i}
  BY <1>3, <1>4
<1>6. start < i + 1 /\ start <= i + 1
  BY <1>3, <1>4
<1>7. started' = TRUE
  BY <1>3
<1>8. \A k \in Opening : k \in Nat /\ (k < i + 1 => k < i \/ k = i)
  <2>1. \A k \in Opening : k \in Nat
    BY CharIs DEF Opening
  <2> QED BY <1>4, <2>1
<1>9. quote' # Tok!NoQuote =>
        /\ quote_pos' \in Opening /\ quote_pos' < i + 1
        /\ \A k \in Opening : k < i + 1 => k <= quote_pos'
  BY <1>3, <1>4, <1>8
<1>10. WordInv'
  BY <1>1, <1>3, <1>4, <1>5, <1>6, <1>7, <1>9, SameLine DEF WordInv
<1> QED BY <1>1, <1>10 DEF RightInv, BetweenInv, EndedInv

\* Where a word can go on, its next character belongs to it.
LEMMA WordGoesOn ==
    ASSUME TokInv, RightInv, Tok!InWord
    PROVE  /\ quote = Inside[i] /\ b = TextBetween(start, i) /\ start \in Nat /\ start <= i
           /\ i \in Nat /\ i < Len(line) /\ i \in Word
           /\ Tok!At(i) = line[i + 1] /\ Tok!At(i) # Tok!NoQuote
           /\ Inside[i + 1] = Quote(quote, Tok!At(i))
           /\ i \in Delimiter <=> (IF quote = Tok!NoQuote THEN Tok!At(i) \in Tok!Quotes
                                   ELSE Tok!At(i) = quote)
           /\ i \in Opening <=> quote = Tok!NoQuote /\ Tok!At(i) \in Tok!Quotes
<1>1. /\ pc = "word" /\ Tok!At(i) # "NUL"
      /\ quote # Tok!NoQuote \/ Tok!At(i) \notin Tok!Operators \cup {"blank"}
  BY DEF Tok!InWord, Tok!Separates
<1>2. quote = Inside[i] /\ b = TextBetween(start, i) /\ start <= i
  BY <1>1 DEF RightInv, WordInv
<1> QED BY <1>1, <1>2, CharIs DEF Opening

\* A quote that delimits is no character of the text.
LEMMA QuoteRight ==
    ASSUME TokInv, RightInv, Tok!OpenQuote \/ Tok!CloseQuote PROVE RightInv'
<1>1. /\ Tok!InWord /\ i' = i + 1 /\ b' = b
      /\ UNCHANGED <<line, start, tokens, error, pc>>
      /\ \/ /\ quote = Tok!NoQuote /\ Tok!At(i) \in Tok!Quotes /\ quote' = Tok!At(i)
            /\ quote_pos' = i /\ started' = TRUE
         \/ Tok!At(i) = quote /\ quote' = Tok!NoQuote /\ quote_pos' = quote_pos
            /\ started' = started
  BY DEF Tok!OpenQuote, Tok!CloseQuote
<1>2. /\ b = TextBetween(start, i) /\ start \in Nat /\ start <= i /\ i \in Nat
      /\ Tok!At(i) # Tok!NoQuote /\ Inside[i + 1] = Quote(quote, Tok!At(i))
      /\ i \in Delimiter <=> (IF quote = Tok!NoQuote THEN Tok!At(i) \in Tok!Quotes
                              ELSE Tok!At(i) = quote)
      /\ i \in Opening <=> quote = Tok!NoQuote /\ Tok!At(i) \in Tok!Quotes
  BY <1>1, WordGoesOn
<1>3. i \in Delimiter
  BY <1>1, <1>2
<1>4. b' = TextBetween(start, i + 1)
  BY <1>1, <1>2, <1>3, TextMore
<1>5. quote' = Inside[i + 1]
  BY <1>1, <1>2 DEF Quote
<1> QED BY <1>1, <1>2, <1>4, <1>5, InWordRight

\* Every other character of a word is one of its text.
LEMMA AddCharRight == ASSUME TokInv, RightInv, Tok!AddChar PROVE RightInv'
<1>1. /\ Tok!InWord /\ Tok!At(i) # quote /\ (quote = Tok!NoQuote => Tok!At(i) \notin Tok!Quotes)
      /\ started' = TRUE /\ UNCHANGED <<line, start, tokens, quote, quote_pos>>
      /\ \/ b' = Append(b, Tok!At(i)) /\ i' = i + 1 /\ UNCHANGED <<error, pc>>
         \/ pc' = "failed" /\ error'.message = "out_of_memory"
  BY DEF Tok!AddChar, Tok!OutOfMemory
<1>2. /\ b = TextBetween(start, i) /\ start \in Nat /\ start <= i /\ i \in Nat
      /\ Tok!At(i) = line[i + 1] /\ Inside[i + 1] = Quote(quote, Tok!At(i))
      /\ i \in Delimiter <=> (IF quote = Tok!NoQuote THEN Tok!At(i) \in Tok!Quotes
                              ELSE Tok!At(i) = quote)
      /\ i \in Opening <=> quote = Tok!NoQuote /\ Tok!At(i) \in Tok!Quotes
  BY <1>1, WordGoesOn
<1>3. i \notin Delimiter /\ i \notin Opening
  BY <1>1, <1>2
<1>4. CASE b' = Append(b, Tok!At(i)) /\ i' = i + 1 /\ UNCHANGED <<error, pc>>
  <2>1. b' = TextBetween(start, i + 1)
    BY <1>2, <1>3, <1>4, TextMore
  <2>2. quote' = Inside[i + 1]
    BY <1>1, <1>2 DEF Quote
  <2> QED BY <1>1, <1>3, <1>4, <2>1, <2>2, InWordRight
<1> QED BY <1>1, <1>4, FailsRight

\* A word that is bad has a quote that is open at the end of the line.
LEMMA BadWordRight == ASSUME TokInv, RightInv, Tok!BadWord PROVE RightInv'
<1>1. /\ pc = "word" /\ (Tok!At(i) = "NUL" \/ Tok!Separates(Tok!At(i)))
      /\ quote # Tok!NoQuote \/ ~started
      /\ error' = Tok!WordError /\ pc' = "failed" /\ line' = line
  BY DEF Tok!BadWord
<1>2. /\ quote = Inside[i] /\ start <= i /\ start \in Word /\ started = (start < i)
      /\ quote # Tok!NoQuote =>
           /\ quote_pos \in Opening /\ quote_pos < i
           /\ \A k \in Opening : k < i => k <= quote_pos
  BY <1>1 DEF RightInv, WordInv
<1>3. quote # Tok!NoQuote
  <2>1. SUFFICES ASSUME quote = Tok!NoQuote PROVE FALSE
    OBVIOUS
  <2>2. ~(start < i) /\ start \in Nat /\ i \in Nat
    BY <1>1, <1>2, <2>1, CharIs
  <2>3. start = i
    BY <1>2, <2>2
  <2>4. Tok!At(i) # "NUL" /\ Tok!At(i) \notin Tok!Operators \cup {"blank"}
    BY <1>2, <2>1, <2>3, CharIs
  <2> QED BY <1>1, <2>1, <2>4 DEF Tok!Separates
<1>4. i = Len(line) /\ i \in Nat
  BY <1>1, <1>3, CharIs DEF Tok!Separates
<1>5. Tok!Unterminated(line)
  BY <1>2, <1>3, <1>4 DEF Tok!Unterminated, Inside
<1>6. \A k \in Opening : k \in Nat /\ k < i
  BY <1>4, CharIs DEF Opening
<1>7. quote_pos \in Opening /\ \A k \in Opening : quote_pos >= k
  BY <1>2, <1>3, <1>6
<1>8. \A k \in Opening : (\A m \in Opening : k >= m) => k = quote_pos
  BY <1>6, <1>7
<1>9. Tok!LastOpening(line) = quote_pos
  <2>1. Tok!LastOpening(line) = CHOOSE k \in Opening : \A m \in Opening : k >= m
    BY DEF Tok!LastOpening, Tok!Max, Opening, Delimiter, Inside
  <2> QED BY <1>7, <1>8, <2>1
<1>10. error' = [position |-> Tok!LastOpening(line), message |-> "unterminated_quote"]
  BY <1>1, <1>3, <1>9 DEF Tok!WordError
<1> QED BY <1>1, <1>5, <1>10 DEF RightInv, BetweenInv, WordInv, EndedInv

\* The word that ends before i is the longest run from its start, with its text.
LEMMA EndWordRight == ASSUME TokInv, RightInv, Tok!EndWord PROVE RightInv'
<1>1. /\ pc = "word" /\ (Tok!At(i) = "NUL" \/ Tok!Separates(Tok!At(i)))
      /\ quote = Tok!NoQuote /\ started /\ i' = i /\ line' = line
      /\ \/ Tok!AddToken(Tok!BufferFreed, "WORD", b, start, "token")
         \/ pc' = "failed" /\ error'.message = "out_of_memory"
  BY DEF Tok!EndWord, Tok!OutOfMemory
<1>2. /\ error = Tok!NoError /\ quote = Inside[i] /\ start \in Word /\ start - 1 \notin Word
      /\ start .. i - 1 \subseteq Word /\ started = (start < i)
      /\ b = TextBetween(start, i) /\ tokens = TokensBefore(start)
  BY <1>1 DEF RightInv, WordInv
<1>3. i \notin Word /\ i \in Nat /\ start \in Nat /\ start < i
      /\ Word \subseteq 0 .. Len(line) - 1 /\ Len(line) \in Nat
  BY <1>1, <1>2, CharIs DEF Tok!Separates
<1>4. {j \in Word : start <= j /\ start .. j \subseteq Word} = start .. i - 1
  <2>1. ASSUME NEW j \in Word, start <= j, start .. j \subseteq Word PROVE j \in start .. i - 1
    <3>1. j \in Int
      BY <1>3
    <3>2. i <= j => i \in start .. j
      BY <1>3, <3>1
    <3> QED BY <1>3, <2>1, <3>1, <3>2
  <2>2. ASSUME NEW j \in start .. i - 1 PROVE j \in Word /\ start <= j /\ start .. j \subseteq Word
    <3>1. start .. j \subseteq start .. i - 1
      BY <1>3
    <3> QED BY <1>2, <1>3, <3>1
  <2> QED BY <2>1, <2>2
<1>5. Tok!WordFrom(line, start) = b
  <2>1. Tok!WordFrom(line, start) = InOrder([j \in (start .. i - 1) \ Delimiter |-> line[j + 1]])
    BY <1>4, OrderIs DEF Tok!WordFrom, Word, Delimiter
  <2> QED BY <1>2, <2>1 DEF TextBetween
<1>6. start \in Tok!TokenStarts(line) /\ Tok!TokenFrom(line, start) = Tok!Token("WORD", b, start)
  BY <1>2, <1>3, <1>5 DEF Tok!TokenStarts, Tok!TokenFrom, Word
<1>7. \A m \in start + 1 .. i - 1 : m \notin Tok!TokenStarts(line)
  <2>1. \A m \in start + 1 .. i - 1 : m \in start .. i - 1 /\ m - 1 \in start .. i - 1
    BY <1>3
  <2> QED BY <1>2, <2>1 DEF Tok!TokenStarts, Word
<1>8. TokensBefore(i) = Append(tokens, Tok!Token("WORD", b, start))
  BY <1>2, <1>3, <1>6, <1>7, TokensMore
<1>9. CASE pc' = "token" /\ error' = error
           /\ tokens' = Append(tokens, Tok!Token("WORD", b, start))
  <2>1. BetweenInv'
    BY <1>1, <1>2, <1>3, <1>8, <1>9, SameLine DEF BetweenInv
  <2> QED BY <1>9, <2>1 DEF RightInv, WordInv, EndedInv
<1> QED BY <1>1, <1>9, Adds, FailsRight

\* Freeing the tokens changes none of what tokenize said.
LEMMA FreeTokensRight == ASSUME RightInv, Tok!FreeTokens PROVE RightInv'
BY DEF Tok!FreeTokens, RightInv, BetweenInv, WordInv, EndedInv

\* Every step of tokenize keeps the invariant.
LEMMA NextRight == TokInv /\ RightInv /\ [Tok!Next]_tokState => RightInv'
<1> SUFFICES ASSUME TokInv, RightInv, [Tok!Next]_tokState PROVE RightInv'
  OBVIOUS
<1>1. ASSUME UNCHANGED tokState PROVE RightInv'
  <2>1. UNCHANGED <<line, i, start, tokens, b, quote, quote_pos, started, error, pc>>
    BY <1>1 DEF tokState
  <2>2. BetweenInv'
    BY <2>1, SameLine DEF RightInv, BetweenInv
  <2>3. WordInv'
    BY <2>1, SameLine DEF RightInv, WordInv
  <2>4. EndedInv'
    BY <2>1 DEF RightInv, EndedInv
  <2> QED BY <2>2, <2>3, <2>4 DEF RightInv
<1>2. CASE Tok!Returned /\ UNCHANGED Tok!vars
  BY <1>1, <1>2 DEF Tok!vars, tokState
<1> QED
  BY <1>1, <1>2, SkipSpaceRight, OperatorRight, BeginWordRight, EndOfLineRight, QuoteRight,
     AddCharRight, BadWordRight, EndWordRight, FreeTokensRight DEF Tok!Next


(* Where tokenize succeeds, its tokens are those that a definition on the    *)
(* whole line gives, the text of a word without the quotes that delimit it,  *)
(* and where it fails on a quote, that quote is open at the end of the line  *)
(* (parser.c:97-187).                                                        *)
THEOREM TokenizesRight == Spec => []TokensRight
<1>1. TokInv /\ RightInv /\ [Next]_vars => RightInv'
  BY NextRight, TokSteps
<1>2. RightInv => TokensRight
  BY DEF RightInv, EndedInv, TokensRight, Tok!MeetsReference
<1> QED BY <1>1, <1>2, InitRight, TokInvariant, PTL DEF Spec

-----------------------------------------------------------------------------
(* The pipeline of a token list *)

Ends == {"|", "END"}
Starts == Pipe!Starts(t)
Seg(s) == Pipe!Segment(t, s)
IsOp(k) == k \in Pipe!Ops(t)

\* What the sets of indices are.
LEMMA IndicesAre ==
    ASSUME PipeTypeInv
    PROVE  /\ Len(t) \in Nat \ {0}
           /\ \A k \in 1 .. Len(t) : /\ t[k].type \in Pipe!Types /\ t[k].text \in Texts
                                     /\ t[k].type = "END" <=> k = Len(t)
           /\ \A k, ty : k \in Pipe!OfType(t, ty) <=> k \in 1 .. Len(t) /\ t[k].type = ty
           /\ \A k : IsOp(k) <=> k \in 1 .. Len(t) /\ t[k].type \in {"<", ">"}
           /\ \A s : s \in Starts <=> Len(t) # 1 /\ (s = 0 \/ s \in Pipe!OfType(t, "|"))
           /\ \A s \in Starts : s \in Nat /\ s < Len(t)
<1>1. Len(t) \in Nat /\ \A k \in 1 .. Len(t) : t[k] \in TokenKind
  BY DEF PipeTypeInv
<1>2. t # <<>> /\ \A k \in 1 .. Len(t) : t[k].type = "END" <=> k = Len(t)
  BY DEF PipeTypeInv, Pipe!EndsOnce
<1>3. Len(t) # 0
  BY <1>2 DEF PipeTypeInv
<1>4. \A k \in 1 .. Len(t) : t[k].type \in Pipe!Types /\ t[k].text \in Texts
  BY <1>1 DEF TokenKind
<1>5. \A k, ty : k \in Pipe!OfType(t, ty) <=> k \in 1 .. Len(t) /\ t[k].type = ty
  BY DEF Pipe!OfType
<1>6. \A k : IsOp(k) <=> k \in 1 .. Len(t) /\ t[k].type \in {"<", ">"}
  BY <1>5 DEF IsOp, Pipe!Ops
<1>7. \A s : s \in Starts <=> Len(t) # 1 /\ (s = 0 \/ s \in Pipe!OfType(t, "|"))
  BY DEF Starts, Pipe!Starts
<1>8. ASSUME NEW s \in Starts PROVE s \in Nat /\ s < Len(t)
  <2>1. CASE s = 0
    BY <1>1, <1>3, <2>1
  <2>2. CASE s # 0
    <3>1. s \in 1 .. Len(t) /\ t[s].type = "|"
      BY <1>5, <1>7, <2>2
    <3>2. s # Len(t)
      BY <1>2, <3>1
    <3> QED BY <1>1, <3>1, <3>2
  <2> QED BY <2>1, <2>2
<1> QED BY <1>1, <1>2, <1>3, <1>4, <1>5, <1>6, <1>7, <1>8

\* The segment of a start goes on, or it ends.
LEMMA SegmentIs ==
    ASSUME PipeTypeInv, NEW s \in Starts
    PROVE  /\ \A k : k \in Seg(s) <=>
                  k \in s + 1 .. Len(t) /\ \A j \in s + 1 .. k : t[j].type \notin Ends
           /\ \A k \in Seg(s) : k \in 1 .. Len(t) /\ s < k /\ t[k].type \notin Ends
           /\ \A k \in 1 .. Len(t) :
                s < k /\ s + 1 .. k - 1 \subseteq Seg(s) =>
                  /\ t[k].type \in Ends => Seg(s) = s + 1 .. k - 1
                  /\ t[k].type \notin Ends => s + 1 .. k \subseteq Seg(s)
<1>1. \A k : k \in Seg(s) <=>
           k \in s + 1 .. Len(t) /\ \A j \in s + 1 .. k : t[j].type \notin Ends
  BY DEF Seg, Pipe!Segment, Ends
<1>2. s \in Nat /\ s < Len(t) /\ Len(t) \in Nat
  BY IndicesAre
<1>3. ASSUME NEW k \in Seg(s) PROVE k \in 1 .. Len(t) /\ s < k /\ t[k].type \notin Ends
  <2>1. k \in s + 1 .. Len(t)
    BY <1>1
  <2>2. k \in s + 1 .. k
    BY <1>2, <2>1
  <2> QED BY <1>1, <1>2, <2>1, <2>2
<1>4. ASSUME NEW k \in 1 .. Len(t), s < k, s + 1 .. k - 1 \subseteq Seg(s), t[k].type \in Ends
      PROVE  Seg(s) = s + 1 .. k - 1
  <2>1. ASSUME NEW j \in Seg(s) PROVE j \in s + 1 .. k - 1
    <3>1. j \in s + 1 .. Len(t) /\ \A m \in s + 1 .. j : t[m].type \notin Ends
      BY <1>1
    <3>2. k \notin s + 1 .. j
      BY <1>4, <3>1
    <3> QED BY <1>2, <1>4, <3>1, <3>2
  <2> QED BY <1>4, <2>1
<1>5. ASSUME NEW k \in 1 .. Len(t), s < k, s + 1 .. k - 1 \subseteq Seg(s), t[k].type \notin Ends
      PROVE  s + 1 .. k \subseteq Seg(s)
  <2>1. s + 1 .. k = (s + 1 .. k - 1) \cup {k}
    BY <1>2, <1>5
  <2>2. \A j \in s + 1 .. k : t[j].type \notin Ends
    BY <1>3, <1>5, <2>1
  <2>3. k \in s + 1 .. Len(t)
    BY <1>2, <1>5
  <2>4. k \in Seg(s)
    BY <1>1, <2>2, <2>3
  <2> QED BY <1>5, <2>1, <2>4
<1> QED BY <1>1, <1>3, <1>4, <1>5

\* A token belongs to one command.
LEMMA OneSegment ==
    ASSUME PipeTypeInv, NEW s \in Starts, NEW u \in Starts, NEW k \in Seg(s), k \in Seg(u)
    PROVE  s = u
<1>1. ASSUME NEW x \in Starts, NEW y \in Starts, k \in Seg(x), k \in Seg(y) PROVE ~(x < y)
  <2>1. SUFFICES ASSUME x < y PROVE FALSE
    OBVIOUS
  <2>2. x \in Nat /\ y \in Nat /\ Len(t) \in Nat
    BY IndicesAre
  <2>3. y # 0 /\ y \in Pipe!OfType(t, "|")
    BY <2>1, <2>2, IndicesAre
  <2>4. t[y].type = "|"
    BY <2>3, IndicesAre
  <2>5. k \in 1 .. Len(t) /\ y < k
    BY <1>1, SegmentIs
  <2>6. \A j \in x + 1 .. k : t[j].type \notin Ends
    BY <1>1, SegmentIs
  <2>7. y \in x + 1 .. k
    BY <2>1, <2>2, <2>5
  <2> QED BY <2>4, <2>6, <2>7 DEF Ends
<1>2. s \in Nat /\ u \in Nat /\ ~(s < u) /\ ~(u < s)
  BY <1>1, IndicesAre
<1> QED BY <1>2

\* Where a fault is reported.
FaultAt(k) ==
    \/ k \in Pipe!BadPipes(t) \/ k \in Pipe!LastPipes(t) \/ k \in Pipe!NoTargets(t)
    \/ k \in Pipe!NoArgs(t) \/ k \in Pipe!Seconds(t)
    \/ \E m \in Pipe!Refused : k \in Pipe!RefusedFor(t, m)
SoundBefore(k) == \A j \in 1 .. k - 1 : ~FaultAt(j)

\* The faults, one by one, and where they are.
LEMMA FaultsAre ==
    /\ \A k \in Pipe!BadPipes(t) :
         [position |-> k, message |-> "expected_command_before_pipe"] \in Pipe!Faults(t)
    /\ \A k \in Pipe!LastPipes(t) :
         [position |-> k, message |-> "expected_command_after_pipe"] \in Pipe!Faults(t)
    /\ \A k \in Pipe!NoTargets(t) :
         [position |-> k, message |-> "redirection_requires_a_target"] \in Pipe!Faults(t)
    /\ \A k \in Pipe!NoArgs(t) :
         [position |-> k, message |-> "redirection_must_belong_to_a_command"] \in Pipe!Faults(t)
    /\ \A k \in Pipe!Seconds(t) :
         [position |-> k, message |-> "duplicate_redirection"] \in Pipe!Faults(t)
    /\ \A m \in Pipe!Refused : \A k \in Pipe!RefusedFor(t, m) :
         [position |-> k, message |-> m] \in Pipe!Faults(t)
    /\ \A f \in Pipe!Faults(t) : FaultAt(f.position)
<1> DEFINE F(K, m) == {[position |-> k, message |-> m] : k \in K}
           A == F(Pipe!BadPipes(t), "expected_command_before_pipe")
           B == F(Pipe!LastPipes(t), "expected_command_after_pipe")
           C == F(Pipe!NoTargets(t), "redirection_requires_a_target")
           D == F(Pipe!NoArgs(t), "redirection_must_belong_to_a_command")
           E == F(Pipe!Seconds(t), "duplicate_redirection")
           G == UNION {F(Pipe!RefusedFor(t, m), m) : m \in Pipe!Refused}
<1>1. Pipe!Faults(t) = UNION {A, B, C, D, E, G}
  BY DEF Pipe!Faults
<1>2. \A k, m, K : k \in K => [position |-> k, message |-> m] \in F(K, m)
  OBVIOUS
<1>3. \A m \in Pipe!Refused : \A k \in Pipe!RefusedFor(t, m) :
        [position |-> k, message |-> m] \in G
  BY <1>2
<1>4. \A K, m : \A f \in F(K, m) : f.position \in K
  OBVIOUS
<1>5. ASSUME NEW m \in Pipe!Refused, NEW f \in F(Pipe!RefusedFor(t, m), m)
      PROVE  FaultAt(f.position)
  BY <1>4 DEF FaultAt
<1>6. ASSUME NEW f \in Pipe!Faults(t) PROVE FaultAt(f.position)
  <2>1. CASE f \in G
    <3> HIDE DEF F
    <3> QED BY <1>5, <2>1
  <2>2. CASE f \in A \cup B \cup C \cup D \cup E
    BY <1>4, <2>2 DEF FaultAt
  <2> HIDE DEF A, B, C, D, E, G, F
  <2> QED BY <1>1, <2>1, <2>2
<1> HIDE DEF A, B, C, D, E, G, F
<1>7. \A x : x \in UNION {A, B, C, D, E, G} <=>
               x \in A \/ x \in B \/ x \in C \/ x \in D \/ x \in E \/ x \in G
  OBVIOUS
<1> QED BY <1>1, <1>2, <1>3, <1>6, <1>7 DEF A, B, C, D, E

\* Faults are at tokens.
LEMMA FaultIn == ASSUME NEW k, FaultAt(k) PROVE k \in 1 .. Len(t)
BY DEF FaultAt, Pipe!BadPipes, Pipe!LastPipes, Pipe!NoTargets, Pipe!NoArgs, Pipe!Seconds,
       Pipe!RefusedFor, Pipe!Ops, Pipe!OfType

\* A list with no fault at a token has none.
LEMMA NoFaults == ASSUME \A k : ~FaultAt(k) PROVE Pipe!Faults(t) = {}
BY FaultsAre

\* A fault with none before it is a first one.
LEMMA FirstFault ==
    ASSUME PipeTypeInv, NEW f \in Pipe!Faults(t), SoundBefore(f.position)
    PROVE  f \in Pipe!FirstFaults(t)
<1>1. Len(t) \in Nat /\ f.position \in 1 .. Len(t)
  BY IndicesAre, FaultsAre, FaultIn
<1>2. ASSUME NEW g \in Pipe!Faults(t) PROVE f.position <= g.position
  <2>1. g.position \in 1 .. Len(t) /\ FaultAt(g.position)
    BY FaultsAre, FaultIn
  <2>2. g.position \notin 1 .. f.position - 1
    BY <2>1 DEF SoundBefore
  <2> QED BY <1>1, <2>1, <2>2
<1> QED BY <1>2 DEF Pipe!FirstFaults

\* A word that is no target, and a redirection with a target, are no faults.
LEMMA LooseFine ==
    ASSUME PipeTypeInv, NEW k \in 1 .. Len(t), ~IsOp(k - 1),
           \/ t[k].type = "WORD"
           \/ t[k].type \in {"<", ">"} /\ t[k + 1].type = "WORD"
    PROVE  ~FaultAt(k)
<1>1. t[k].type \notin Ends
  BY DEF Ends
<1>2. k \notin Pipe!BadPipes(t) /\ k \notin Pipe!LastPipes(t) /\ k \notin Pipe!NoArgs(t)
  <2>1. k \notin Pipe!OfType(t, "|") /\ k \notin Pipe!OfType(t, "END")
    BY <1>1, IndicesAre DEF Ends
  <2> QED BY <2>1 DEF Pipe!BadPipes, Pipe!LastPipes, Pipe!NoArgs
<1>3. k \notin Pipe!NoTargets(t)
  BY IndicesAre DEF Pipe!NoTargets, IsOp
<1>4. k \notin Pipe!Seconds(t)
  BY DEF Pipe!Seconds, Pipe!Ops, IsOp
<1>5. \A m \in Pipe!Refused : k \notin Pipe!RefusedFor(t, m)
  BY DEF Pipe!RefusedFor, IsOp
<1> QED BY <1>2, <1>3, <1>4, <1>5 DEF FaultAt

\* Nor is an accepted target of the first redirection of its kind.
LEMMA TargetFine ==
    ASSUME PipeTypeInv, NEW s \in Starts, NEW k \in Seg(s), NEW op \in {"<", ">"},
           t[k].type = "WORD", k - 1 \in 1 .. Len(t), t[k - 1].type = op,
           Outcome[t[k].text] \notin Pipe!Refused,
           \A j \in Seg(s) : t[j].type = op => j >= k - 1
    PROVE  ~FaultAt(k)
<1>0. k \in 1 .. Len(t)
  BY SegmentIs
<1>1. k \notin Pipe!BadPipes(t) /\ k \notin Pipe!LastPipes(t) /\ k \notin Pipe!NoArgs(t)
  <2>1. k \notin Pipe!OfType(t, "|") /\ k \notin Pipe!OfType(t, "END")
    BY IndicesAre
  <2> QED BY <2>1 DEF Pipe!BadPipes, Pipe!LastPipes, Pipe!NoArgs
<1>2. k \notin Pipe!NoTargets(t)
  BY IndicesAre DEF Pipe!NoTargets, IsOp
<1>3. k \notin Pipe!Seconds(t)
  <2> SUFFICES ASSUME k \in Pipe!Seconds(t) PROVE FALSE
    OBVIOUS
  <2>1. PICK u \in Starts, o \in {"<", ">"} :
           /\ k - 1 \in Seg(u) \cap Pipe!OfType(t, o) /\ k \in Seg(u)
           /\ \E j \in Seg(u) \cap Pipe!OfType(t, o) : j < k - 1
    BY DEF Pipe!Seconds, Starts, Seg
  <2>2. u = s
    BY <2>1, OneSegment
  <2>3. o = op
    BY <2>1, IndicesAre
  <2>4. PICK j \in Seg(s) \cap Pipe!OfType(t, op) : j < k - 1
    BY <2>1, <2>2, <2>3
  <2>5. t[j].type = op /\ j \in Nat /\ k \in Nat
    BY <1>0, <2>4, IndicesAre
  <2>6. j >= k - 1
    BY <2>4, <2>5
  <2> QED BY <2>4, <2>5, <2>6
<1>4. \A m \in Pipe!Refused : k \notin Pipe!RefusedFor(t, m)
  BY DEF Pipe!RefusedFor
<1> QED BY <1>1, <1>2, <1>3, <1>4 DEF FaultAt

\* Nor the end of a command with arguments, followed by another or the last.
LEMMA EndFine ==
    ASSUME PipeTypeInv, NEW s \in Starts, NEW k \in 1 .. Len(t), t[k].type \in Ends,
           s + 1 < k, Seg(s) = s + 1 .. k - 1, Pipe!Args(t, s) # {},
           t[k].type = "|" => t[k + 1].type # "END"
    PROVE  ~FaultAt(k)
<1>0. s \in Nat /\ Len(t) \in Nat
  BY IndicesAre
<1>1. k - 1 \in Seg(s) /\ k # 1
  BY <1>0
<1>2. k \notin Pipe!BadPipes(t)
  <2>1. t[k - 1].type \notin Ends
    BY <1>1, SegmentIs
  <2> QED BY <1>1, <2>1, IndicesAre DEF Pipe!BadPipes, Ends
<1>3. k \notin Pipe!LastPipes(t)
  BY IndicesAre DEF Pipe!LastPipes
<1>4. k \notin Pipe!NoTargets(t)
  BY IndicesAre DEF Pipe!NoTargets, IsOp, Ends
<1>5. k \notin Pipe!NoArgs(t)
  <2> SUFFICES ASSUME NEW u \in Starts, u + 1 .. k - 1 = Seg(u), u + 1 < k,
                      Pipe!Args(t, u) = {}
               PROVE FALSE
    BY DEF Pipe!NoArgs, Starts, Seg
  <2>1. k - 1 \in Seg(u)
    BY IndicesAre
  <2> QED BY <1>1, <2>1, OneSegment
<1>6. k \notin Pipe!Seconds(t)
  <2>1. \A u \in Starts : k \notin Seg(u)
    BY SegmentIs
  <2> QED BY <2>1 DEF Pipe!Seconds, Starts, Seg
<1>7. \A m \in Pipe!Refused : k \notin Pipe!RefusedFor(t, m)
  BY IndicesAre DEF Pipe!RefusedFor, Ends
<1> QED BY <1>2, <1>3, <1>4, <1>5, <1>6, <1>7 DEF FaultAt

\* No faults before k, and none before the next.
LEMMA SoundMore ==
    ASSUME NEW k \in Nat, SoundBefore(k), ~FaultAt(k) PROVE SoundBefore(k + 1)
<1>1. \A j \in 1 .. (k + 1) - 1 : j \in 1 .. k - 1 \/ j = k
  OBVIOUS
<1> QED BY <1>1 DEF SoundBefore

\* The first redirection of a kind among the indices ks.
FirstOf(ks) == LET text == t[Pipe!Min(ks) + 1].text
               IN IF ks = {} THEN Pipe!NoRedirect ELSE [type |-> Outcome[text], target |-> text]

\* The indices of a command up to k.
OpsUpTo(s, k, op) == Seg(s) \cap Pipe!OfType(t, op) \cap 1 .. k - 1
ArgsUpTo(s, k) == Pipe!Args(t, s) \cap 1 .. k - 1

\* The command that starts at s as far as it goes before k, and the commands before s.
CommandIn(s, k) == [argv |-> InOrder([j \in ArgsUpTo(s, k) |-> t[j].text]),
                    input |-> FirstOf(OpsUpTo(s, k, "<")), output |-> FirstOf(OpsUpTo(s, k, ">"))]
CommandsBefore(s) == InOrder([u \in Starts \cap (0 .. s - 1) |-> Pipe!CommandOf(t, u)])

\* A command is whole where it ends.
LEMMA WholeCommand ==
    ASSUME PipeTypeInv, NEW s \in Starts, NEW k \in 1 .. Len(t), Seg(s) = s + 1 .. k - 1
    PROVE  /\ CommandIn(s, k) = Pipe!CommandOf(t, s)
           /\ Pipe!Args(t, s) = ArgsUpTo(s, k)
<1>0. s \in Nat /\ k \in Nat
  BY IndicesAre
<1>1. Seg(s) \subseteq 1 .. k - 1
  BY <1>0
<1>2. Pipe!Args(t, s) \subseteq Seg(s)
  BY DEF Pipe!Args, Seg
<1>3. ArgsUpTo(s, k) = Pipe!Args(t, s)
  BY <1>1, <1>2 DEF ArgsUpTo
<1>4. \A op : OpsUpTo(s, k, op) = Seg(s) \cap Pipe!OfType(t, op)
  BY <1>1 DEF OpsUpTo
<1>5. \A op : FirstOf(OpsUpTo(s, k, op)) = Pipe!RedirectOf(t, s, op)
  BY <1>4 DEF FirstOf, Pipe!RedirectOf, Seg
<1> QED BY <1>3, <1>5, OrderIs DEF CommandIn, Pipe!CommandOf

\* Nothing in order, and only then.
LEMMA InOrderEmpty ==
    ASSUME NEW m \in Nat, NEW f, DOMAIN f \in SUBSET (0 .. m - 1), InOrder(f) = <<>>
    PROVE  DOMAIN f = {}
<1>1. IsFiniteSet(DOMAIN f) /\ Cardinality(DOMAIN f) \in Nat
  BY Below
<1>2. DOMAIN InOrder(f) = 1 .. Cardinality(DOMAIN f)
  BY DEF InOrder
<1>3. DOMAIN InOrder(f) = {}
  <2>1. DOMAIN <<>> = {}
    OBVIOUS
  <2> QED BY <2>1
<1>4. Cardinality(DOMAIN f) = 0
  BY <1>1, <1>2, <1>3
<1> QED BY <1>1, <1>4, FS_EmptySet

\* A command has arguments exactly when argv is not empty.
LEMMA ArgvEmpty ==
    ASSUME PipeTypeInv, NEW s \in Starts, NEW k \in 1 .. Len(t)
    PROVE  CommandIn(s, k).argv = <<>> <=> ArgsUpTo(s, k) = {}
<1> DEFINE f == [j \in ArgsUpTo(s, k) |-> t[j].text]
<1>1. DOMAIN f = ArgsUpTo(s, k) /\ CommandIn(s, k).argv = InOrder(f)
  BY DEF CommandIn
<1>2. ArgsUpTo(s, k) \in SUBSET (0 .. k - 1) /\ k \in Nat
  BY DEF ArgsUpTo
<1> HIDE DEF f
<1> QED BY <1>1, <1>2, InOrderEmpty, InOrderNone

\* One command more.
LEMMA CommandsMore ==
    ASSUME PipeTypeInv, NEW s \in Starts, NEW k \in 1 .. Len(t), s < k, Seg(s) = s + 1 .. k - 1
    PROVE  CommandsBefore(k) = Append(CommandsBefore(s), Pipe!CommandOf(t, s))
<1> DEFINE S == Starts \cap (0 .. s - 1)
           T == Starts \cap (0 .. k - 1)
           f == [u \in S |-> Pipe!CommandOf(t, u)]
           g == [u \in T |-> Pipe!CommandOf(t, u)]
<1>0. s \in Nat /\ k \in Nat
  BY IndicesAre
<1>1. \A j \in s + 1 .. k - 1 : j \notin Starts
  <2> SUFFICES ASSUME NEW j \in Seg(s), j \in Starts PROVE FALSE
    OBVIOUS
  <2>1. t[j].type \notin Ends /\ j \in Nat /\ s < j
    BY <1>0, SegmentIs
  <2>2. j # 0
    BY <1>0, <2>1
  <2>3. t[j].type = "|"
    BY <2>2, IndicesAre
  <2> QED BY <2>1, <2>3 DEF Ends
<1>2. 0 .. k - 1 = (0 .. s - 1) \cup {s} \cup (s + 1 .. k - 1)
  BY <1>0
<1>3. T = S \cup {s} /\ S \in SUBSET (0 .. s - 1)
  BY <1>1, <1>2
<1> HIDE DEF S, T
<1>4. DOMAIN f = S /\ DOMAIN g = T /\ (\A u \in S : g[u] = f[u]) /\ g[s] = Pipe!CommandOf(t, s)
  BY <1>3
<1> HIDE DEF f, g
<1>5. InOrder(g) = Append(InOrder(f), g[s])
  BY <1>0, <1>3, <1>4, InOrderMore
<1> QED BY <1>4, <1>5 DEF CommandsBefore, f, g, S, T

\* The commands before the end are the pipeline.
LEMMA AllCommands ==
    ASSUME PipeTypeInv PROVE CommandsBefore(Len(t)) = Pipe!PipelineOf(t)
<1>1. Starts \cap (0 .. Len(t) - 1) = Starts
  <2>1. \A s \in Starts : s \in 0 .. Len(t) - 1
    BY IndicesAre
  <2> QED BY <2>1
<1> QED BY <1>1, OrderIs DEF CommandsBefore, Pipe!PipelineOf, Starts

\* Between two commands, at k, with the commands ps; or after the last one, at the end.
Between(k, ps) ==
    IF t[k].type = "END"
    THEN ps = Pipe!PipelineOf(t) /\ SoundBefore(k + 1)
    ELSE k - 1 \in Starts /\ ps = CommandsBefore(k - 1) /\ SoundBefore(k)

\* In the command that starts at s, at k, with cmd in hand and the commands ps.
Within(s, k, cmd, ps) ==
    /\ s \in Starts /\ s < k /\ s + 1 \in Seg(s) /\ s + 1 .. k - 1 \subseteq Seg(s)
    /\ ~IsOp(k - 1)
    /\ cmd = CommandIn(s, k) /\ ps = CommandsBefore(s) /\ SoundBefore(k)

\* What an error says.
Explained(f) ==
    f \in Pipe!FirstFaults(t) \/ f.message \in {"unterminated_quote", "out_of_memory"}

\* Before the next token nothing is wrong, and what is there is what the tokens
\* before it stand for.
ParsedInv ==
    /\ place = "tokenize" => next = 1 /\ p = <<>> /\ fault = Pipe!NoError
    /\ place = "command" => Between(next, p) /\ fault = Pipe!NoError
    /\ place = "tokens" => fault = Pipe!NoError /\ \E s \in Starts : Within(s, next, c, p)
    /\ place = "succeeded" =>
         Pipe!Faults(t) = {} /\ p = Pipe!PipelineOf(t) /\ fault = Pipe!NoError
    /\ place \in {"fail", "failed"} => Explained(fault)

\* What depends on the tokens only.
LEMMA SameTokens ==
    ASSUME t' = t
    PROVE  /\ Starts' = Starts /\ Pipe!Faults(t)' = Pipe!Faults(t)
           /\ Pipe!FirstFaults(t)' = Pipe!FirstFaults(t)
           /\ Pipe!PipelineOf(t)' = Pipe!PipelineOf(t)
           /\ \A k, ps : Between(k, ps)' <=> Between(k, ps)
           /\ \A s, k, cmd, ps : Within(s, k, cmd, ps)' <=> Within(s, k, cmd, ps)
           /\ \A f : Explained(f)' <=> Explained(f)
BY DEF Starts, Between, Within, Explained, SoundBefore, FaultAt, CommandsBefore, CommandIn,
       FirstOf, OpsUpTo, ArgsUpTo, Seg, IsOp

\* How a step leads to each place.
LEMMA LeadsTo ==
    ASSUME t' = t
    PROVE  /\ place' = "command" /\ Between(next', p') /\ fault' = Pipe!NoError => ParsedInv'
           /\ \A s \in Starts :
                place' = "tokens" /\ fault' = Pipe!NoError /\ Within(s, next', c', p')
                  => ParsedInv'
           /\ place' = "fail" /\ Explained(fault') => ParsedInv'
<1>1. ASSUME place' = "command", Between(next', p'), fault' = Pipe!NoError PROVE ParsedInv'
  BY <1>1, SameTokens DEF ParsedInv
<1>2. ASSUME NEW s \in Starts, place' = "tokens", fault' = Pipe!NoError,
             Within(s, next', c', p')
      PROVE  ParsedInv'
  BY <1>2, SameTokens DEF ParsedInv
<1>3. ASSUME place' = "fail", Explained(fault') PROVE ParsedInv'
  BY <1>3, SameTokens DEF ParsedInv
<1> QED BY <1>1, <1>2, <1>3

\* Before the first token no command is finished, and none begun.
LEMMA InitParsed == Init => ParsedInv
BY DEF Init, Pipe!Start, ParsedInv

\* The first token of the line.
LEMMA TokenizeParsed == ASSUME PipeInv, ParsedInv, Pipe!Tokenize PROVE ParsedInv'
<1>1. /\ place = "tokenize" /\ next' = next /\ p' = p /\ t' = t
      /\ \/ place' = "command" /\ fault' = fault
         \/ place' = "fail" /\ fault'.message \in {"unterminated_quote", "out_of_memory"}
  BY DEF Pipe!Tokenize, Pipe!Fail
<1>2. next = 1 /\ p = <<>> /\ fault = Pipe!NoError /\ PipeTypeInv
  BY <1>1 DEF ParsedInv, PipeInv
<1>3. Between(1, <<>>)
  <2>1. Len(t) \in Nat \ {0}
    BY <1>2, IndicesAre
  <2>2. CASE t[1].type = "END"
    <3>1. Len(t) = 1 /\ Starts = {}
      <4>1. 1 \in 1 .. Len(t)
        BY <2>1
      <4>2. Len(t) = 1
        BY <1>2, <2>2, <4>1, IndicesAre
      <4>3. \A s : s \notin Starts
        BY <1>2, <4>2, IndicesAre
      <4> QED BY <4>2, <4>3
    <3>2. Pipe!PipelineOf(t) = <<>>
      <4> DEFINE f == [s \in Starts |-> Pipe!CommandOf(t, s)]
      <4>1. DOMAIN f = {}
        BY <3>1
      <4> HIDE DEF f
      <4>2. InOrder(f) = <<>>
        BY <4>1, InOrderNone
      <4> QED BY <4>2, OrderIs DEF f, Pipe!PipelineOf, Starts
    <3>3. ~FaultAt(1)
      <4>1. 1 \notin Pipe!OfType(t, "|") /\ 1 \notin Pipe!OfType(t, "WORD") /\ ~IsOp(1)
        BY <1>2, <2>2, IndicesAre
      <4> QED BY <3>1, <4>1 DEF FaultAt, Pipe!BadPipes, Pipe!LastPipes, Pipe!NoTargets,
            Pipe!NoArgs, Pipe!Seconds, Pipe!RefusedFor, IsOp, Starts
    <3>4. SoundBefore(1 + 1)
      BY <3>3 DEF SoundBefore
    <3> QED BY <2>2, <3>2, <3>4 DEF Between
  <2>3. CASE t[1].type # "END"
    <3>1. Len(t) # 1
      BY <1>2, <2>1, <2>3, IndicesAre
    <3>2. 0 \in Starts
      BY <1>2, <3>1, IndicesAre
    <3>3. CommandsBefore(0) = <<>>
      <4> DEFINE f == [u \in Starts \cap (0 .. 0 - 1) |-> Pipe!CommandOf(t, u)]
      <4>1. DOMAIN f = {}
        OBVIOUS
      <4> HIDE DEF f
      <4> QED BY <4>1, InOrderNone DEF f, CommandsBefore
    <3>4. SoundBefore(1)
      BY DEF SoundBefore
    <3>5. 1 - 1 = 0
      OBVIOUS
    <3> QED BY <2>3, <3>2, <3>3, <3>4, <3>5 DEF Between
  <2> QED BY <2>2, <2>3
<1> QED BY <1>1, <1>2, <1>3, LeadsTo DEF Explained

\* A command begins with nothing in it.
LEMMA BeginCommandParsed == ASSUME PipeInv, ParsedInv, Pipe!BeginCommand PROVE ParsedInv'
<1> DEFINE s == next - 1
<1>1. /\ place = "command" /\ place' = "tokens" /\ t[next].type \in {"WORD", "<", ">"}
      /\ c' = Pipe!NoCommand /\ UNCHANGED <<t, next, p, fault>>
  BY DEF Pipe!BeginCommand, Pipe!Type
<1>2. PipeTypeInv /\ next \in 1 .. Len(t) /\ fault = Pipe!NoError
      /\ s \in Starts /\ p = CommandsBefore(s) /\ SoundBefore(next)
  BY <1>1 DEF PipeInv, PipeTypeInv, ParsedInv, Between
<1>3. s \in Nat /\ s < next /\ s + 1 = next /\ s + 1 .. next - 1 = {} /\ next \in Nat
  BY <1>2, IndicesAre
<1>4. s + 1 \in Seg(s)
  <2>1. s + 1 .. next \subseteq Seg(s)
    BY <1>1, <1>2, <1>3, SegmentIs DEF Ends
  <2> QED BY <1>3, <2>1
<1>5. ~IsOp(next - 1)
  <2>1. s = 0 \/ s \in Pipe!OfType(t, "|")
    BY <1>2, IndicesAre
  <2> QED BY <1>2, <2>1, IndicesAre
<1>6. \A k \in Seg(s) : k \notin 1 .. next - 1
  BY <1>2, <1>3, SegmentIs
<1>7. ArgsUpTo(s, next) = {} /\ \A op : OpsUpTo(s, next, op) = {}
  BY <1>6 DEF ArgsUpTo, OpsUpTo, Pipe!Args, Seg
<1>8. CommandIn(s, next) = Pipe!NoCommand
  <2>1. \A op : FirstOf(OpsUpTo(s, next, op)) = Pipe!NoRedirect
    BY <1>7 DEF FirstOf
  <2>2. InOrder([j \in ArgsUpTo(s, next) |-> t[j].text]) = <<>>
    <3> DEFINE f == [j \in ArgsUpTo(s, next) |-> t[j].text]
    <3>1. DOMAIN f = {}
      BY <1>7
    <3> HIDE DEF f
    <3> QED BY <3>1, InOrderNone DEF f
  <2> QED BY <2>1, <2>2 DEF CommandIn, Pipe!NoCommand
<1>9. Within(s, next, c', p)
  BY <1>1, <1>2, <1>3, <1>4, <1>5, <1>8 DEF Within
<1> HIDE DEF s
<1> QED BY <1>1, <1>2, <1>9, LeadsTo

\* A pipe at the place of a command.
LEMMA NothingBeforePipeParsed ==
    ASSUME PipeInv, ParsedInv, Pipe!NothingBeforePipe PROVE ParsedInv'
<1>1. /\ place = "command" /\ place' = "fail" /\ t[next].type = "|" /\ t' = t
      /\ fault' = [position |-> next, message |-> "expected_command_before_pipe"]
  BY DEF Pipe!NothingBeforePipe, Pipe!Type, Pipe!Fail
<1>2. PipeTypeInv /\ next \in 1 .. Len(t) /\ next - 1 \in Starts /\ SoundBefore(next)
  BY <1>1 DEF PipeInv, PipeTypeInv, ParsedInv, Between
<1>3. next - 1 = 0 \/ next - 1 \in Pipe!OfType(t, "|")
  BY <1>2, IndicesAre
<1>4. next = 1 \/ next - 1 \in Pipe!OfType(t, "|")
  BY <1>2, <1>3
<1>5. next \in Pipe!BadPipes(t)
  BY <1>1, <1>2, <1>4, IndicesAre DEF Pipe!BadPipes
<1>6. fault' \in Pipe!Faults(t) /\ fault'.position = next
  BY <1>1, <1>5, FaultsAre
<1> QED BY <1>1, <1>2, <1>6, FirstFault, LeadsTo DEF Explained

\* The place in a command, as the invariant has it.
LEMMA InCommand ==
    ASSUME PipeInv, ParsedInv, place = "tokens"
    PROVE  /\ PipeTypeInv /\ next \in 1 .. Len(t) /\ Len(t) \in Nat /\ fault = Pipe!NoError
           /\ c \in Commands
           /\ \E s \in Starts : s \in Nat /\ Within(s, next, c, p)
BY IndicesAre DEF PipeInv, PipeTypeInv, ParsedInv

\* A word more in a command.
LEMMA ArgMore ==
    ASSUME PipeTypeInv, NEW s \in Starts, NEW k \in Seg(s), ~IsOp(k - 1), t[k].type = "WORD"
    PROVE  /\ CommandIn(s, k + 1).argv = Append(CommandIn(s, k).argv, t[k].text)
           /\ CommandIn(s, k + 1).input = CommandIn(s, k).input
           /\ CommandIn(s, k + 1).output = CommandIn(s, k).output
<1>1. k \in 1 .. Len(t) /\ Len(t) \in Nat /\ k \in Nat /\ k \notin 1 .. k - 1
  BY SegmentIs, IndicesAre
<1>2. 1 .. (k + 1) - 1 = 1 .. k - 1 \cup {k}
  BY <1>1
<1>3. k \in Pipe!Args(t, s)
  BY DEF Pipe!Args, Seg, IsOp
<1>4. ArgsUpTo(s, k + 1) = ArgsUpTo(s, k) \cup {k} /\ ArgsUpTo(s, k) \in SUBSET (0 .. k - 1)
  BY <1>1, <1>2, <1>3 DEF ArgsUpTo
<1>5. \A op \in {"<", ">"} : OpsUpTo(s, k + 1, op) = OpsUpTo(s, k, op)
  <2>1. \A op \in {"<", ">"} : k \notin Pipe!OfType(t, op)
    BY IndicesAre
  <2> QED BY <1>2, <2>1 DEF OpsUpTo
<1> DEFINE f == [j \in ArgsUpTo(s, k) |-> t[j].text]
           g == [j \in ArgsUpTo(s, k + 1) |-> t[j].text]
<1>6. /\ DOMAIN f = ArgsUpTo(s, k) /\ DOMAIN g = ArgsUpTo(s, k + 1)
      /\ (\A j \in ArgsUpTo(s, k) : g[j] = f[j]) /\ g[k] = t[k].text
  BY <1>4
<1>7. CommandIn(s, k).argv = InOrder(f) /\ CommandIn(s, k + 1).argv = InOrder(g)
  BY DEF CommandIn
<1> HIDE DEF f, g
<1>8. InOrder(g) = Append(InOrder(f), g[k])
  BY <1>1, <1>4, <1>6, InOrderMore
<1>9. /\ CommandIn(s, k + 1).input = CommandIn(s, k).input
      /\ CommandIn(s, k + 1).output = CommandIn(s, k).output
  BY <1>5 DEF CommandIn
<1> QED BY <1>6, <1>7, <1>8, <1>9

\* What a command is made of.
LEMMA CommandParts ==
    ASSUME NEW s, NEW k
    PROVE  CommandIn(s, k) = [argv |-> CommandIn(s, k).argv, input |-> CommandIn(s, k).input,
                              output |-> CommandIn(s, k).output]
BY DEF CommandIn

\* A word is the next argument of its command.
LEMMA AddArgParsed == ASSUME PipeInv, ParsedInv, Pipe!AddArg PROVE ParsedInv'
<1>1. /\ place = "tokens" /\ t[next].type = "WORD" /\ t' = t /\ p' = p
      /\ \/ /\ c' = [c EXCEPT !.argv = Append(@, t[next].text)] /\ next' = next + 1
            /\ UNCHANGED <<fault, place>>
         \/ place' = "fail" /\ fault'.message = "out_of_memory"
  BY DEF Pipe!AddArg, Pipe!Type, Pipe!Fail
<1>2. CASE place' = "fail" /\ fault'.message = "out_of_memory"
  BY <1>1, <1>2, LeadsTo DEF Explained
<1>3. CASE /\ c' = [c EXCEPT !.argv = Append(@, t[next].text)] /\ next' = next + 1
           /\ UNCHANGED <<fault, place>>
  <2>1. PICK s \in Starts : s \in Nat /\ Within(s, next, c, p)
    BY <1>1, InCommand
  <2>2. /\ PipeTypeInv /\ next \in 1 .. Len(t) /\ Len(t) \in Nat /\ fault = Pipe!NoError
        /\ s < next /\ s + 1 \in Seg(s) /\ s + 1 .. next - 1 \subseteq Seg(s)
        /\ ~IsOp(next - 1) /\ c = CommandIn(s, next) /\ p = CommandsBefore(s)
        /\ SoundBefore(next)
    BY <1>1, <2>1, InCommand DEF Within
  <2>3. s + 1 .. next \subseteq Seg(s)
    BY <1>1, <2>2, SegmentIs DEF Ends
  <2>4. next \in Seg(s) /\ (next + 1) - 1 = next /\ s < next + 1 /\ next \in Nat
    BY <2>1, <2>2, <2>3
  <2>5. ~IsOp(next)
    BY <1>1, <2>2, IndicesAre
  <2>6. SoundBefore(next + 1)
    BY <1>1, <2>2, <2>4, LooseFine, SoundMore
  <2>7. c' = CommandIn(s, next + 1)
    <3>1. /\ CommandIn(s, next + 1).argv = Append(c.argv, t[next].text)
          /\ CommandIn(s, next + 1).input = c.input /\ CommandIn(s, next + 1).output = c.output
      BY <1>1, <2>2, <2>4, ArgMore
    <3>2. c = [argv |-> c.argv, input |-> c.input, output |-> c.output]
      BY <2>2, CommandParts
    <3>3. c' = [argv |-> Append(c.argv, t[next].text), input |-> c.input, output |-> c.output]
      BY <1>3, <3>2
    <3> QED BY <3>1, <3>3, CommandParts
  <2>8. Within(s, next', c', p')
    BY <1>1, <1>3, <2>2, <2>3, <2>4, <2>5, <2>6, <2>7 DEF Within
  <2> QED BY <1>1, <1>3, <2>2, <2>8, LeadsTo
<1> QED BY <1>1, <1>2, <1>3

\* An operator with no word behind it is the first fault.
LEMMA NoTargetParsed == ASSUME PipeInv, ParsedInv, Pipe!NoTarget PROVE ParsedInv'
<1>1. /\ place = "tokens" /\ place' = "fail" /\ t[next].type \in {"<", ">"} /\ t' = t
      /\ t[next + 1].type # "WORD"
      /\ fault' = [position |-> next, message |-> "redirection_requires_a_target"]
  BY DEF Pipe!NoTarget, Pipe!Type, Pipe!Fail
<1>2. PipeTypeInv /\ next \in 1 .. Len(t) /\ SoundBefore(next)
  BY <1>1, InCommand DEF Within
<1>3. next \in Pipe!NoTargets(t)
  BY <1>1, <1>2, IndicesAre DEF Pipe!NoTargets, IsOp
<1>4. fault' \in Pipe!Faults(t) /\ fault'.position = next
  BY <1>1, <1>3, FaultsAre
<1> QED BY <1>1, <1>2, <1>4, FirstFault, LeadsTo DEF Explained

\* The end of a command: it was nothing but redirections, or it is complete.
LEMMA EndCommandParsed == ASSUME PipeInv, ParsedInv, Pipe!EndCommand PROVE ParsedInv'
<1>1. /\ place = "tokens" /\ t[next].type \in Ends /\ t' = t
      /\ \/ /\ c.argv = <<>> /\ place' = "fail"
            /\ fault' = [position |-> next, message |-> "redirection_must_belong_to_a_command"]
         \/ place' = "fail" /\ fault'.message = "out_of_memory"
         \/ /\ c.argv # <<>> /\ p' = Append(p, c)
            /\ \/ /\ t[next].type = "END" /\ place' = "command" /\ UNCHANGED <<next, fault>>
               \/ /\ t[next].type # "END" /\ next' = next + 1
                  /\ \/ /\ t[next + 1].type = "END" /\ place' = "fail"
                        /\ fault' = [position |-> next,
                                     message |-> "expected_command_after_pipe"]
                     \/ /\ t[next + 1].type # "END" /\ place' = "command" /\ fault' = fault
  BY DEF Pipe!EndCommand, Pipe!Type, Pipe!Fail, Ends
<1>2. PICK s \in Starts : s \in Nat /\ Within(s, next, c, p)
  BY <1>1, InCommand
<1>3. /\ PipeTypeInv /\ next \in 1 .. Len(t) /\ Len(t) \in Nat /\ fault = Pipe!NoError
      /\ s < next /\ s + 1 \in Seg(s) /\ s + 1 .. next - 1 \subseteq Seg(s)
      /\ c = CommandIn(s, next) /\ p = CommandsBefore(s) /\ SoundBefore(next)
  BY <1>1, <1>2, InCommand DEF Within
<1>4. Seg(s) = s + 1 .. next - 1
  BY <1>1, <1>3, SegmentIs
<1>5. s + 1 < next /\ next \in Nat
  <2>1. s + 1 \in s + 1 .. next - 1
    BY <1>3, <1>4
  <2> QED BY <1>2, <1>3, <2>1
<1>6. c = Pipe!CommandOf(t, s) /\ (c.argv = <<>> <=> Pipe!Args(t, s) = {})
  BY <1>3, <1>4, WholeCommand, ArgvEmpty
<1>7. CASE place' = "fail" /\ fault'.message = "out_of_memory"
  BY <1>1, <1>7, LeadsTo DEF Explained
<1>8. CASE /\ c.argv = <<>> /\ place' = "fail"
           /\ fault' = [position |-> next, message |-> "redirection_must_belong_to_a_command"]
  <2>1. next \in Pipe!OfType(t, "|") \cup Pipe!OfType(t, "END")
    BY <1>1, <1>3, IndicesAre DEF Ends
  <2>2. next \in Pipe!NoArgs(t)
    BY <1>4, <1>5, <1>6, <1>8, <2>1 DEF Pipe!NoArgs, Starts, Seg
  <2>3. fault' \in Pipe!Faults(t) /\ fault'.position = next
    BY <1>8, <2>2, FaultsAre
  <2> QED BY <1>1, <1>3, <1>8, <2>3, FirstFault, LeadsTo DEF Explained
<1>9. CASE /\ t[next].type # "END" /\ t[next + 1].type = "END" /\ place' = "fail"
           /\ fault' = [position |-> next, message |-> "expected_command_after_pipe"]
  <2>1. next \in Pipe!LastPipes(t)
    BY <1>1, <1>3, <1>9, IndicesAre DEF Pipe!LastPipes, Ends
  <2>2. fault' \in Pipe!Faults(t) /\ fault'.position = next
    BY <1>9, <2>1, FaultsAre
  <2> QED BY <1>1, <1>3, <1>9, <2>2, FirstFault, LeadsTo DEF Explained
<1>10. CASE /\ c.argv # <<>> /\ p' = Append(p, c) /\ place' = "command" /\ fault' = fault
            /\ \/ t[next].type = "END" /\ next' = next
               \/ /\ t[next].type # "END" /\ next' = next + 1 /\ t[next + 1].type # "END"
  <2>1. p' = CommandsBefore(next)
    BY <1>3, <1>4, <1>6, <1>10, CommandsMore
  <2>2. SoundBefore(next + 1)
    <3>1. ~FaultAt(next)
      BY <1>1, <1>3, <1>4, <1>5, <1>6, <1>10, EndFine
    <3> QED BY <1>3, <1>5, <3>1, SoundMore
  <2>3. CASE t[next].type = "END" /\ next' = next
    <3>1. next = Len(t)
      BY <1>3, <2>3, IndicesAre
    <3>2. p' = Pipe!PipelineOf(t)
      BY <1>3, <2>1, <3>1, AllCommands
    <3>3. Between(next', p')
      BY <2>2, <2>3, <3>2 DEF Between
    <3> QED BY <1>1, <1>3, <1>10, <3>3, LeadsTo
  <2>4. CASE t[next].type # "END" /\ next' = next + 1 /\ t[next + 1].type # "END"
    <3>1. (next + 1) - 1 = next
      BY <1>5
    <3>2. t[next].type = "|"
      BY <1>1, <2>4 DEF Ends
    <3>3. next \in Starts
      <4>1. Len(t) # 1
        BY <1>2, <1>3, IndicesAre
      <4> QED BY <1>3, <3>2, <4>1, IndicesAre
    <3>4. Between(next + 1, p')
      BY <2>1, <2>2, <2>4, <3>1, <3>3 DEF Between
    <3> QED BY <1>1, <1>3, <1>10, <2>4, <3>4, LeadsTo
  <2> QED BY <1>10, <2>3, <2>4
<1> QED BY <1>1, <1>7, <1>8, <1>9, <1>10

\* A first redirection of a kind, with its target, more in a command.
LEMMA RedirectMore ==
    ASSUME PipeTypeInv, NEW s \in Starts, NEW k \in Seg(s), k + 1 \in Seg(s),
           NEW op \in {"<", ">"}, t[k].type = op, t[k + 1].type = "WORD",
           OpsUpTo(s, k, op) = {}
    PROVE  /\ CommandIn(s, k + 2).argv = CommandIn(s, k).argv
           /\ FirstOf(OpsUpTo(s, k + 2, op))
                = [type |-> Outcome[t[k + 1].text], target |-> t[k + 1].text]
           /\ \A o \in {"<", ">"} \ {op} : OpsUpTo(s, k + 2, o) = OpsUpTo(s, k, o)
<1>1. k \in 1 .. Len(t) /\ Len(t) \in Nat /\ k \in Nat /\ k + 1 \in 1 .. Len(t)
  BY SegmentIs, IndicesAre
<1>2. 1 .. (k + 2) - 1 = 1 .. k - 1 \cup {k, k + 1}
  BY <1>1
<1>3. \A o \in {"<", ">"} :
        k + 1 \notin Pipe!OfType(t, o) /\ (k \in Pipe!OfType(t, o) <=> o = op)
  BY <1>1, IndicesAre
<1>4. IsOp(k) /\ (k + 1) - 1 = k
  BY <1>1, IndicesAre
<1>5. k \notin Pipe!Args(t, s) /\ k + 1 \notin Pipe!Args(t, s)
  BY <1>4 DEF Pipe!Args, IsOp
<1>6. ArgsUpTo(s, k + 2) = ArgsUpTo(s, k)
  BY <1>2, <1>5 DEF ArgsUpTo
<1>7. \A o \in {"<", ">"} \ {op} : OpsUpTo(s, k + 2, o) = OpsUpTo(s, k, o)
  BY <1>2, <1>3 DEF OpsUpTo
<1>8. OpsUpTo(s, k + 2, op) = {k}
  BY <1>2, <1>3 DEF OpsUpTo
<1>9. Pipe!Min({k}) = k
  <2>1. \A x \in {k} : (\A y \in {k} : x =< y) <=> x = k
    BY <1>1
  <2> QED BY <2>1 DEF Pipe!Min
<1>10. FirstOf(OpsUpTo(s, k + 2, op))
       = [type |-> Outcome[t[k + 1].text], target |-> t[k + 1].text]
  BY <1>8, <1>9 DEF FirstOf
<1> QED BY <1>6, <1>7, <1>10 DEF CommandIn

\* A redirection that a command has is one of its redirections so far.
LEMMA DuplicateIs ==
    ASSUME NEW ks, FirstOf(ks) \in Redirects
    PROVE  Pipe!Duplicate(FirstOf(ks)) <=> ks # {}
<1>1. CASE ks = {}
  BY <1>1 DEF FirstOf, Pipe!NoRedirect, Pipe!Duplicate
<1>2. CASE ks # {}
  <2> DEFINE text == t[Pipe!Min(ks) + 1].text
             r0 == [type |-> Outcome[text], target |-> text]
  <2>1. FirstOf(ks) = r0
    BY <1>2 DEF FirstOf
  <2>2. r0 # Pipe!NoRedirect
    <3>1. "target" \in DOMAIN r0
      OBVIOUS
    <3>2. "target" \notin DOMAIN Pipe!NoRedirect
      BY DEF Pipe!NoRedirect
    <3> QED BY <3>1, <3>2
  <2>3. r0 \in [type : Pipe!Accepted, target : Texts]
    BY <2>1, <2>2 DEF Redirects
  <2>4. r0.type \in Pipe!Accepted
    BY <2>3
  <2> QED BY <1>2, <2>1, <2>4 DEF Pipe!Duplicate, Pipe!Accepted
<1> QED BY <1>1, <1>2

\* The parts of a command for a redirection.
SideOf(op) == IF op = "<" THEN "input" ELSE "output"

\* Nothing is wrong before the target of a redirection.
LEMMA BeforeTarget ==
    ASSUME PipeTypeInv, next \in 1 .. Len(t), t[next].type \in {"<", ">"},
           t[next + 1].type = "WORD", ~IsOp(next - 1), SoundBefore(next)
    PROVE  SoundBefore(next + 1)
BY IndicesAre, LooseFine, SoundMore

\* The first redirection of a side is the one of its command; another is a fault.
LEMMA RedirectionParsed == ASSUME PipeInv, ParsedInv, Pipe!Redirection PROVE ParsedInv'
<1> DEFINE op == t[next].type
           side == SideOf(op)
           text == t[next + 1].text
           redirect == [type |-> Outcome[text], target |-> text]
<1>1. /\ place = "tokens" /\ op \in {"<", ">"} /\ t[next + 1].type = "WORD" /\ t' = t /\ p' = p
      /\ \/ /\ ~Pipe!Duplicate(c[side]) /\ Outcome[text] \in Pipe!Accepted
            /\ c' = [c EXCEPT ![side] = redirect] /\ next' = next + 2
            /\ UNCHANGED <<fault, place>>
         \/ /\ Pipe!Duplicate(c[side]) /\ place' = "fail"
            /\ fault' = [position |-> next + 1, message |-> "duplicate_redirection"]
         \/ /\ Outcome[text] \in Pipe!Refused /\ place' = "fail"
            /\ fault' = [position |-> next + 1, message |-> Outcome[text]]
         \/ place' = "fail" /\ fault'.message = "out_of_memory"
  BY DEF Pipe!Redirection, Pipe!Type, Pipe!Fail, SideOf
<1>2. PICK s \in Starts : s \in Nat /\ Within(s, next, c, p)
  BY <1>1, InCommand
<1>3. /\ PipeTypeInv /\ next \in 1 .. Len(t) /\ Len(t) \in Nat /\ fault = Pipe!NoError
      /\ c \in Commands
      /\ s < next /\ s + 1 \in Seg(s) /\ s + 1 .. next - 1 \subseteq Seg(s)
      /\ ~IsOp(next - 1) /\ c = CommandIn(s, next) /\ p = CommandsBefore(s)
      /\ SoundBefore(next)
  BY <1>1, <1>2, InCommand DEF Within
<1>4. s + 1 .. next \subseteq Seg(s) /\ next + 1 \in 1 .. Len(t)
  <2>1. next # Len(t)
    BY <1>1, <1>3, IndicesAre
  <2> QED BY <1>1, <1>3, <2>1, SegmentIs DEF Ends
<1>5. (next + 1) - 1 = next /\ s < next + 1 /\ next \in Nat /\ (next + 2) - 1 = next + 1
      /\ (next + 1) + 1 = next + 2 /\ s < next + 2
  BY <1>2, <1>3
<1>6. s + 1 .. next + 1 \subseteq Seg(s)
  <2>1. s + 1 .. (next + 1) - 1 \subseteq Seg(s)
    BY <1>4, <1>5
  <2> QED BY <1>1, <1>3, <1>4, <1>5, <2>1, SegmentIs DEF Ends
<1>7. next \in Seg(s) /\ next + 1 \in Seg(s)
  <2>1. next \in s + 1 .. next + 1 /\ next + 1 \in s + 1 .. next + 1
    BY <1>2, <1>3, <1>5
  <2> QED BY <1>6, <2>1
<1>8. c[side] = FirstOf(OpsUpTo(s, next, op)) /\ c[side] \in Redirects
  <2>1. CommandIn(s, next).input = FirstOf(OpsUpTo(s, next, "<"))
        /\ CommandIn(s, next).output = FirstOf(OpsUpTo(s, next, ">"))
    BY DEF CommandIn
  <2>2. c.input \in Redirects /\ c.output \in Redirects
    BY <1>3 DEF Commands
  <2>3. CASE op = "<"
    BY <1>3, <2>1, <2>2, <2>3 DEF SideOf
  <2>4. CASE op = ">"
    BY <1>3, <2>1, <2>2, <2>4 DEF SideOf
  <2> QED BY <1>1, <2>3, <2>4
<1>9. Pipe!Duplicate(c[side]) <=> OpsUpTo(s, next, op) # {}
  BY <1>8, DuplicateIs
<1>10. IsOp(next) /\ next \in Pipe!OfType(t, op)
  BY <1>1, <1>3, IndicesAre
<1>11. SoundBefore(next + 1)
  BY <1>1, <1>3, BeforeTarget
<1> HIDE DEF op, side, text, redirect
<1>12. CASE place' = "fail" /\ fault'.message = "out_of_memory"
  BY <1>1, <1>12, LeadsTo DEF Explained
<1>13. CASE /\ Pipe!Duplicate(c[side]) /\ place' = "fail"
            /\ fault' = [position |-> next + 1, message |-> "duplicate_redirection"]
  <2>1. PICK j \in OpsUpTo(s, next, op) : TRUE
    BY <1>9, <1>13
  <2>2. j \in Seg(s) \cap Pipe!OfType(t, op) /\ j < next
    BY <1>3, <2>1 DEF OpsUpTo
  <2>3. next \in Seg(s) \cap Pipe!OfType(t, op)
    BY <1>7, <1>10
  <2>4. next + 1 \in Pipe!Seconds(t)
    BY <1>1, <1>4, <1>5, <1>7, <2>2, <2>3 DEF Pipe!Seconds, Starts, Seg
  <2>5. fault' \in Pipe!Faults(t) /\ fault'.position = next + 1
    BY <1>13, <2>4, FaultsAre
  <2>6. Explained(fault')
    BY <1>3, <1>11, <2>5, FirstFault DEF Explained
  <2> QED BY <1>1, <1>13, <2>6, LeadsTo
<1>14. CASE /\ Outcome[text] \in Pipe!Refused /\ place' = "fail"
            /\ fault' = [position |-> next + 1, message |-> Outcome[text]]
  <2>1. next + 1 \in Pipe!OfType(t, "WORD")
    BY <1>1, <1>3, <1>4, IndicesAre
  <2>2. next + 1 \in Pipe!RefusedFor(t, Outcome[text])
    BY <1>5, <1>10, <2>1 DEF Pipe!RefusedFor, IsOp, text
  <2>3. fault' \in Pipe!Faults(t) /\ fault'.position = next + 1
    BY <1>14, <2>2, FaultsAre
  <2>4. Explained(fault')
    BY <1>3, <1>11, <2>3, FirstFault DEF Explained
  <2> QED BY <1>1, <1>14, <2>4, LeadsTo
<1>15. CASE /\ ~Pipe!Duplicate(c[side]) /\ Outcome[text] \in Pipe!Accepted
            /\ c' = [c EXCEPT ![side] = redirect] /\ next' = next + 2
            /\ UNCHANGED <<fault, place>>
  <2>1. OpsUpTo(s, next, op) = {}
    BY <1>9, <1>15
  <2>2. t[next].type = op /\ t[next + 1].text = text
        /\ redirect = [type |-> Outcome[text], target |-> text]
    BY DEF op, text, redirect
  <2>3. ~IsOp(next + 1)
    BY <1>1, <1>3, IndicesAre
  <2>4. ~FaultAt(next + 1)
    <3>1. \A j \in Seg(s) : t[j].type = op => j >= next
      <4> SUFFICES ASSUME NEW j \in Seg(s), t[j].type = op, ~(j >= next) PROVE FALSE
        OBVIOUS
      <4>1. j \in 1 .. Len(t)
        BY <1>3, SegmentIs
      <4>2. j \in 1 .. next - 1
        BY <1>3, <4>1
      <4>3. j \in Pipe!OfType(t, op)
        BY <1>3, <4>1, IndicesAre
      <4> QED BY <2>1, <4>2, <4>3 DEF OpsUpTo
    <3>2. Outcome[text] \notin Pipe!Refused
      BY <1>15 DEF Pipe!Accepted, Pipe!Refused
    <3> QED BY <1>1, <1>3, <1>5, <1>7, <2>2, <3>1, <3>2, TargetFine
  <2>5. SoundBefore(next + 2)
    <3>1. next + 1 \in Nat
      BY <1>5
    <3> QED BY <1>5, <1>11, <2>4, <3>1, SoundMore
  <2>6. /\ CommandIn(s, next + 2).argv = c.argv
        /\ FirstOf(OpsUpTo(s, next + 2, op)) = redirect
        /\ \A o \in {"<", ">"} \ {op} : OpsUpTo(s, next + 2, o) = OpsUpTo(s, next, o)
    BY <1>1, <1>3, <1>7, <2>1, <2>2, RedirectMore
  <2>7. c' = CommandIn(s, next + 2)
    <3> DEFINE d == CommandIn(s, next + 2)
    <3>1. c = [argv |-> c.argv, input |-> c.input, output |-> c.output]
          /\ d = [argv |-> d.argv, input |-> d.input, output |-> d.output]
      BY <1>3, CommandParts
    <3>2. /\ c.input = FirstOf(OpsUpTo(s, next, "<")) /\ c.output = FirstOf(OpsUpTo(s, next, ">"))
          /\ d.input = FirstOf(OpsUpTo(s, next + 2, "<"))
          /\ d.output = FirstOf(OpsUpTo(s, next + 2, ">"))
      BY <1>3 DEF CommandIn
    <3>3. d.argv = c.argv
      BY <2>6
    <3> HIDE DEF d
    <3>4. CASE op = "<"
      <4>1. d.input = redirect /\ d.output = c.output
        BY <2>6, <3>2, <3>4
      <4>2. c' = [argv |-> c.argv, input |-> redirect, output |-> c.output]
        BY <1>15, <3>1, <3>4 DEF side, SideOf
      <4> QED BY <3>1, <3>3, <4>1, <4>2 DEF d
    <3>5. CASE op = ">"
      <4>1. d.output = redirect /\ d.input = c.input
        BY <2>6, <3>2, <3>5
      <4>2. c' = [argv |-> c.argv, input |-> c.input, output |-> redirect]
        BY <1>15, <3>1, <3>5 DEF side, SideOf
      <4> QED BY <3>1, <3>3, <4>1, <4>2 DEF d
    <3> QED BY <1>1, <3>4, <3>5
  <2>8. Within(s, next', c', p')
    BY <1>1, <1>3, <1>5, <1>6, <1>15, <2>3, <2>5, <2>7 DEF Within
  <2> QED BY <1>1, <1>3, <1>15, <2>8, LeadsTo
<1> QED BY <1>1, <1>12, <1>13, <1>14, <1>15

\* At the END token the pipeline is the one of the whole list.
LEMMA SucceedParsed == ASSUME PipeInv, ParsedInv, Pipe!Succeed PROVE ParsedInv'
<1>1. /\ place = "command" /\ place' = "succeeded" /\ t[next].type = "END"
      /\ UNCHANGED <<t, p, fault>>
  BY DEF Pipe!Succeed, Pipe!Type
<1>2. PipeTypeInv /\ next \in 1 .. Len(t) /\ fault = Pipe!NoError
      /\ p = Pipe!PipelineOf(t) /\ SoundBefore(next + 1)
  BY <1>1 DEF PipeInv, PipeTypeInv, ParsedInv, Between
<1>3. next = Len(t) /\ (next + 1) - 1 = next
  BY <1>1, <1>2, IndicesAre
<1>4. \A k : ~FaultAt(k)
  BY <1>2, <1>3, FaultIn DEF SoundBefore
<1>5. Pipe!Faults(t) = {}
  BY <1>4, NoFaults
<1> QED BY <1>1, <1>2, <1>5, SameTokens DEF ParsedInv

\* Freeing, on failure or by the caller, keeps what was said of the tokens.
LEMMA FreesParsed ==
    ASSUME PipeInv, ParsedInv, Pipe!FreeAll \/ Pipe!ClientFree PROVE ParsedInv'
<1>1. /\ t' = t /\ fault' = fault
      /\ \/ place = "fail" /\ place' = "failed"
         \/ place' = "released"
  BY DEF Pipe!FreeAll, Pipe!ClientFree
<1> QED BY <1>1, SameTokens DEF ParsedInv

\* Every step of pipeline_parse keeps the invariant.
LEMMA NextParsed == PipeInv /\ ParsedInv /\ [Pipe!Next]_pipeState => ParsedInv'
<1> SUFFICES ASSUME PipeInv, ParsedInv, [Pipe!Next]_pipeState PROVE ParsedInv'
  OBVIOUS
<1>1. ASSUME UNCHANGED pipeState PROVE ParsedInv'
  <2>1. UNCHANGED <<t, next, c, p, fault, place>>
    BY <1>1 DEF pipeState
  <2> QED BY <2>1, SameTokens DEF ParsedInv
<1>2. CASE Pipe!Returned /\ UNCHANGED Pipe!vars
  BY <1>1, <1>2 DEF Pipe!vars, pipeState
<1> QED
  BY <1>1, <1>2, TokenizeParsed, BeginCommandParsed, NothingBeforePipeParsed, AddArgParsed,
     NoTargetParsed, RedirectionParsed, EndCommandParsed, SucceedParsed, FreesParsed
  DEF Pipe!Next


(* Where pipeline_parse succeeds, its commands are the segments between the  *)
(* pipes, each with its arguments and redirections; where it fails, it names *)
(* the first fault of the token list, unless tokenize or an allocation       *)
(* failed, and leaves an empty pipeline (parser.c:319-404).                  *)
THEOREM ParsesRight == Spec => []PipelineRight
<1>1. PipeInv /\ ParsedInv /\ [Next]_vars => ParsedInv'
  BY NextParsed, PipeSteps
<1>2. PipeInv /\ ParsedInv => PipelineRight
  <2> SUFFICES ASSUME PipeInv, ParsedInv PROVE Pipe!MeetsReference
    BY DEF PipelineRight
  <2>1. CASE place = "succeeded"
    BY <2>1 DEF ParsedInv, Pipe!MeetsReference
  <2>2. CASE place = "failed"
    <3>1. p = <<>> /\ pcap = 0 /\ c = Pipe!NoCommand /\ acap = 0
      BY <2>2 DEF PipeInv, PipeRoomInv
    <3>2. blocks \in Blocks /\ blocks.tokens = 0 /\ blocks.commands = 0 /\ blocks.argvs = 0
          /\ blocks.args = 0 /\ blocks.targets = 0
      BY <2>2, <3>1, NoCommands, NothingInHand DEF PipeInv, OwnedInv, One, Parsing
    <3>3. \A kind \in DOMAIN blocks : blocks[kind] = 0
      BY <3>2 DEF Blocks
    <3> QED BY <2>2, <3>1, <3>3 DEF ParsedInv, Explained, Pipe!MeetsReference
  <2> QED BY <2>1, <2>2 DEF Pipe!MeetsReference
<1> QED BY <1>1, <1>2, InitParsed, PipeInvariant, PTL DEF Spec

-----------------------------------------------------------------------------
(* redirect_set *)

Symbols == Redirect!Chars \cup {Redirect!Prefix}

\* A set of indices that is not empty has a least one.
LEMMA LeastOf ==
    ASSUME NEW n \in Nat, NEW s \in SUBSET (1 .. n), s # {}
    PROVE  Redirect!Min(s) \in s /\ \A k \in s : Redirect!Min(s) <= k
<1> DEFINE Has(u) == \E k \in u : \A m \in u : k <= m
           Q == {m \in Nat : \A u \in SUBSET Nat : (\E k \in u : k <= m) => Has(u)}
<1>1. 0 \in Q
  <2> SUFFICES ASSUME NEW u \in SUBSET Nat, NEW k \in u, k <= 0 PROVE Has(u)
    OBVIOUS
  <2>1. k = 0 /\ \A m \in u : 0 <= m
    OBVIOUS
  <2> QED BY <2>1
<1>2. \A m \in Nat : m \in Q => m + 1 \in Q
  <2> SUFFICES ASSUME NEW m \in Nat, m \in Q, NEW u \in SUBSET Nat, NEW k \in u, k <= m + 1
               PROVE  Has(u)
    OBVIOUS
  <2>1. CASE \E j \in u : j <= m
    BY <2>1
  <2>2. CASE ~\E j \in u : j <= m
    <3>1. k \in Nat /\ \A j \in u : j \in Nat /\ ~(j <= m)
      BY <2>2
    <3>2. k = m + 1 /\ \A j \in u : m + 1 <= j
      BY <3>1
    <3> QED BY <3>2
  <2> QED BY <2>1, <2>2
<1>3. Nat \subseteq Q
  <2> HIDE DEF Q
  <2> QED BY <1>1, <1>2, Induct
<1>4. Has(s)
  <2>1. \A k \in s : k <= n /\ k \in Nat
    OBVIOUS
  <2>2. s \in SUBSET Nat /\ \E k \in s : k <= n
    BY <2>1
  <2>3. n \in Q
    <3> HIDE DEF Q
    <3> QED BY <1>3
  <2> QED BY <2>2, <2>3
<1> QED BY <1>4 DEF Redirect!Min

\* strchr and strrchr.
LEMMA FirstIs ==
    ASSUME NEW s, Len(s) \in Nat, NEW ch
    PROVE  \/ Redirect!strchr(s, ch) = 0 /\ \A j \in 1 .. Len(s) : s[j] # ch
           \/ /\ Redirect!strchr(s, ch) \in 1 .. Len(s) /\ s[Redirect!strchr(s, ch)] = ch
              /\ \A j \in 1 .. Redirect!strchr(s, ch) - 1 : s[j] # ch
<1> DEFINE I == {j \in 1 .. Len(s) : s[j] = ch}
           k == Redirect!strchr(s, ch)
<1>1. k = IF I # {} THEN Redirect!Min(I) ELSE 0
  BY DEF Redirect!strchr, Redirect!SelectInSeq
<1> HIDE DEF k
<1>2. CASE I = {}
  BY <1>1, <1>2 DEF k
<1>3. CASE I # {}
  <2>1. I \in SUBSET (1 .. Len(s))
    OBVIOUS
  <2>2. k \in I /\ \A j \in I : k <= j
    <3> HIDE DEF I
    <3> QED BY <1>1, <1>3, <2>1, LeastOf
  <2>3. \A j \in 1 .. k - 1 : s[j] # ch
    <3> SUFFICES ASSUME NEW j \in 1 .. k - 1, s[j] = ch PROVE FALSE
      OBVIOUS
    <3>1. k \in 1 .. Len(s)
      BY <2>2
    <3>2. j \in I
      BY <3>1
    <3> QED BY <2>2, <3>1, <3>2
  <2> QED BY <2>2, <2>3 DEF k
<1> QED BY <1>2, <1>3

\* strrchr finds the last place of a character, 0 if there is none.
LEMMA LastIs ==
    ASSUME NEW s, Len(s) \in Nat, NEW ch
    PROVE  \/ Redirect!strrchr(s, ch) = 0 /\ \A j \in 1 .. Len(s) : s[j] # ch
           \/ /\ Redirect!strrchr(s, ch) \in 1 .. Len(s) /\ s[Redirect!strrchr(s, ch)] = ch
              /\ \A j \in 1 .. Len(s) : s[j] = ch => j <= Redirect!strrchr(s, ch)
<1> DEFINE I == {j \in 1 .. Len(s) : s[j] = ch}
           k == Redirect!strrchr(s, ch)
<1>1. k = IF I # {} THEN Most(I) ELSE 0
  BY DEF Redirect!strrchr, Redirect!SelectLastInSeq, Redirect!Max, Most, Pipe!Max
<1> HIDE DEF k
<1>2. CASE I = {}
  BY <1>1, <1>2 DEF k
<1>3. CASE I # {}
  <2>1. I \in SUBSET (1 .. Len(s))
    OBVIOUS
  <2>2. k \in I /\ \A j \in I : k >= j
    <3> HIDE DEF I
    <3> QED BY <1>1, <1>3, <2>1, MostOf
  <2>3. \A j \in 1 .. Len(s) : s[j] = ch => j <= k
    BY <2>2
  <2> QED BY <2>2, <2>3 DEF k
<1> QED BY <1>2, <1>3

\* The digits as a number: 10 times the number of the digits before the last, and it.
ValueBody(d, h, s) ==
    IF s = {} THEN 0 ELSE 10 * h[ButLast(s)] + Redirect!Digit[d[Most(s)]]
ValueFold(d) == CHOOSE h : h = [s \in SUBSET DOMAIN d |-> ValueBody(d, h, s)]

\* Value is the fold of its digits.
LEMMA ValueIs == ASSUME NEW d PROVE Redirect!Value(d) = ValueFold(d)[DOMAIN d]
BY DEF Redirect!Value, Redirect!FoldLeft, Redirect!MapThenFoldSet, Redirect!Max,
       ValueFold, ValueBody, Most, ButLast, Pipe!Max

\* Digits are natural numbers, and so is what they are the digits of.
LEMMA DigitsAre ==
    /\ DOMAIN Redirect!Digit = {"0", "1", "3", "5", "6", "8", "9"}
    /\ \A d \in DOMAIN Redirect!Digit : Redirect!Digit[d] \in Nat
BY DEF Redirect!Digit

\* A text of digits is a natural number.
LEMMA ValueType ==
    ASSUME NEW d \in Seq(DOMAIN Redirect!Digit) PROVE Redirect!Value(d) \in Nat
<1> DEFINE n == Len(d)
           S == SUBSET (1 .. n)
           F == ValueFold(d)
           D == [k \in 1 .. n |-> Redirect!Digit[d[k]]]
           G == [x \in Nat \X (1 .. n) |-> 10 * x[1] + D[x[2]]]
<1>0. n \in Nat /\ DOMAIN d = 1 .. n /\ \A k \in 1 .. n : d[k] \in DOMAIN Redirect!Digit
  OBVIOUS
<1>1. \A k \in 1 .. n : D[k] \in Nat /\ D[k] = Redirect!Digit[d[k]]
  BY <1>0, DigitsAre
<1> HIDE DEF D, n
<1>2. G \in [Nat \X (1 .. n) -> Nat]
  BY <1>1
<1>3. PICK h \in [S -> Nat] : Folds(G, 0, n, h)
  <2> HIDE DEF G
  <2> QED BY <1>0, <1>2, FoldExists
<1>4. h = [s \in S |-> ValueBody(d, h, s)]
  <2> SUFFICES ASSUME NEW s \in S PROVE h[s] = ValueBody(d, h, s)
    OBVIOUS
  <2>1. h[s] = IF s = {} THEN 0 ELSE G[<<h[ButLast(s)], Most(s)>>]
    BY <1>3 DEF Folds
  <2>2. s # {} => Most(s) \in 1 .. n /\ ButLast(s) \in S
    BY <1>0, MostOf DEF ButLast
  <2>3. s # {} => G[<<h[ButLast(s)], Most(s)>>] = 10 * h[ButLast(s)] + D[Most(s)]
    BY <2>2
  <2> QED BY <1>1, <2>1, <2>2, <2>3 DEF ValueBody
<1>5. F = [s \in S |-> ValueBody(d, F, s)]
  <2>1. \E g : g = [s \in SUBSET DOMAIN d |-> ValueBody(d, g, s)]
    BY <1>0, <1>4
  <2>2. F = [s \in SUBSET DOMAIN d |-> ValueBody(d, F, s)]
    BY <2>1 DEF ValueFold
  <2> QED BY <1>0, <2>2
<1> HIDE DEF F, S
<1>6. \A s \in S : F[s] = ValueBody(d, F, s)
  BY <1>5
<1> DEFINE Q == {k \in Nat : k <= n => F[1 .. k] \in Nat}
<1>7. 0 \in Q
  <2>1. 1 .. 0 = {} /\ {} \in S
    BY DEF S
  <2>2. F[1 .. 0] = 0
    BY <1>6, <2>1 DEF ValueBody
  <2> QED BY <2>2
<1>8. \A k \in Nat : k \in Q => k + 1 \in Q
  <2> SUFFICES ASSUME NEW k \in Nat, k \in Q, k + 1 <= n PROVE F[1 .. k + 1] \in Nat
    <3>1. \A k \in Nat : k + 1 \in Nat
      OBVIOUS
    <3> QED BY <3>1
  <2>1. 1 .. k + 1 \in S /\ k <= n /\ k + 1 \in 1 .. n
    BY <1>0 DEF S
  <2>2. 1 .. k + 1 # {} /\ Most(1 .. k + 1) = k + 1 /\ ButLast(1 .. k + 1) = 1 .. k
    BY Beginnings
  <2>3. F[1 .. k + 1] = ValueBody(d, F, 1 .. k + 1)
    BY <1>6, <2>1
  <2>4. F[1 .. k + 1] = 10 * F[1 .. k] + D[k + 1]
    BY <1>1, <2>1, <2>2, <2>3 DEF ValueBody
  <2>5. D[k + 1] \in Nat /\ F[1 .. k] \in Nat
    BY <1>1, <2>1
  <2> QED BY <2>4, <2>5
<1>9. Nat \subseteq Q
  <2> HIDE DEF Q
  <2> QED BY <1>7, <1>8, Induct
<1>10. F[1 .. n] \in Nat
  BY <1>0, <1>9
<1> QED BY <1>0, <1>10, ValueIs DEF F

\* What strtol makes of a text: blanks up to f, a sign at f or none, digits from u up to e.
LEMMA strtolIs ==
    ASSUME NEW s \in Seq(Redirect!Chars)
    PROVE  \E f \in 1 .. Len(s) + 1, u \in 1 .. Len(s) + 1, e \in 1 .. Len(s) + 1 :
             /\ \A j \in 1 .. f - 1 : s[j] = "blank"
             /\ f <= Len(s) => s[f] # "blank"
             /\ u = IF f <= Len(s) /\ s[f] \in Redirect!Signs THEN f + 1 ELSE f
             /\ u <= e
             /\ \A j \in u .. e - 1 : s[j] \in DOMAIN Redirect!Digit
             /\ e <= Len(s) => s[e] \notin DOMAIN Redirect!Digit
             /\ LET v == Redirect!Value(SubSeq(s, u, e - 1))
                IN Redirect!strtol(s) = [v |-> IF u > f /\ s[f] = "-" THEN -v ELSE v,
                                         rest |-> IF e = u THEN s ELSE Redirect!From(s, e)]
<1> DEFINE n == Len(s)
           w == Append(s, "NUL")
           f == Redirect!SelectInSeq(w, LAMBDA x : x # "blank")
           u == IF f <= n /\ s[f] \in Redirect!Signs THEN f + 1 ELSE f
           e == Redirect!SelectInSubSeq(w, u, n + 1, LAMBDA x : x \notin DOMAIN Redirect!Digit)
           I == {j \in 1 .. Len(w) : w[j] # "blank"}
           J == {j \in u .. n + 1 : w[j] \notin DOMAIN Redirect!Digit}
<1>1. n \in Nat /\ Len(w) = n + 1 /\ w[n + 1] = "NUL" /\ \A j \in 1 .. n : w[j] = s[j]
  <2> DEFINE W == Redirect!Chars \cup {"NUL"}
  <2>1. s \in Seq(W) /\ "NUL" \in W
    OBVIOUS
  <2> HIDE DEF W
  <2> QED BY <2>1, AppendProperties, LenProperties
<1>2. f = IF I # {} THEN Redirect!Min(I) ELSE 0
  BY DEF Redirect!SelectInSeq
<1>3. e = IF J # {} THEN Redirect!Min(J) ELSE 0
  BY DEF Redirect!SelectInSubSeq
<1>4. LET v == Redirect!Value(SubSeq(s, u, e - 1))
      IN Redirect!strtol(s) = [v |-> IF u > f /\ s[f] = "-" THEN -v ELSE v,
                               rest |-> IF e = u THEN s ELSE Redirect!From(s, e)]
  BY DEF Redirect!strtol
<1> HIDE DEF e, f, w
<1>5. n + 1 \in I /\ I \in SUBSET (1 .. n + 1)
  BY <1>1
<1>6. f \in I /\ \A j \in I : f <= j
  <2> HIDE DEF I
  <2>1. n + 1 \in Nat /\ I # {}
    BY <1>1, <1>5
  <2> QED BY <1>2, <1>5, <2>1, LeastOf
<1>7. f \in 1 .. n + 1 /\ (f <= n => s[f] # "blank")
  BY <1>1, <1>6
<1>8. \A j \in 1 .. f - 1 : s[j] = "blank"
  <2> SUFFICES ASSUME NEW j \in 1 .. f - 1, s[j] # "blank" PROVE FALSE
    OBVIOUS
  <2>1. j \in 1 .. n /\ ~(f <= j)
    BY <1>1, <1>7
  <2>2. j \in I
    BY <1>1, <2>1
  <2> QED BY <1>6, <2>1, <2>2
<1>9. u \in 1 .. n + 1
  BY <1>1, <1>7
<1> HIDE DEF u
<1>10. n + 1 \in J /\ J \in SUBSET (1 .. n + 1)
  <2>1. "NUL" \notin DOMAIN Redirect!Digit
    BY DigitsAre
  <2> QED BY <1>1, <1>9, <2>1
<1>11. e \in J /\ \A j \in J : e <= j
  <2> HIDE DEF J
  <2>1. n + 1 \in Nat /\ J # {}
    BY <1>1, <1>10
  <2> QED BY <1>3, <1>10, <2>1, LeastOf
<1>12. e \in 1 .. n + 1 /\ u <= e /\ (e <= n => s[e] \notin DOMAIN Redirect!Digit)
  BY <1>1, <1>9, <1>11
<1>13. \A j \in u .. e - 1 : s[j] \in DOMAIN Redirect!Digit
  <2> SUFFICES ASSUME NEW j \in u .. e - 1, s[j] \notin DOMAIN Redirect!Digit PROVE FALSE
    OBVIOUS
  <2>1. j \in 1 .. n /\ j \in u .. n + 1 /\ ~(e <= j)
    BY <1>1, <1>9, <1>12
  <2>2. j \in J
    BY <1>1, <2>1
  <2> QED BY <1>11, <2>1, <2>2
<1> QED BY <1>4, <1>7, <1>8, <1>9, <1>12, <1>13 DEF u

\* A port is a text that parse_port takes, and its value the one strtol gives.
LEMMA PortsAre ==
    ASSUME NEW s \in Seq(Redirect!Chars)
    PROVE  Redirect!Ports(s) = IF Redirect!parse_port(s) THEN {Redirect!strtol(s).v} ELSE {}
<1> DEFINE n == Len(s)
           K == {k \in 1 .. n :
                   /\ \A j \in k .. n : s[j] \in DOMAIN Redirect!Digit
                   /\ \A j \in 1 .. k - 1 : s[j] = "blank" \/ (s[j] = "+" /\ j = k - 1)}
<1>1. PICK f \in 1 .. n + 1, u \in 1 .. n + 1, e \in 1 .. n + 1 :
        /\ \A j \in 1 .. f - 1 : s[j] = "blank"
        /\ f <= n => s[f] # "blank"
        /\ u = IF f <= n /\ s[f] \in Redirect!Signs THEN f + 1 ELSE f
        /\ u <= e
        /\ \A j \in u .. e - 1 : s[j] \in DOMAIN Redirect!Digit
        /\ e <= n => s[e] \notin DOMAIN Redirect!Digit
        /\ LET v == Redirect!Value(SubSeq(s, u, e - 1))
           IN Redirect!strtol(s) = [v |-> IF u > f /\ s[f] = "-" THEN -v ELSE v,
                                    rest |-> IF e = u THEN s ELSE Redirect!From(s, e)]
  BY strtolIs
<1> DEFINE v == Redirect!Value(SubSeq(s, u, e - 1))
           minus == u > f /\ s[f] = "-"
<1>2. n \in Nat /\ \A j \in 1 .. n : s[j] \in Redirect!Chars
  OBVIOUS
<1>3. "blank" \notin DOMAIN Redirect!Digit /\ "+" \notin DOMAIN Redirect!Digit
      /\ Redirect!Signs = {"+", "-"} /\ "-" \notin DOMAIN Redirect!Digit
  BY DigitsAre DEF Redirect!Signs
<1>0. Redirect!MaxPort \in Nat
  BY DEF Redirect!MaxPort
<1>4. v \in Nat
  <2>1. SubSeq(s, u, e - 1) \in Seq(DOMAIN Redirect!Digit)
    BY <1>1, SubSeqProperties
  <2> QED BY <2>1, ValueType
<1>5. Redirect!strtol(s).v = IF minus THEN -v ELSE v
  BY <1>1
<1>6. Redirect!strtol(s).rest = IF e = u THEN s ELSE Redirect!From(s, e)
  BY <1>1
<1>7. Redirect!From(s, e) = <<>> <=> e = n + 1
  <2>1. \A j \in e .. n : s[j] \in Redirect!Chars
    BY <1>2
  <2>2. Len(Redirect!From(s, e)) = IF e <= n THEN n - e + 1 ELSE 0
    BY <1>2, <2>1, SubSeqProperties DEF Redirect!From
  <2>3. e = n + 1 => Redirect!From(s, e) = <<>>
    BY <1>2, SubSeqEmpty DEF Redirect!From
  <2>4. Len(<<>>) = 0
    OBVIOUS
  <2> QED BY <1>2, <2>2, <2>3, <2>4
<1>8. s = <<>> <=> n = 0
  <2>1. n = 0 => s = <<>>
    BY EmptySeq
  <2> QED BY <2>1
<1> HIDE DEF v
<1>9. Redirect!parse_port(s) <=> u < e /\ e = n + 1 /\ ~minus /\ v \in 1 .. Redirect!MaxPort
  <2>1. Redirect!strtol(s).rest = <<>> /\ s # <<>> <=> u < e /\ e = n + 1
    BY <1>1, <1>2, <1>6, <1>7, <1>8
  <2>2. Redirect!strtol(s).v \in 1 .. Redirect!MaxPort <=> ~minus /\ v \in 1 .. Redirect!MaxPort
    <3>1. CASE minus
      <4>1. Redirect!strtol(s).v = -v
        BY <1>5, <3>1
      <4> HIDE DEF minus
      <4> QED BY <1>0, <1>4, <3>1, <4>1
    <3>2. CASE ~minus
      <4>1. Redirect!strtol(s).v = v
        BY <1>5, <3>2
      <4> HIDE DEF minus
      <4> QED BY <3>2, <4>1
    <3> QED BY <3>1, <3>2
  <2>3. Redirect!parse_port(s) <=>
          /\ Redirect!strtol(s).rest = <<>> /\ s # <<>>
          /\ Redirect!strtol(s).v \in 1 .. Redirect!MaxPort
    BY Zenon DEF Redirect!parse_port
  <2> HIDE DEF minus
  <2> QED BY <2>1, <2>2, <2>3
<1>10. ASSUME NEW k \in K PROVE k = u /\ ~minus /\ e = n + 1
  <2>1. k \in 1 .. n /\ s[k] \in DOMAIN Redirect!Digit
    BY <1>2
  <2>2. f <= k
    BY <1>1, <1>3, <2>1
  <2>3. f <= n
    BY <1>2, <2>1, <2>2
  <2>4. CASE f < k
    <3>1. f \in 1 .. k - 1
      BY <2>1, <2>4
    <3>2. s[f] = "+" /\ f = k - 1
      BY <1>1, <2>3, <3>1
    <3>3. u = k /\ ~minus
      BY <1>1, <1>3, <2>1, <2>3, <3>2
    <3> QED BY <1>1, <1>2, <2>1, <3>3
  <2>5. CASE f = k
    <3>1. u = f /\ ~minus
      BY <1>1, <1>3, <2>1, <2>5
    <3> QED BY <1>1, <1>2, <2>1, <2>5, <3>1
  <2> QED BY <2>1, <2>2, <2>4, <2>5
<1>11. ASSUME u < e, e = n + 1, ~minus PROVE u \in K
  <2>1. u \in 1 .. n /\ \A j \in u .. n : s[j] \in DOMAIN Redirect!Digit
    BY <1>1, <1>2, <1>11
  <2>2. \A j \in 1 .. u - 1 : s[j] = "blank" \/ (s[j] = "+" /\ j = u - 1)
    <3> SUFFICES ASSUME NEW j \in 1 .. u - 1 PROVE s[j] = "blank" \/ (s[j] = "+" /\ j = u - 1)
      OBVIOUS
    <3>1. CASE j < f
      BY <1>1, <3>1
    <3>2. CASE ~(j < f)
      <4>1. j = f /\ u = f + 1 /\ s[f] \in Redirect!Signs
        BY <1>1, <3>2
      <4> QED BY <1>3, <1>11, <4>1
    <3> QED BY <3>1, <3>2
  <2> QED BY <2>1, <2>2
<1>12. Redirect!Ports(s)
       = {Redirect!Value(Redirect!From(s, k)) : k \in K} \cap 1 .. Redirect!MaxPort
  BY DEF Redirect!Ports
<1>13. e = n + 1 => Redirect!Value(Redirect!From(s, u)) = v
  <2>1. (n + 1) - 1 = n
    BY <1>2
  <2> QED BY <2>1 DEF Redirect!From, v
<1> HIDE DEF K
<1>14. CASE u < e /\ e = n + 1 /\ ~minus
  <2>1. K = {u}
    BY <1>10, <1>11, <1>14
  <2>2. {Redirect!Value(Redirect!From(s, k)) : k \in K} = {v}
    <3>1. {Redirect!Value(Redirect!From(s, k)) : k \in {u}}
          = {Redirect!Value(Redirect!From(s, u))}
      OBVIOUS
    <3> QED BY <1>13, <1>14, <2>1, <3>1
  <2>3. Redirect!strtol(s).v = v
    BY <1>5, <1>14
  <2>4. Redirect!parse_port(s) <=> v \in 1 .. Redirect!MaxPort
    BY <1>9, <1>14
  <2>5. v \in 1 .. Redirect!MaxPort => {v} \cap 1 .. Redirect!MaxPort = {v}
    OBVIOUS
  <2>6. v \notin 1 .. Redirect!MaxPort => {v} \cap 1 .. Redirect!MaxPort = {}
    OBVIOUS
  <2> QED BY <1>12, <2>2, <2>3, <2>4, <2>5, <2>6
<1>15. CASE ~(u < e /\ e = n + 1 /\ ~minus)
  <2>1. K = {}
    <3> SUFFICES ASSUME NEW k \in K PROVE FALSE
      OBVIOUS
    <3>1. k = u /\ ~minus /\ e = n + 1 /\ k \in 1 .. n
      BY <1>10 DEF K
    <3> QED BY <1>2, <1>15, <3>1
  <2>2. Redirect!Ports(s) = {}
    BY <1>12, <2>1
  <2> QED BY <1>9, <1>15, <2>2
<1> QED BY <1>14, <1>15

\* A text with a colon is no port.
LEMMA NoColon ==
    ASSUME NEW s, Len(s) \in Nat, NEW m \in 1 .. Len(s), s[m] = ":"
    PROVE  Redirect!Ports(s) = {}
<1>1. ":" \notin DOMAIN Redirect!Digit
  BY DigitsAre
<1>2. \A k \in 1 .. Len(s) :
        ~ /\ \A j \in k .. Len(s) : s[j] \in DOMAIN Redirect!Digit
          /\ \A j \in 1 .. k - 1 : s[j] = "blank" \/ (s[j] = "+" /\ j = k - 1)
  <2> SUFFICES ASSUME NEW k \in 1 .. Len(s),
                      \A j \in k .. Len(s) : s[j] \in DOMAIN Redirect!Digit,
                      \A j \in 1 .. k - 1 : s[j] = "blank" \/ (s[j] = "+" /\ j = k - 1)
               PROVE  FALSE
    OBVIOUS
  <2>1. CASE k <= m
    BY <1>1, <2>1
  <2>2. CASE ~(k <= m)
    <3>1. m \in 1 .. k - 1
      BY <2>2
    <3> QED BY <3>1
  <2> QED BY <2>1, <2>2
<1> QED BY <1>2 DEF Redirect!Ports

\* The parts of a text in two parts.
LEMMA TwoParts ==
    ASSUME NEW u \in Seq(Symbols), NEW w \in Seq(Symbols)
    PROVE  /\ u \o w \in Seq(Symbols) /\ Len(u \o w) = Len(u) + Len(w)
           /\ \A k \in 1 .. Len(u) : (u \o w)[k] = u[k]
           /\ \A k \in 1 .. Len(w) : (u \o w)[Len(u) + k] = w[k]
<1> DEFINE s == u \o w
<1>1. s \in Seq(Symbols) /\ Len(s) = Len(u) + Len(w)
      /\ \A k \in 1 .. Len(u) + Len(w) : s[k] = IF k <= Len(u) THEN u[k] ELSE w[k - Len(u)]
  BY ConcatProperties
<1>2. Len(u) \in Nat /\ Len(w) \in Nat
  OBVIOUS
<1> HIDE DEF s
<1>3. ASSUME NEW k \in 1 .. Len(w) PROVE s[Len(u) + k] = w[k]
  <2>1. Len(u) + k \in 1 .. Len(u) + Len(w) /\ ~(Len(u) + k <= Len(u))
        /\ (Len(u) + k) - Len(u) = k
    BY <1>2
  <2> QED BY <1>1, <2>1
<1>4. \A k \in 1 .. Len(u) : s[k] = u[k]
  BY <1>1, <1>2
<1> QED BY <1>1, <1>3, <1>4 DEF s

Joined(x, h, y, q) == x \o h \o y \o q
PartsOf(s, x, h, y, q) ==
    /\ s \in Seq(Symbols) /\ Len(s) = Len(x) + Len(h) + Len(y) + Len(q)
    /\ \A k \in 1 .. Len(x) : s[k] = x[k]
    /\ \A k \in 1 .. Len(h) : s[Len(x) + k] = h[k]
    /\ \A k \in 1 .. Len(y) : s[Len(x) + Len(h) + k] = y[k]
    /\ \A k \in 1 .. Len(q) : s[Len(x) + Len(h) + Len(y) + k] = q[k]

\* And of one in four parts.
LEMMA FourParts ==
    ASSUME NEW x \in Seq(Symbols), NEW h \in Seq(Symbols), NEW y \in Seq(Symbols),
           NEW q \in Seq(Symbols)
    PROVE  PartsOf(Joined(x, h, y, q), x, h, y, q)
<1> DEFINE s == Joined(x, h, y, q)
           a == x \o h
           b2 == a \o y
<1>1. /\ a \in Seq(Symbols) /\ Len(a) = Len(x) + Len(h)
      /\ \A k \in 1 .. Len(x) : a[k] = x[k]
      /\ \A k \in 1 .. Len(h) : a[Len(x) + k] = h[k]
  BY TwoParts
<1> HIDE DEF a
<1>2. /\ b2 \in Seq(Symbols) /\ Len(b2) = Len(a) + Len(y)
      /\ \A k \in 1 .. Len(a) : b2[k] = a[k]
      /\ \A k \in 1 .. Len(y) : b2[Len(a) + k] = y[k]
  BY <1>1, TwoParts
<1> HIDE DEF b2
<1>3. s = b2 \o q
  BY DEF a, b2, Joined
<1> HIDE DEF s
<1>4. /\ s \in Seq(Symbols) /\ Len(s) = Len(b2) + Len(q)
      /\ \A k \in 1 .. Len(b2) : s[k] = b2[k]
      /\ \A k \in 1 .. Len(q) : s[Len(b2) + k] = q[k]
  <2> DEFINE w == b2 \o q
  <2>1. /\ w \in Seq(Symbols) /\ Len(w) = Len(b2) + Len(q)
        /\ \A k \in 1 .. Len(b2) : w[k] = b2[k]
        /\ \A k \in 1 .. Len(q) : w[Len(b2) + k] = q[k]
    BY <1>2, TwoParts
  <2>2. s = w
    BY <1>3
  <2> HIDE DEF w
  <2> QED BY <2>1, <2>2
<1>5. Len(x) \in Nat /\ Len(h) \in Nat /\ Len(y) \in Nat /\ Len(q) \in Nat
  OBVIOUS
<1>6. \A k \in 1 .. Len(x) : s[k] = x[k]
  BY <1>1, <1>2, <1>4, <1>5
<1>7. ASSUME NEW k \in 1 .. Len(h) PROVE s[Len(x) + k] = h[k]
  <2>1. Len(x) + k \in 1 .. Len(a) /\ Len(x) + k \in 1 .. Len(b2)
    BY <1>1, <1>2, <1>5
  <2> QED BY <1>1, <1>2, <1>4, <2>1
<1>8. ASSUME NEW k \in 1 .. Len(y) PROVE s[Len(x) + Len(h) + k] = y[k]
  <2>1. Len(a) + k \in 1 .. Len(b2)
    BY <1>1, <1>2, <1>5
  <2> QED BY <1>1, <1>2, <1>4, <2>1
<1>9. \A k \in 1 .. Len(q) : s[Len(x) + Len(h) + Len(y) + k] = q[k]
  BY <1>1, <1>2, <1>4
<1>10. Len(s) = Len(x) + Len(h) + Len(y) + Len(q)
  BY <1>1, <1>2, <1>4
<1> QED BY <1>4, <1>6, <1>7, <1>8, <1>9, <1>10 DEF s, PartsOf

\* What a part of a text is.
LEMMA PartIs ==
    ASSUME NEW S, NEW s \in Seq(S), NEW j \in 1 .. Len(s) + 1, NEW k \in j - 1 .. Len(s)
    PROVE  /\ SubSeq(s, j, k) \in Seq(S) /\ Len(SubSeq(s, j, k)) = (k - j) + 1
           /\ \A m \in 1 .. (k - j) + 1 : SubSeq(s, j, k)[m] = s[(j - 1) + m]
           /\ \A h \in Seq(S) :
                Len(h) = (k - j) + 1 /\ (\A m \in 1 .. Len(h) : h[m] = s[(j - 1) + m])
                  => h = SubSeq(s, j, k)
<1> DEFINE d == SubSeq(s, j, k)
<1>1. Len(s) \in Nat /\ \A m \in j .. k : s[m] \in S
  OBVIOUS
<1>2. d \in Seq(S) /\ Len(d) = (IF j <= k THEN (k - j) + 1 ELSE 0)
      /\ \A m \in 1 .. (k - j) + 1 : d[m] = s[(j + m) - 1]
  BY <1>1, SubSeqProperties
<1>3. Len(d) = (k - j) + 1
  BY <1>1, <1>2
<1>4. \A m \in 1 .. (k - j) + 1 : d[m] = s[(j - 1) + m]
  <2>1. \A m \in 1 .. (k - j) + 1 : (j + m) - 1 = (j - 1) + m
    BY <1>1
  <2> QED BY <1>2, <2>1
<1> HIDE DEF d
<1>5. ASSUME NEW h \in Seq(S), Len(h) = (k - j) + 1,
             \A m \in 1 .. Len(h) : h[m] = s[(j - 1) + m]
      PROVE  h = d
  <2>1. \A m \in 1 .. Len(h) : h[m] = d[m]
    BY <1>4, <1>5
  <2> QED BY <1>2, <1>3, <1>5, <2>1, SeqEqual
<1> QED BY <1>2, <1>3, <1>4, <1>5 DEF d

\* The texts of targets that start with the prefix.
Endpointlike(s) ==
    /\ s \in Seq(Symbols) /\ Len(s) \in Nat /\ Len(s) >= 1 /\ s[1] = Redirect!Prefix
    /\ \A k \in 2 .. Len(s) : s[k] \in Redirect!Chars

\* An endpoint whose text has no bracket ends its host at the first colon.
LEMMA PlainReads ==
    ASSUME NEW s, Endpointlike(s), NEW h \in Seq(Symbols), NEW q \in Seq(Symbols),
           Redirect!IsEndpoint(s, h, q), s[2] # "["
    PROVE  \E c0 \in 3 .. Len(s) :
             /\ s[c0] = ":" /\ \A k \in 2 .. c0 - 1 : s[k] # ":"
             /\ h = SubSeq(s, 2, c0 - 1) /\ q = Redirect!From(s, c0 + 1)
<1> DEFINE x == <<Redirect!Prefix>>
           y == <<":">>
           x2 == <<Redirect!Prefix, "[">>
           y2 == <<"]", ":">>
           c0 == Len(h) + 2
<1>0. x \in Seq(Symbols) /\ y \in Seq(Symbols) /\ x2 \in Seq(Symbols) /\ y2 \in Seq(Symbols)
  BY DEF Symbols, Redirect!Chars
<1>1. Len(x) = 1 /\ Len(y) = 1 /\ y[1] = ":" /\ Len(x2) = 2 /\ x2[2] = "["
  OBVIOUS
<1>2. s \in Seq(Symbols) /\ Len(s) \in Nat /\ Len(h) \in Nat /\ Len(q) \in Nat
  BY DEF Endpointlike
<1>3. /\ h # <<>>
      /\ \/ s = Joined(x, h, y, q) /\ ":" \notin Redirect!ToSet(h)
         \/ s = Joined(x2, h, y2, q)
  BY DEF Redirect!IsEndpoint, Joined
<1> HIDE DEF x, y, x2, y2
<1>4. s # Joined(x2, h, y2, q)
  <2> SUFFICES ASSUME s = Joined(x2, h, y2, q) PROVE FALSE
    OBVIOUS
  <2>1. PartsOf(s, x2, h, y2, q)
    BY <1>0, FourParts
  <2>2. \A k \in 1 .. Len(x2) : s[k] = x2[k]
    BY <2>1 DEF PartsOf
  <2> QED BY <1>1, <2>2
<1>5. s = Joined(x, h, y, q) /\ \A k \in 1 .. Len(h) : h[k] # ":"
  BY <1>3, <1>4 DEF Redirect!ToSet
<1>6. /\ Len(s) = Len(x) + Len(h) + Len(y) + Len(q)
      /\ \A k \in 1 .. Len(h) : s[Len(x) + k] = h[k]
      /\ \A k \in 1 .. Len(y) : s[Len(x) + Len(h) + k] = y[k]
      /\ \A k \in 1 .. Len(q) : s[Len(x) + Len(h) + Len(y) + k] = q[k]
  <2>1. PartsOf(s, x, h, y, q)
    BY <1>0, <1>5, FourParts
  <2> QED BY <2>1 DEF PartsOf
<1>7. Len(h) >= 1
  BY <1>2, <1>3, EmptySeq
<1>8. c0 \in 3 .. Len(s) /\ Len(q) = Len(s) - c0 /\ Len(x) + Len(h) + 1 = c0
      /\ Len(x) + Len(h) + Len(y) = c0
  BY <1>1, <1>2, <1>6, <1>7
<1>9. s[c0] = ":"
  <2>1. 1 \in 1 .. Len(y)
    BY <1>1
  <2> QED BY <1>1, <1>6, <1>8, <2>1
<1>10. \A k \in 1 .. Len(h) : h[k] = s[1 + k]
  BY <1>1, <1>6
<1>11. \A k \in 2 .. c0 - 1 : s[k] # ":"
  <2> SUFFICES ASSUME NEW k \in 2 .. c0 - 1 PROVE s[k] # ":"
    OBVIOUS
  <2>1. k - 1 \in 1 .. Len(h) /\ 1 + (k - 1) = k
    BY <1>2
  <2>2. h[k - 1] # ":" /\ h[k - 1] = s[k]
    BY <1>5, <1>10, <2>1
  <2> QED BY <2>2
<1>12. h = SubSeq(s, 2, c0 - 1)
  <2>1. 2 \in 1 .. Len(s) + 1 /\ c0 - 1 \in 2 - 1 .. Len(s) /\ ((c0 - 1) - 2) + 1 = Len(h)
        /\ 2 - 1 = 1
    BY <1>2, <1>8
  <2> QED BY <1>2, <1>10, <2>1, PartIs
<1>13. q = Redirect!From(s, c0 + 1)
  <2>1. c0 + 1 \in 1 .. Len(s) + 1 /\ Len(s) \in (c0 + 1) - 1 .. Len(s)
        /\ (Len(s) - (c0 + 1)) + 1 = Len(q) /\ (c0 + 1) - 1 = c0
    BY <1>2, <1>8
  <2>2. \A k \in 1 .. Len(q) : q[k] = s[c0 + k]
    BY <1>6, <1>8
  <2> HIDE DEF c0
  <2> QED BY <1>2, <2>1, <2>2, PartIs DEF Redirect!From
<1> QED BY <1>8, <1>9, <1>11, <1>12, <1>13

\* One with a bracket ends its host at the first closing bracket.
LEMMA BracketReads ==
    ASSUME NEW s, Endpointlike(s), NEW h \in Seq(Symbols), NEW q \in Seq(Symbols),
           Redirect!IsEndpoint(s, h, q), s[2] = "["
    PROVE  \E d \in 4 .. Len(s) - 1 :
             /\ s[d] = "]" /\ s[d + 1] = ":" /\ \A k \in 3 .. d - 1 : s[k] # "]"
             /\ h = SubSeq(s, 3, d - 1) /\ q = Redirect!From(s, d + 2)
<1> DEFINE x == <<Redirect!Prefix>>
           y == <<":">>
           x2 == <<Redirect!Prefix, "[">>
           y2 == <<"]", ":">>
           d == Len(h) + 3
<1>0. x \in Seq(Symbols) /\ y \in Seq(Symbols) /\ x2 \in Seq(Symbols) /\ y2 \in Seq(Symbols)
  BY DEF Symbols, Redirect!Chars
<1>1. Len(x) = 1 /\ Len(x2) = 2 /\ Len(y2) = 2 /\ y2[1] = "]" /\ y2[2] = ":"
  OBVIOUS
<1>2. s \in Seq(Symbols) /\ Len(s) \in Nat /\ Len(h) \in Nat /\ Len(q) \in Nat
  BY DEF Endpointlike
<1>3. /\ h # <<>>
      /\ \/ s = Joined(x, h, y, q) /\ h[1] # "["
         \/ s = Joined(x2, h, y2, q) /\ "]" \notin Redirect!ToSet(h)
  BY DEF Redirect!IsEndpoint, Joined
<1> HIDE DEF x, y, x2, y2
<1>4. Len(h) >= 1
  BY <1>2, <1>3, EmptySeq
<1>5. ~(s = Joined(x, h, y, q) /\ h[1] # "[")
  <2> SUFFICES ASSUME s = Joined(x, h, y, q) PROVE h[1] = "["
    OBVIOUS
  <2>1. PartsOf(s, x, h, y, q)
    BY <1>0, FourParts
  <2>2. \A k \in 1 .. Len(h) : s[Len(x) + k] = h[k]
    BY <2>1 DEF PartsOf
  <2> QED BY <1>1, <1>2, <1>4, <2>2
<1>6. s = Joined(x2, h, y2, q) /\ \A k \in 1 .. Len(h) : h[k] # "]"
  BY <1>3, <1>5 DEF Redirect!ToSet
<1>7. /\ Len(s) = Len(x2) + Len(h) + Len(y2) + Len(q)
      /\ \A k \in 1 .. Len(h) : s[Len(x2) + k] = h[k]
      /\ \A k \in 1 .. Len(y2) : s[Len(x2) + Len(h) + k] = y2[k]
      /\ \A k \in 1 .. Len(q) : s[Len(x2) + Len(h) + Len(y2) + k] = q[k]
  <2>1. PartsOf(s, x2, h, y2, q)
    BY <1>0, <1>6, FourParts
  <2> QED BY <2>1 DEF PartsOf
<1>8. d \in 4 .. Len(s) - 1 /\ Len(q) = Len(s) - (d + 1) /\ Len(x2) + Len(h) + 1 = d
      /\ Len(x2) + Len(h) + 2 = d + 1 /\ Len(x2) + Len(h) + Len(y2) = d + 1
  BY <1>1, <1>2, <1>4, <1>7
<1>9. s[d] = "]" /\ s[d + 1] = ":"
  <2>1. 1 \in 1 .. Len(y2) /\ 2 \in 1 .. Len(y2)
    BY <1>1
  <2> QED BY <1>1, <1>7, <1>8, <2>1
<1>10. \A k \in 1 .. Len(h) : h[k] = s[2 + k]
  BY <1>1, <1>7
<1>11. \A k \in 3 .. d - 1 : s[k] # "]"
  <2> SUFFICES ASSUME NEW k \in 3 .. d - 1 PROVE s[k] # "]"
    OBVIOUS
  <2>1. k - 2 \in 1 .. Len(h) /\ 2 + (k - 2) = k
    BY <1>2
  <2>2. h[k - 2] # "]" /\ h[k - 2] = s[k]
    BY <1>6, <1>10, <2>1
  <2> QED BY <2>2
<1>12. h = SubSeq(s, 3, d - 1)
  <2>1. 3 \in 1 .. Len(s) + 1 /\ d - 1 \in 3 - 1 .. Len(s) /\ ((d - 1) - 3) + 1 = Len(h)
        /\ 3 - 1 = 2
    BY <1>2, <1>8
  <2> QED BY <1>2, <1>10, <2>1, PartIs
<1>13. q = Redirect!From(s, d + 2)
  <2>1. d + 2 \in 1 .. Len(s) + 1 /\ Len(s) \in (d + 2) - 1 .. Len(s)
        /\ (Len(s) - (d + 2)) + 1 = Len(q) /\ (d + 2) - 1 = d + 1
    BY <1>2, <1>8
  <2>2. \A k \in 1 .. Len(q) : q[k] = s[(d + 1) + k]
    BY <1>7, <1>8
  <2> HIDE DEF d
  <2> QED BY <1>2, <2>1, <2>2, PartIs DEF Redirect!From
<1> QED BY <1>8, <1>9, <1>11, <1>12, <1>13

\* A text is the parts it is cut into.
LEMMA Rejoined ==
    ASSUME NEW s \in Seq(Symbols), NEW j \in 0 .. Len(s), NEW k \in j .. Len(s),
           NEW m \in k .. Len(s)
    PROVE  s = Joined(SubSeq(s, 1, j), SubSeq(s, j + 1, k), SubSeq(s, k + 1, m),
                      SubSeq(s, m + 1, Len(s)))
<1>1. Len(s) \in Nat /\ j \in Nat /\ k \in Nat /\ m \in Nat
  OBVIOUS
<1>2. SubSeq(s, 1, j) \o SubSeq(s, j + 1, k) = SubSeq(s, 1, k)
  <2>1. 1 \in 1 .. Len(s) + 1 /\ j \in 1 - 1 .. Len(s) /\ k \in j .. Len(s)
    BY <1>1
  <2> QED BY <2>1, ConcatAdjacentSubSeq
<1>3. SubSeq(s, 1, k) \o SubSeq(s, k + 1, m) = SubSeq(s, 1, m)
  <2>1. 1 \in 1 .. Len(s) + 1 /\ k \in 1 - 1 .. Len(s) /\ m \in k .. Len(s)
    BY <1>1
  <2> QED BY <2>1, ConcatAdjacentSubSeq
<1>4. SubSeq(s, 1, m) \o SubSeq(s, m + 1, Len(s)) = SubSeq(s, 1, Len(s))
  <2>1. 1 \in 1 .. Len(s) + 1 /\ m \in 1 - 1 .. Len(s) /\ Len(s) \in m .. Len(s)
    BY <1>1
  <2> QED BY <2>1, ConcatAdjacentSubSeq
<1>5. SubSeq(s, 1, Len(s)) = s
  BY SubSeqFull
<1> DEFINE a == SubSeq(s, 1, j)
           h == SubSeq(s, j + 1, k)
           y == SubSeq(s, k + 1, m)
           q == SubSeq(s, m + 1, Len(s))
<1>6. Joined(a, h, y, q) = ((a \o h) \o y) \o q
  BY DEF Joined
<1> QED BY <1>2, <1>3, <1>4, <1>5, <1>6

\* Parts of one and of two characters.
LEMMA ShortParts ==
    ASSUME NEW s \in Seq(Symbols), NEW j \in 1 .. Len(s)
    PROVE  /\ SubSeq(s, j, j) = <<s[j]>>
           /\ j + 1 <= Len(s) => SubSeq(s, j, j + 1) = <<s[j], s[j + 1]>>
<1>1. Len(s) \in Nat /\ s[j] \in Symbols
  OBVIOUS
<1>2. SubSeq(s, j, j) = <<s[j]>>
  <2> DEFINE h == <<s[j]>>
  <2>1. h \in Seq(Symbols) /\ Len(h) = 1 /\ h[1] = s[j]
    BY <1>1
  <2>2. j \in 1 .. Len(s) + 1 /\ j \in j - 1 .. Len(s) /\ (j - j) + 1 = 1 /\ (j - 1) + 1 = j
    BY <1>1
  <2>3. \A m \in 1 .. Len(h) : h[m] = s[(j - 1) + m]
    BY <2>1, <2>2
  <2> HIDE DEF h
  <2>4. h = SubSeq(s, j, j)
    BY <2>1, <2>2, <2>3, PartIs
  <2> QED BY <2>4 DEF h
<1>3. ASSUME j + 1 <= Len(s) PROVE SubSeq(s, j, j + 1) = <<s[j], s[j + 1]>>
  <2> DEFINE h == <<s[j], s[j + 1]>>
  <2>0. s[j + 1] \in Symbols
    BY <1>1, <1>3
  <2>1. h \in Seq(Symbols) /\ Len(h) = 2 /\ h[1] = s[j] /\ h[2] = s[j + 1]
    BY <1>1, <2>0
  <2>2. j \in 1 .. Len(s) + 1 /\ j + 1 \in j - 1 .. Len(s) /\ ((j + 1) - j) + 1 = 2
        /\ (j - 1) + 1 = j /\ (j - 1) + 2 = j + 1
    BY <1>1, <1>3
  <2>3. \A m \in 1 .. Len(h) : h[m] = s[(j - 1) + m]
    BY <2>1, <2>2
  <2> HIDE DEF h
  <2>4. h = SubSeq(s, j, j + 1)
    BY <2>1, <2>2, <2>3, PartIs
  <2> QED BY <2>4 DEF h
<1> QED BY <1>2, <1>3

\* A host and a port around a colon are an endpoint.
LEMMA PlainMakes ==
    ASSUME NEW s, Endpointlike(s), NEW c0 \in 3 .. Len(s), s[c0] = ":", s[2] # "[",
           \A k \in 2 .. c0 - 1 : s[k] # ":"
    PROVE  Redirect!IsEndpoint(s, SubSeq(s, 2, c0 - 1), Redirect!From(s, c0 + 1))
<1> DEFINE h == SubSeq(s, 2, c0 - 1)
           q == Redirect!From(s, c0 + 1)
<1>1. s \in Seq(Symbols) /\ Len(s) \in Nat /\ s[1] = Redirect!Prefix /\ Len(s) >= 1
  BY DEF Endpointlike
<1>2. s = Joined(SubSeq(s, 1, 1), SubSeq(s, 1 + 1, c0 - 1), SubSeq(s, (c0 - 1) + 1, c0),
                 SubSeq(s, c0 + 1, Len(s)))
  <2>1. 1 \in 0 .. Len(s) /\ c0 - 1 \in 1 .. Len(s) /\ c0 \in c0 - 1 .. Len(s)
    BY <1>1
  <2> QED BY <1>1, <2>1, Rejoined
<1>3. SubSeq(s, 1, 1) = <<Redirect!Prefix>> /\ SubSeq(s, c0, c0) = <<":">>
  <2>1. 1 \in 1 .. Len(s) /\ c0 \in 1 .. Len(s)
    BY <1>1
  <2> QED BY <1>1, <2>1, ShortParts
<1>4. 1 + 1 = 2 /\ (c0 - 1) + 1 = c0
  BY <1>1
<1>5. s = Joined(<<Redirect!Prefix>>, h, <<":">>, q)
  BY <1>2, <1>3, <1>4 DEF Redirect!From
<1>6. h \in Seq(Symbols) /\ Len(h) = c0 - 2 /\ \A k \in 1 .. c0 - 2 : h[k] = s[1 + k]
  <2>1. 2 \in 1 .. Len(s) + 1 /\ c0 - 1 \in 2 - 1 .. Len(s) /\ ((c0 - 1) - 2) + 1 = c0 - 2
        /\ 2 - 1 = 1
    BY <1>1
  <2> QED BY <1>1, <2>1, PartIs
<1> HIDE DEF h, q
<1>7. h # <<>> /\ h[1] # "["
  <2>1. 1 \in 1 .. c0 - 2 /\ Len(<<>>) = 0
    OBVIOUS
  <2> QED BY <1>4, <1>6, <2>1
<1>8. ":" \notin Redirect!ToSet(h)
  <2>1. ASSUME NEW k \in 1 .. Len(h) PROVE h[k] # ":"
    <3>1. k \in 1 .. c0 - 2 /\ 1 + k \in 2 .. c0 - 1
      BY <1>6
    <3> QED BY <1>6, <3>1
  <2>2. DOMAIN h = 1 .. Len(h)
    BY <1>6
  <2> QED BY <2>1, <2>2 DEF Redirect!ToSet
<1>9. s = <<Redirect!Prefix>> \o h \o <<":">> \o q
  BY <1>5 DEF Joined
<1> QED BY <1>7, <1>8, <1>9 DEF Redirect!IsEndpoint, h, q

\* So are a host in brackets and a port.
LEMMA BracketMakes ==
    ASSUME NEW s, Endpointlike(s), NEW d \in 4 .. Len(s) - 1, s[d] = "]", s[d + 1] = ":",
           s[2] = "[", \A k \in 3 .. d - 1 : s[k] # "]"
    PROVE  Redirect!IsEndpoint(s, SubSeq(s, 3, d - 1), Redirect!From(s, d + 2))
<1> DEFINE h == SubSeq(s, 3, d - 1)
           q == Redirect!From(s, d + 2)
<1>1. s \in Seq(Symbols) /\ Len(s) \in Nat /\ s[1] = Redirect!Prefix /\ Len(s) >= 1
  BY DEF Endpointlike
<1>2. s = Joined(SubSeq(s, 1, 2), SubSeq(s, 2 + 1, d - 1), SubSeq(s, (d - 1) + 1, d + 1),
                 SubSeq(s, (d + 1) + 1, Len(s)))
  <2>1. 2 \in 0 .. Len(s) /\ d - 1 \in 2 .. Len(s) /\ d + 1 \in d - 1 .. Len(s)
    BY <1>1
  <2> QED BY <1>1, <2>1, Rejoined
<1>3. SubSeq(s, 1, 2) = <<Redirect!Prefix, "[">> /\ SubSeq(s, d, d + 1) = <<"]", ":">>
  <2>1. 1 \in 1 .. Len(s) /\ d \in 1 .. Len(s) /\ 1 + 1 <= Len(s) /\ d + 1 <= Len(s) /\ 1 + 1 = 2
    BY <1>1
  <2> QED BY <1>1, <2>1, ShortParts
<1>4. 2 + 1 = 3 /\ (d - 1) + 1 = d /\ (d + 1) + 1 = d + 2
  BY <1>1
<1>5. s = Joined(<<Redirect!Prefix, "[">>, h, <<"]", ":">>, q)
  BY <1>2, <1>3, <1>4 DEF Redirect!From
<1>6. h \in Seq(Symbols) /\ Len(h) = d - 3 /\ \A k \in 1 .. d - 3 : h[k] = s[2 + k]
  <2>1. 3 \in 1 .. Len(s) + 1 /\ d - 1 \in 3 - 1 .. Len(s) /\ ((d - 1) - 3) + 1 = d - 3
        /\ 3 - 1 = 2
    BY <1>1
  <2> QED BY <1>1, <2>1, PartIs
<1> HIDE DEF h, q
<1>7. h # <<>>
  <2>1. Len(h) # 0 /\ Len(<<>>) = 0
    BY <1>6
  <2> QED BY <2>1
<1>8. "]" \notin Redirect!ToSet(h)
  <2>1. ASSUME NEW k \in 1 .. Len(h) PROVE h[k] # "]"
    <3>1. k \in 1 .. d - 3 /\ 2 + k \in 3 .. d - 1
      BY <1>6
    <3> QED BY <1>6, <3>1
  <2>2. DOMAIN h = 1 .. Len(h)
    BY <1>6
  <2> QED BY <2>1, <2>2 DEF Redirect!ToSet
<1>9. s = <<Redirect!Prefix, "[">> \o h \o <<"]", ":">> \o q
  BY <1>5 DEF Joined
<1> QED BY <1>7, <1>8, <1>9 DEF Redirect!IsEndpoint, h, q

\* No endpoints, and those of the only way to cut a text.
Hosts(s) == {SubSeq(s, j, k) : j \in {2, 3}, k \in 2 .. Len(s)}
Rests(s) == {Redirect!From(s, k) : k \in 2 .. Len(s) + 1}
Cuts(s) == {x \in Hosts(s) \X Rests(s) : Redirect!IsEndpoint(s, x[1], x[2])}

\* The endpoints are those of the cuts.
LEMMA CutsAre ==
    ASSUME NEW s, Endpointlike(s)
    PROVE  /\ Redirect!Endpoints(s)
                = UNION {{Redirect!Tcp(x[1], v) : v \in Redirect!Ports(x[2])} : x \in Cuts(s)}
           /\ \A x \in Cuts(s) : /\ x[1] \in Seq(Symbols) /\ x[2] \in Seq(Symbols)
                                 /\ Redirect!IsEndpoint(s, x[1], x[2]) /\ x = <<x[1], x[2]>>
<1>1. s \in Seq(Symbols) /\ Len(s) \in Nat
  BY DEF Endpointlike
<1>2. ASSUME NEW j \in {2, 3}, NEW k \in 2 .. Len(s) PROVE SubSeq(s, j, k) \in Seq(Symbols)
  <2>1. j \in 1 .. Len(s) + 1 /\ k \in j - 1 .. Len(s)
    BY <1>1
  <2> QED BY <1>1, <2>1, PartIs
<1>3. ASSUME NEW k \in 2 .. Len(s) + 1 PROVE Redirect!From(s, k) \in Seq(Symbols)
  <2>1. k \in 1 .. Len(s) + 1 /\ Len(s) \in k - 1 .. Len(s)
    BY <1>1
  <2> QED BY <1>1, <2>1, PartIs DEF Redirect!From
<1>4. Hosts(s) \subseteq Seq(Symbols) /\ Rests(s) \subseteq Seq(Symbols)
  <2>1. ASSUME NEW h \in Hosts(s) PROVE h \in Seq(Symbols)
    <3>1. PICK j \in {2, 3}, k \in 2 .. Len(s) : h = SubSeq(s, j, k)
      BY DEF Hosts
    <3> QED BY <1>2, <3>1, Zenon
  <2>2. ASSUME NEW q \in Rests(s) PROVE q \in Seq(Symbols)
    <3>1. PICK k \in 2 .. Len(s) + 1 : q = Redirect!From(s, k)
      BY DEF Rests
    <3> QED BY <1>3, <3>1, Zenon
  <2> QED BY <2>1, <2>2
<1>5. \A x \in Cuts(s) : /\ x[1] \in Seq(Symbols) /\ x[2] \in Seq(Symbols)
                         /\ Redirect!IsEndpoint(s, x[1], x[2]) /\ x = <<x[1], x[2]>>
  BY <1>4 DEF Cuts
<1>6. Redirect!Endpoints(s)
      = UNION {{Redirect!Tcp(x[1], v) : v \in Redirect!Ports(x[2])} : x \in Cuts(s)}
  BY DEF Redirect!Endpoints, Cuts, Hosts, Rests
<1> QED BY <1>5, <1>6

\* No cut with a port, no endpoint.
LEMMA NoEndpoints ==
    ASSUME NEW s, Endpointlike(s),
           \A h \in Seq(Symbols), q \in Seq(Symbols) :
             Redirect!IsEndpoint(s, h, q) => Redirect!Ports(q) = {}
    PROVE  Redirect!Endpoints(s) = {}
<1>1. ASSUME NEW x \in Cuts(s) PROVE Redirect!Ports(x[2]) = {}
  BY CutsAre
<1>2. \A x \in Cuts(s) : {Redirect!Tcp(x[1], v) : v \in Redirect!Ports(x[2])} = {}
  BY <1>1
<1> QED BY <1>2, CutsAre

\* One cut, and the endpoints are its own.
LEMMA OneCut ==
    ASSUME NEW s, Endpointlike(s), NEW h0 \in Hosts(s), NEW q0 \in Rests(s),
           Redirect!IsEndpoint(s, h0, q0),
           \A h \in Seq(Symbols), q \in Seq(Symbols) :
             Redirect!IsEndpoint(s, h, q) => h = h0 /\ q = q0
    PROVE  Redirect!Endpoints(s) = {Redirect!Tcp(h0, v) : v \in Redirect!Ports(q0)}
<1> DEFINE x0 == <<h0, q0>>
           E(x) == {Redirect!Tcp(x[1], v) : v \in Redirect!Ports(x[2])}
<1>1. x0 \in Cuts(s)
  BY DEF Cuts
<1>2. ASSUME NEW x \in Cuts(s) PROVE x = x0
  BY CutsAre
<1>3. Cuts(s) = {x0}
  BY <1>1, <1>2
<1>4. Redirect!Endpoints(s) = UNION {E(x) : x \in {x0}}
  BY <1>3, CutsAre
<1>5. E(x0) = {Redirect!Tcp(h0, v) : v \in Redirect!Ports(q0)}
  OBVIOUS
<1> HIDE DEF E
<1>6. UNION {E(x) : x \in {x0}} = E(x0)
  OBVIOUS
<1> QED BY <1>4, <1>5, <1>6

\* What comes behind the prefix, by its place in the whole text.
BehindPrefix(s, a) ==
    /\ a \in Seq(Symbols) /\ Len(a) = Len(s) - 1 /\ (a = <<>> <=> Len(s) = 1)
    /\ \A k \in 1 .. Len(a) : a[k] = s[k + 1]
    /\ \A j \in 1 .. Len(a) + 1 : \A k \in j - 1 .. Len(a) :
         SubSeq(a, j, k) = SubSeq(s, j + 1, k + 1)
    /\ \A k \in 1 .. Len(a) + 1 : Redirect!From(a, k) = Redirect!From(s, k + 1)

\* Tail(s) is what is behind the prefix.
LEMMA TailIs == ASSUME NEW s, Endpointlike(s) PROVE BehindPrefix(s, Tail(s))
<1> DEFINE a == Tail(s)
<1>1. s \in Seq(Symbols) /\ Len(s) \in Nat /\ Len(s) >= 1
  BY DEF Endpointlike
<1>2. a \in Seq(Symbols) /\ Len(a) = Len(s) - 1 /\ \A k \in 1 .. Len(s) - 1 : a[k] = s[k + 1]
  BY <1>1
<1> HIDE DEF a
<1>3. a = <<>> <=> Len(s) = 1
  <2>1. a = <<>> <=> Len(a) = 0
    BY <1>2
  <2> QED BY <1>1, <1>2, <2>1
<1>4. ASSUME NEW j \in 1 .. Len(a) + 1, NEW k \in j - 1 .. Len(a)
      PROVE  SubSeq(a, j, k) = SubSeq(s, j + 1, k + 1)
  <2> DEFINE h == SubSeq(a, j, k)
  <2>1. h \in Seq(Symbols) /\ Len(h) = (k - j) + 1
        /\ \A m \in 1 .. (k - j) + 1 : h[m] = a[(j - 1) + m]
    BY <1>2, PartIs
  <2> HIDE DEF h
  <2>2. j + 1 \in 1 .. Len(s) + 1 /\ k + 1 \in (j + 1) - 1 .. Len(s)
        /\ ((k + 1) - (j + 1)) + 1 = (k - j) + 1
    BY <1>1, <1>2
  <2>3. ASSUME NEW m \in 1 .. Len(h) PROVE h[m] = s[((j + 1) - 1) + m]
    <3>1. (j - 1) + m \in 1 .. Len(s) - 1 /\ ((j - 1) + m) + 1 = ((j + 1) - 1) + m
          /\ m \in 1 .. (k - j) + 1
      BY <1>1, <1>2, <2>1
    <3>2. h[m] = a[(j - 1) + m] /\ a[(j - 1) + m] = s[((j - 1) + m) + 1]
      BY <1>2, <2>1, <3>1
    <3> QED BY <3>1, <3>2
  <2>4. h = SubSeq(s, j + 1, k + 1)
    BY <1>1, <2>1, <2>2, <2>3, PartIs
  <2> QED BY <2>4 DEF h
<1>5. ASSUME NEW k \in 1 .. Len(a) + 1 PROVE Redirect!From(a, k) = Redirect!From(s, k + 1)
  <2>1. Len(a) \in k - 1 .. Len(a) /\ Len(a) + 1 = Len(s)
    BY <1>1, <1>2
  <2>2. SubSeq(a, k, Len(a)) = SubSeq(s, k + 1, Len(a) + 1)
    BY <1>4, <2>1
  <2> QED BY <2>1, <2>2 DEF Redirect!From
<1>6. \A k \in 1 .. Len(a) : a[k] = s[k + 1]
  BY <1>2
<1>7. BehindPrefix(s, a)
  BY <1>2, <1>3, <1>4, <1>5, <1>6 DEF BehindPrefix
<1> QED BY <1>7 DEF a

\* What is read as a port has no prefix in it.
LEMMA RestIs ==
    ASSUME NEW s, Endpointlike(s), NEW k \in 2 .. Len(s) + 1
    PROVE  Redirect!From(s, k) \in Seq(Redirect!Chars)
<1> DEFINE q == SubSeq(s, k, Len(s))
<1>1. s \in Seq(Symbols) /\ Len(s) \in Nat /\ \A m \in 2 .. Len(s) : s[m] \in Redirect!Chars
  BY DEF Endpointlike
<1>2. k \in 1 .. Len(s) + 1 /\ Len(s) \in k - 1 .. Len(s)
  BY <1>1
<1>3. q \in Seq(Symbols) /\ Len(q) = (Len(s) - k) + 1
      /\ \A m \in 1 .. (Len(s) - k) + 1 : q[m] = s[(k - 1) + m]
  BY <1>1, <1>2, PartIs
<1> HIDE DEF q
<1>4. ASSUME NEW m \in 1 .. Len(q) PROVE q[m] \in Redirect!Chars
  <2>1. m \in 1 .. (Len(s) - k) + 1 /\ (k - 1) + m \in 2 .. Len(s)
    BY <1>1, <1>3
  <2> QED BY <1>1, <1>3, <2>1
<1>5. q \in Seq(Redirect!Chars)
  <2>1. Len(q) \in Nat /\ q = [m \in 1 .. Len(q) |-> q[m]]
    BY <1>3
  <2> QED BY <1>4, <2>1
<1> QED BY <1>5 DEF q, Redirect!From

\* The reference of a text that stays is the same after the step.
LEMMA SameTarget ==
    ASSUME target' = target
    PROVE  /\ Redirect!IsTcp(target)' = Redirect!IsTcp(target)
           /\ Redirect!Endpoints(target)' = Redirect!Endpoints(target)
           /\ Redirect!File(target)' = Redirect!File(target)
BY DEF Redirect!IsTcp, Redirect!Endpoints, Redirect!File

\* redirect_set of a host and a port that are the only way to cut the text does
\* what the reference says.
LEMMA SetEndpointRight ==
    ASSUME r = Redirect!None, target' = target, Redirect!IsTcp(target),
           NEW h, NEW q \in Seq(Redirect!Chars),
           Redirect!Endpoints(target)
           = IF h = <<>> THEN {} ELSE {Redirect!Tcp(h, v) : v \in Redirect!Ports(q)},
           Redirect!SetEndpoint(h, q)
    PROVE  Redirect!MeetsReference'
<1> DEFINE v0 == Redirect!strtol(q).v
<1>1. CASE h # <<>> /\ Redirect!parse_port(q)
  <2>1. result' = "success" /\ r' = Redirect!Tcp(h, v0)
    BY <1>1 DEF Redirect!SetEndpoint
  <2>2. Redirect!Ports(q) = {v0}
    BY <1>1, PortsAre
  <2> HIDE DEF v0
  <2>3. Redirect!Endpoints(target) = {r'}
    BY <1>1, <2>1, <2>2
  <2> QED BY <2>1, <2>3, SameTarget DEF Redirect!MeetsReference
<1>2. CASE h = <<>> \/ ~Redirect!parse_port(q)
  <2>1. result' # "success" /\ r' = r
    BY <1>2 DEF Redirect!SetEndpoint
  <2>2. h # <<>> => Redirect!Ports(q) = {}
    BY <1>2, PortsAre
  <2>3. Redirect!Endpoints(target) = {}
    BY <2>2
  <2> QED BY <2>1, <2>3, SameTarget DEF Redirect!MeetsReference
<1> QED BY <1>1, <1>2

\* A text with no reading may be refused.
LEMMA RefuseRight ==
    ASSUME r = Redirect!None, target' = target, Redirect!IsTcp(target),
           Redirect!Endpoints(target) = {}, NEW why, Redirect!Refuse(why)
    PROVE  Redirect!MeetsReference'
BY SameTarget DEF Redirect!Refuse, Redirect!MeetsReference

\* redirect_set of an endpoint in brackets.
LEMMA BracketsRight ==
    ASSUME r = Redirect!None, target' = target, Redirect!IsTcp(target),
           Endpointlike(target), NEW a, BehindPrefix(target, a), a # <<>>, a[1] = "[",
           NEW why,
           LET close == Redirect!strchr(a, "]")
           IN IF close = 0 \/ close = Len(a) \/ a[close + 1] # ":"
              THEN Redirect!Refuse(why)
              ELSE Redirect!SetEndpoint(SubSeq(a, 2, close - 1), Redirect!From(a, close + 2))
    PROVE  Redirect!MeetsReference'
<1> DEFINE n == Len(target)
           close == Redirect!strchr(a, "]")
<1>1. n \in Nat /\ n >= 2 /\ Len(a) = n - 1 /\ target[2] = "["
      /\ \A k \in 1 .. n - 1 : a[k] = target[k + 1]
  BY DEF Endpointlike, BehindPrefix
<1>2. \/ close = 0 /\ \A j \in 1 .. n - 1 : a[j] # "]"
      \/ /\ close \in 1 .. n - 1 /\ a[close] = "]"
         /\ \A j \in 1 .. close - 1 : a[j] # "]"
  <2>1. Len(a) \in Nat
    BY <1>1
  <2> QED BY <1>1, <2>1, FirstIs
<1> HIDE DEF close
<1>3. ASSUME NEW h \in Seq(Symbols), NEW q \in Seq(Symbols), Redirect!IsEndpoint(target, h, q)
      PROVE  /\ close \in 3 .. n - 2 /\ a[close + 1] = ":"
             /\ h = SubSeq(target, 3, close) /\ q = Redirect!From(target, close + 3)
  <2>1. PICK d \in 4 .. n - 1 :
          /\ target[d] = "]" /\ target[d + 1] = ":" /\ \A k \in 3 .. d - 1 : target[k] # "]"
          /\ h = SubSeq(target, 3, d - 1) /\ q = Redirect!From(target, d + 2)
    BY <1>1, <1>3, BracketReads
  <2>2. d - 1 \in 1 .. n - 1 /\ a[d - 1] = "]"
    <3>1. d - 1 \in 1 .. n - 1 /\ (d - 1) + 1 = d
      BY <1>1
    <3> QED BY <1>1, <2>1, <3>1
  <2>3. ASSUME NEW j \in 1 .. d - 2 PROVE a[j] # "]"
    <3>1. j \in 1 .. n - 1 /\ (j = 1 \/ j + 1 \in 3 .. d - 1)
      BY <1>1
    <3>2. CASE j = 1
      BY <1>1, <3>1, <3>2
    <3>3. CASE j + 1 \in 3 .. d - 1
      BY <1>1, <2>1, <3>1, <3>3
    <3> QED BY <3>1, <3>2, <3>3
  <2>4. close = d - 1
    <3>1. close # 0 /\ close \in 1 .. n - 1 /\ a[close] = "]"
          /\ \A j \in 1 .. close - 1 : a[j] # "]"
      BY <1>2, <2>2
    <3>2. ~(close \in 1 .. d - 2) /\ ~(d - 1 \in 1 .. close - 1)
      BY <2>2, <2>3, <3>1
    <3> QED BY <1>1, <3>1, <3>2
  <2>5. close + 1 = d /\ close + 3 = d + 2 /\ close \in 3 .. n - 2 /\ close + 1 \in 1 .. n - 1
        /\ (close + 1) + 1 = d + 1
    BY <1>1, <2>4
  <2>6. a[close + 1] = target[d + 1]
    BY <1>1, <2>5
  <2> QED BY <2>1, <2>4, <2>5, <2>6
<1>4. CASE close = 0 \/ close = Len(a) \/ a[close + 1] # ":"
  <2>1. Redirect!Refuse(why)
    BY <1>4 DEF close
  <2>2. \A h \in Seq(Symbols), q \in Seq(Symbols) : ~Redirect!IsEndpoint(target, h, q)
    <3>1. Len(a) \notin 3 .. n - 2 /\ 0 \notin 3 .. n - 2
      BY <1>1
    <3> QED BY <1>3, <1>4, <3>1
  <2>3. Redirect!Endpoints(target) = {}
    BY <2>2, NoEndpoints
  <2> QED BY <2>1, <2>3, RefuseRight
<1>5. CASE close # 0 /\ close # Len(a) /\ a[close + 1] = ":"
  <2> DEFINE h0 == SubSeq(target, 3, close)
             q0 == Redirect!From(target, close + 3)
  <2>1. close \in 2 .. n - 2 /\ a[close] = "]" /\ \A j \in 1 .. close - 1 : a[j] # "]"
    <3>1. close \in 1 .. n - 1 /\ a[close] = "]" /\ \A j \in 1 .. close - 1 : a[j] # "]"
      BY <1>2, <1>5
    <3>2. close # 1 /\ close # n - 1
      BY <1>1, <1>5, <3>1
    <3> QED BY <1>1, <3>1, <3>2
  <2>2. SubSeq(a, 2, close - 1) = h0 /\ Redirect!From(a, close + 2) = q0
    <3>1. 2 \in 1 .. Len(a) + 1 /\ close - 1 \in 2 - 1 .. Len(a) /\ close + 2 \in 1 .. Len(a) + 1
          /\ 2 + 1 = 3 /\ (close - 1) + 1 = close /\ (close + 2) + 1 = close + 3
      BY <1>1, <2>1
    <3>2. SubSeq(a, 2, close - 1) = SubSeq(target, 2 + 1, (close - 1) + 1)
          /\ Redirect!From(a, close + 2) = Redirect!From(target, (close + 2) + 1)
      BY <3>1 DEF BehindPrefix
    <3> QED BY <3>1, <3>2
  <2>3. Redirect!SetEndpoint(h0, q0)
    <3>1. Redirect!SetEndpoint(SubSeq(a, 2, close - 1), Redirect!From(a, close + 2))
      BY <1>5 DEF close
    <3> HIDE DEF h0, q0
    <3> QED BY <2>2, <3>1
  <2>4. q0 \in Seq(Redirect!Chars)
    <3>1. close + 3 \in 2 .. n + 1
      BY <1>1, <2>1
    <3> QED BY <3>1, RestIs
  <2>5. Redirect!Endpoints(target)
        = IF h0 = <<>> THEN {} ELSE {Redirect!Tcp(h0, v) : v \in Redirect!Ports(q0)}
    <3>1. target \in Seq(Symbols) /\ Len(h0) = close - 2
      <4>1. 3 \in 1 .. n + 1 /\ close \in 3 - 1 .. n /\ (close - 3) + 1 = close - 2
        BY <1>1, <2>1
      <4>2. target \in Seq(Symbols)
        BY DEF Endpointlike
      <4> QED BY <4>1, <4>2, PartIs
    <3>2. CASE close = 2
      <4>1. h0 = <<>>
        <5>1. h0 \in Seq(Symbols)
          <6>1. 3 \in 1 .. n + 1 /\ close \in 3 - 1 .. n
            BY <1>1, <2>1
          <6> QED BY <3>1, <6>1, PartIs
        <5>2. Len(h0) = 0
          BY <3>1, <3>2
        <5> HIDE DEF h0
        <5> QED BY <5>1, <5>2
      <4>2. \A h \in Seq(Symbols), q \in Seq(Symbols) : ~Redirect!IsEndpoint(target, h, q)
        <5>1. close \notin 3 .. n - 2
          BY <3>2
        <5> QED BY <1>3, <5>1
      <4>3. Redirect!Endpoints(target) = {}
        BY <4>2, NoEndpoints
      <4> HIDE DEF h0, q0
      <4> QED BY <4>1, <4>3
    <3>3. CASE close # 2
      <4>1. close + 1 \in 4 .. n - 1 /\ (close + 1) - 1 = close /\ (close + 1) + 2 = close + 3
            /\ close \in 1 .. n - 1 /\ close + 1 \in 1 .. n - 1
        BY <1>1, <2>1, <3>3
      <4>2. target[close + 1] = "]" /\ target[(close + 1) + 1] = ":"
        BY <1>1, <1>5, <2>1, <4>1
      <4>3. ASSUME NEW k \in 3 .. (close + 1) - 1 PROVE target[k] # "]"
        <5>1. k - 1 \in 1 .. close - 1 /\ k - 1 \in 1 .. n - 1 /\ (k - 1) + 1 = k
          BY <1>1, <2>1, <4>1
        <5> QED BY <1>1, <2>1, <5>1
      <4>4. Redirect!IsEndpoint(target, h0, q0)
        <5>1. Redirect!IsEndpoint(target, SubSeq(target, 3, (close + 1) - 1),
                                  Redirect!From(target, (close + 1) + 2))
          BY <1>1, <4>1, <4>2, <4>3, BracketMakes
        <5> QED BY <4>1, <5>1
      <4>5. h0 \in Hosts(target) /\ q0 \in Rests(target)
        <5>1. 3 \in {2, 3} /\ close \in 2 .. n /\ close + 3 \in 2 .. n + 1
          BY <1>1, <2>1
        <5>2. h0 \in Hosts(target)
          BY <5>1 DEF Hosts
        <5>3. q0 \in Rests(target)
          BY <5>1 DEF Rests
        <5> QED BY <5>2, <5>3
      <4>6. h0 # <<>>
        BY <4>4 DEF Redirect!IsEndpoint
      <4>7. \A h \in Seq(Symbols), q \in Seq(Symbols) :
              Redirect!IsEndpoint(target, h, q) => h = h0 /\ q = q0
        BY <1>3
      <4> HIDE DEF h0, q0
      <4>8. Redirect!Endpoints(target) = {Redirect!Tcp(h0, v) : v \in Redirect!Ports(q0)}
        BY <4>4, <4>5, <4>7, OneCut
      <4> QED BY <4>6, <4>8
    <3> QED BY <3>2, <3>3
  <2> HIDE DEF h0, q0
  <2> QED BY <2>3, <2>4, <2>5, SetEndpointRight
<1> QED BY <1>4, <1>5

\* redirect_set of an endpoint without brackets.
LEMMA PlainRight ==
    ASSUME r = Redirect!None, target' = target, Redirect!IsTcp(target),
           Endpointlike(target), NEW a, BehindPrefix(target, a), a = <<>> \/ a[1] # "[",
           NEW why,
           LET colon == Redirect!strrchr(a, ":")
           IN IF colon = 0 \/ Redirect!strchr(a, ":") # colon
              THEN Redirect!Refuse(why)
              ELSE Redirect!SetEndpoint(SubSeq(a, 1, colon - 1), Redirect!From(a, colon + 1))
    PROVE  Redirect!MeetsReference'
<1> DEFINE n == Len(target)
           first == Redirect!strchr(a, ":")
           colon == Redirect!strrchr(a, ":")
<1>1. n \in Nat /\ n >= 1 /\ Len(a) = n - 1 /\ (n = 1 \/ target[2] # "[")
      /\ \A k \in 1 .. n - 1 : a[k] = target[k + 1]
  <2>1. n \in Nat /\ n >= 1 /\ Len(a) = n - 1 /\ (a = <<>> <=> n = 1)
        /\ \A k \in 1 .. n - 1 : a[k] = target[k + 1]
    BY DEF Endpointlike, BehindPrefix
  <2>2. n # 1 => target[2] = a[1]
    BY <2>1
  <2> QED BY <2>1, <2>2
<1>2. \/ first = 0 /\ \A j \in 1 .. n - 1 : a[j] # ":"
      \/ first \in 1 .. n - 1 /\ a[first] = ":" /\ \A j \in 1 .. first - 1 : a[j] # ":"
  <2>1. Len(a) \in Nat
    BY <1>1
  <2> QED BY <1>1, <2>1, FirstIs
<1>3. \/ colon = 0 /\ \A j \in 1 .. n - 1 : a[j] # ":"
      \/ colon \in 1 .. n - 1 /\ a[colon] = ":" /\ \A j \in 1 .. n - 1 : a[j] = ":" => j <= colon
  <2>1. Len(a) \in Nat
    BY <1>1
  <2> QED BY <1>1, <2>1, LastIs
<1> HIDE DEF first, colon
<1>4. ASSUME NEW h \in Seq(Symbols), NEW q \in Seq(Symbols), Redirect!IsEndpoint(target, h, q)
      PROVE  /\ first \in 2 .. n - 1
             /\ h = SubSeq(target, 2, first) /\ q = Redirect!From(target, first + 2)
  <2>1. CASE target[2] = "["
    <3>1. PICK d \in 4 .. n - 1 : target[d] = "]"
      BY <1>4, <2>1, BracketReads
    <3>2. n # 1
      BY <1>1, <3>1
    <3> QED BY <1>1, <2>1, <3>2
  <2>2. CASE target[2] # "["
    <3>1. PICK c0 \in 3 .. n :
            /\ target[c0] = ":" /\ \A k \in 2 .. c0 - 1 : target[k] # ":"
            /\ h = SubSeq(target, 2, c0 - 1) /\ q = Redirect!From(target, c0 + 1)
      BY <1>1, <1>4, <2>2, PlainReads
    <3>2. c0 - 1 \in 1 .. n - 1 /\ a[c0 - 1] = ":"
      <4>1. c0 - 1 \in 1 .. n - 1 /\ (c0 - 1) + 1 = c0
        BY <1>1
      <4> QED BY <1>1, <3>1, <4>1
    <3>3. ASSUME NEW j \in 1 .. c0 - 2 PROVE a[j] # ":"
      <4>1. j \in 1 .. n - 1 /\ j + 1 \in 2 .. c0 - 1
        BY <1>1
      <4> QED BY <1>1, <3>1, <4>1
    <3>4. first = c0 - 1
      <4>1. first \in 1 .. n - 1 /\ a[first] = ":" /\ \A j \in 1 .. first - 1 : a[j] # ":"
        BY <1>2, <3>2
      <4>2. ~(first \in 1 .. c0 - 2) /\ ~(c0 - 1 \in 1 .. first - 1)
        BY <3>2, <3>3, <4>1
      <4> QED BY <1>1, <4>1, <4>2
    <3>5. first \in 2 .. n - 1 /\ first + 2 = c0 + 1
      BY <1>1, <3>4
    <3> QED BY <3>1, <3>4, <3>5
  <2> QED BY <2>1, <2>2
<1>5. CASE colon = 0 \/ first # colon
  <2>1. Redirect!Refuse(why)
    BY <1>5 DEF colon, first
  <2>2. ASSUME NEW h \in Seq(Symbols), NEW q \in Seq(Symbols), Redirect!IsEndpoint(target, h, q)
        PROVE  Redirect!Ports(q) = {}
    <3>1. first \in 2 .. n - 1 /\ q = SubSeq(target, first + 2, n)
      BY <1>4, <2>2 DEF Redirect!From
    <3>2. first \in 1 .. n - 1 /\ first # 0 /\ a[first] = ":"
      <4>1. first # 0
        BY <3>1
      <4> QED BY <1>2, <4>1
    <3>3. colon \in 1 .. n - 1 /\ a[colon] = ":" /\ first <= colon /\ first # colon
      BY <1>3, <1>5, <3>2
    <3>4. target \in Seq(Symbols)
      BY DEF Endpointlike
    <3>5. first + 2 \in 1 .. n + 1 /\ n \in (first + 2) - 1 .. n
      BY <1>1, <3>1
    <3>6. Len(q) = (n - (first + 2)) + 1
          /\ \A m \in 1 .. (n - (first + 2)) + 1 : q[m] = target[((first + 2) - 1) + m]
      <4> HIDE DEF n
      <4> QED BY <3>1, <3>4, <3>5, PartIs DEF n
    <3>7. colon - first \in 1 .. (n - (first + 2)) + 1
          /\ ((first + 2) - 1) + (colon - first) = colon + 1
      BY <1>1, <3>1, <3>3
    <3>8. q[colon - first] = ":"
      <4>1. q[colon - first] = target[((first + 2) - 1) + (colon - first)]
        BY <3>6, <3>7
      <4>2. a[colon] = target[colon + 1]
        BY <1>1, <3>3
      <4> QED BY <3>3, <3>7, <4>1, <4>2
    <3>9. Len(q) \in Nat /\ colon - first \in 1 .. Len(q)
      BY <1>1, <3>1, <3>6, <3>7
    <3> QED BY <3>8, <3>9, NoColon
  <2>3. Redirect!Endpoints(target) = {}
    BY <2>2, NoEndpoints
  <2> QED BY <2>1, <2>3, RefuseRight
<1>6. CASE colon # 0 /\ first = colon
  <2> DEFINE h0 == SubSeq(target, 2, first)
             q0 == Redirect!From(target, first + 2)
  <2>1. first \in 1 .. n - 1 /\ a[first] = ":" /\ \A j \in 1 .. first - 1 : a[j] # ":"
    BY <1>2, <1>6
  <2>2. SubSeq(a, 1, first - 1) = h0 /\ Redirect!From(a, first + 1) = q0
    <3>1. 1 \in 1 .. Len(a) + 1 /\ first - 1 \in 1 - 1 .. Len(a) /\ first + 1 \in 1 .. Len(a) + 1
          /\ 1 + 1 = 2 /\ (first - 1) + 1 = first /\ (first + 1) + 1 = first + 2
      BY <1>1, <2>1
    <3>2. SubSeq(a, 1, first - 1) = SubSeq(target, 1 + 1, (first - 1) + 1)
          /\ Redirect!From(a, first + 1) = Redirect!From(target, (first + 1) + 1)
      BY <3>1 DEF BehindPrefix
    <3> QED BY <3>1, <3>2
  <2>3. Redirect!SetEndpoint(h0, q0)
    <3>1. Redirect!SetEndpoint(SubSeq(a, 1, first - 1), Redirect!From(a, first + 1))
      BY <1>6 DEF colon, first
    <3> HIDE DEF h0, q0
    <3> QED BY <2>2, <3>1
  <2>4. q0 \in Seq(Redirect!Chars)
    <3>1. first + 2 \in 2 .. n + 1
      BY <1>1, <2>1
    <3> QED BY <3>1, RestIs
  <2>5. Redirect!Endpoints(target)
        = IF h0 = <<>> THEN {} ELSE {Redirect!Tcp(h0, v) : v \in Redirect!Ports(q0)}
    <3>1. CASE first = 1
      <4>1. h0 \in Seq(Symbols) /\ Len(h0) = 0
        <5>1. 2 \in 1 .. n + 1 /\ first \in 2 - 1 .. n /\ (first - 2) + 1 = 0
          BY <1>1, <2>1, <3>1
        <5>2. target \in Seq(Symbols)
          BY DEF Endpointlike
        <5> QED BY <5>1, <5>2, PartIs
      <4>2. \A h \in Seq(Symbols), q \in Seq(Symbols) : ~Redirect!IsEndpoint(target, h, q)
        <5>1. first \notin 2 .. n - 1
          BY <3>1
        <5> QED BY <1>4, <5>1
      <4>3. Redirect!Endpoints(target) = {}
        BY <4>2, NoEndpoints
      <4> HIDE DEF h0, q0
      <4>4. h0 = <<>>
        BY <4>1
      <4> QED BY <4>3, <4>4
    <3>2. CASE first # 1
      <4>1. first + 1 \in 3 .. n /\ (first + 1) - 1 = first /\ (first + 1) + 1 = first + 2
        BY <1>1, <2>1, <3>2
      <4>2. target[first + 1] = ":" /\ target[2] # "["
        <5>1. n # 1
          BY <1>1, <2>1
        <5> QED BY <1>1, <2>1, <5>1
      <4>3. ASSUME NEW k \in 2 .. (first + 1) - 1 PROVE target[k] # ":"
        <5>1. k - 1 \in 1 .. first - 1 /\ k - 1 \in 1 .. n - 1 /\ (k - 1) + 1 = k
          BY <1>1, <2>1, <4>1
        <5> QED BY <1>1, <2>1, <5>1
      <4>4. Redirect!IsEndpoint(target, h0, q0)
        <5>1. Redirect!IsEndpoint(target, SubSeq(target, 2, (first + 1) - 1),
                                  Redirect!From(target, (first + 1) + 1))
          BY <4>1, <4>2, <4>3, PlainMakes
        <5> QED BY <4>1, <5>1
      <4>5. h0 \in Hosts(target) /\ q0 \in Rests(target)
        <5>1. 2 \in {2, 3} /\ first \in 2 .. n /\ first + 2 \in 2 .. n + 1
          BY <1>1, <2>1, <3>2
        <5>2. h0 \in Hosts(target)
          BY <5>1 DEF Hosts
        <5>3. q0 \in Rests(target)
          BY <5>1 DEF Rests
        <5> QED BY <5>2, <5>3
      <4>6. h0 # <<>>
        BY <4>4 DEF Redirect!IsEndpoint
      <4>7. \A h \in Seq(Symbols), q \in Seq(Symbols) :
              Redirect!IsEndpoint(target, h, q) => h = h0 /\ q = q0
        BY <1>4
      <4> HIDE DEF h0, q0
      <4>8. Redirect!Endpoints(target) = {Redirect!Tcp(h0, v) : v \in Redirect!Ports(q0)}
        BY <4>4, <4>5, <4>7, OneCut
      <4> QED BY <4>6, <4>8
    <3> QED BY <3>1, <3>2
  <2> HIDE DEF h0, q0
  <2> QED BY <2>3, <2>4, <2>5, SetEndpointRight
<1> QED BY <1>5, <1>6

-----------------------------------------------------------------------------
RedirectInv == target \in Targets /\ Redirect!MeetsReference

\* A step of the parser is one of redirect_set, or leaves its state alone.
LEMMA RedirectSteps == [Next]_vars => [Redirect!Next]_redirectState
BY DEF Next, vars, TokNext, PipeNext, RedirectNext

\* Nothing is set and nothing said before the first call.
LEMMA InitRedirect == Init => RedirectInv
<1> SUFFICES ASSUME Init PROVE RedirectInv
  OBVIOUS
<1>1. target \in Targets
  <2>1. AnyTarget \in Targets
    BY TargetsAssumption DEF AnyTarget
  <2> QED BY <2>1 DEF Init
<1>2. r = Redirect!None /\ result = "not called"
  BY DEF Init, Redirect!Start
<1> QED BY <1>1, <1>2 DEF RedirectInv, Redirect!MeetsReference

\* Every call sets, or refuses, what the reference says.
LEMMA NextRedirect == RedirectInv /\ [Redirect!Next]_redirectState => RedirectInv'
<1> SUFFICES ASSUME RedirectInv, [Redirect!Next]_redirectState PROVE RedirectInv'
  OBVIOUS
<1>1. target' = target
  BY DEF Redirect!Next, Redirect!SetDuplicate, Redirect!SetFile, Redirect!SetTcp, redirectState
<1>2. Redirect!SetDuplicate => Redirect!MeetsReference'
  <2> SUFFICES ASSUME Redirect!SetDuplicate PROVE Redirect!MeetsReference'
    OBVIOUS
  <2>1. r' = r /\ result' = "duplicate redirection"
    BY DEF Redirect!SetDuplicate, Redirect!Refuse
  <2> QED BY <1>1, <2>1, SameTarget DEF RedirectInv, Redirect!MeetsReference
<1>3. Redirect!SetFile => Redirect!MeetsReference'
  <2> SUFFICES ASSUME Redirect!SetFile PROVE Redirect!MeetsReference'
    OBVIOUS
  <2>1. r' = Redirect!File(target) /\ result' = "success" /\ ~Redirect!IsTcp(target)
    BY DEF Redirect!SetFile
  <2> QED BY <1>1, <2>1, SameTarget DEF Redirect!MeetsReference
<1>4. Redirect!SetTcp => Redirect!MeetsReference'
  <2> SUFFICES ASSUME Redirect!SetTcp PROVE Redirect!MeetsReference'
    OBVIOUS
  <2>1. r = Redirect!None /\ Redirect!IsTcp(target)
    BY DEF Redirect!SetTcp
  <2>2. Endpointlike(target)
    <3>1. target \in Seq(Symbols) /\ \A k \in 2 .. Len(target) : target[k] \in Redirect!Chars
      BY TargetsAssumption DEF RedirectInv, Symbols
    <3>2. target # <<>> /\ target[1] = Redirect!Prefix
      BY <2>1 DEF Redirect!IsTcp
    <3>3. Len(target) \in Nat /\ Len(target) >= 1
      BY <3>1, <3>2
    <3> QED BY <3>1, <3>2, <3>3 DEF Endpointlike
  <2>3. BehindPrefix(target, Tail(target))
    BY <2>2, TailIs
  <2> QED BY <1>1, <2>1, <2>2, <2>3, BracketsRight, PlainRight, Zenon DEF Redirect!SetTcp
<1>5. (UNCHANGED redirectState) => Redirect!MeetsReference'
  BY <1>1, SameTarget DEF redirectState, RedirectInv, Redirect!MeetsReference
<1> QED BY <1>1, <1>2, <1>3, <1>4, <1>5 DEF RedirectInv, Redirect!Next

(* redirect_set makes a file of every target without the prefix, takes one   *)
(* with it exactly when it can be cut into a host and a port from 1 to 65535,*)
(* sets these, and no text can be cut in two ways (parser.c:236-317).        *)
THEOREM RedirectsRight == Spec => []TargetRight
<1>1. RedirectInv /\ [Next]_vars => RedirectInv'
  BY NextRedirect, RedirectSteps
<1>2. RedirectInv => TargetRight
  BY DEF RedirectInv, TargetRight
<1> QED BY <1>1, <1>2, InitRedirect, PTL DEF Spec
=============================================================================
