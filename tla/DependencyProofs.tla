--------------------------- MODULE DependencyProofs ---------------------------
(***************************************************************************)
(* What the algorithms of DependencyGraph compute, for every finite graph. *)
(*                                                                         *)
(* Each is a loop.  What a loop computes follows from what one round keeps *)
(* (an invariant of the round, not of the system) and from a number that   *)
(* each round makes smaller, so that the rounds it is given are enough:    *)
(* RepeatEnds.  Induction is on a set of numbers, by LeastOne and CountUp. *)
(***************************************************************************)
EXTENDS DependencyGraph, FiniteSetTheorems, WellFoundedInduction, TLAPS

-----------------------------------------------------------------------------
(* Counting.                                                               *)

LEMMA LeastOne ==
  ASSUME NEW T \in SUBSET Nat, T # {}
  PROVE  \E m \in T : \A n \in T : ~(n < m)
<1>1. \E m \in T : \A n \in T : <<n, m>> \notin OpToRel(<, Nat)
  BY NatLessThanWellFounded, WFMin
<1> QED BY <1>1 DEF OpToRel

LEMMA CountUp ==
  ASSUME NEW T, 0 \in T, \A n \in Nat : n \in T => n + 1 \in T
  PROVE  Nat \subseteq T
<1> SUFFICES ASSUME Nat \ T # {} PROVE FALSE
  OBVIOUS
<1>1. PICK m \in Nat \ T : \A n \in Nat \ T : ~(n < m)
  BY LeastOne
<1>2. m - 1 \in Nat /\ m - 1 < m
  BY <1>1
<1>3. m - 1 \in T
  BY <1>1, <1>2
<1>4. (m - 1) + 1 \in T
  BY <1>2, <1>3
<1> QED BY <1>1, <1>4

(* A function is defined by its value at 0 and its step.                   *)
Follows(f, X, base, G) ==
  f \in [Nat -> X] /\ f[0] = base /\ \A n \in Nat : f[n + 1] = G[n][f[n]]

LEMMA RecursionDefines ==
  ASSUME NEW X, NEW base \in X, NEW G, G \in [Nat -> [X -> X]]
  PROVE  \E f : Follows(f, X, base, G)
<1> DEFINE Runs(g, m) == g \in [Nat -> X] /\ g[0] = base /\ \A n \in Nat : n < m => g[n + 1] = G[n][g[n]]
           T == {m \in Nat : \E g : Runs(g, m)}
<1>1. 0 \in T
  <2>1. Runs([n \in Nat |-> base], 0)
    OBVIOUS
  <2> QED BY <2>1
<1>2. ASSUME NEW m \in Nat, m \in T PROVE m + 1 \in T
  <2>1. PICK g : Runs(g, m)
    BY <1>2
  <2> DEFINE h == [g EXCEPT ![m + 1] = G[m][g[m]]]
  <2>2. h \in [Nat -> X] /\ h[0] = base
    BY <2>1
  <2>3. ASSUME NEW n \in Nat, n < m + 1 PROVE h[n + 1] = G[n][h[n]]
    BY <2>1, <2>3
  <2>4. Runs(h, m + 1)
    BY <2>2, <2>3
  <2> HIDE DEF Runs, h
  <2> QED BY <2>4
<1>3. Nat \subseteq T
  <2> HIDE DEF T
  <2> QED BY <1>1, <1>2, CountUp
<1> DEFINE run == [m \in Nat |-> CHOOSE g : Runs(g, m)]
<1>4. \A m \in Nat : Runs(run[m], m)
  <2> HIDE DEF Runs
  <2> QED BY <1>3
<1>5. ASSUME NEW n \in Nat, NEW m \in Nat, n <= m PROVE run[m][n] = run[n][n]
  <2> DEFINE U == {k \in Nat : k <= n => run[m][k] = run[n][k]}
  <2> HIDE DEF run
  <2>1. 0 \in U
    BY <1>4
  <2>2. ASSUME NEW k \in Nat, k \in U PROVE k + 1 \in U
    <3>1. k + 1 <= n => run[m][k + 1] = G[k][run[m][k]] /\ run[n][k + 1] = G[k][run[n][k]]
      BY <1>4, <1>5
    <3> QED BY <2>2, <3>1
  <2>3. Nat \subseteq U
    <3> HIDE DEF U
    <3> QED BY <2>1, <2>2, CountUp
  <2> QED BY <2>3
<1> DEFINE f == [n \in Nat |-> run[n][n]]
<1> HIDE DEF run
<1>6. f \in [Nat -> X] /\ f[0] = base
  BY <1>4
<1>7. ASSUME NEW n \in Nat PROVE f[n + 1] = G[n][f[n]]
  <2>1. run[n + 1][n + 1] = G[n][run[n + 1][n]]
    BY <1>4
  <2>2. run[n + 1][n] = run[n][n]
    BY <1>5
  <2> QED BY <2>1, <2>2
<1> HIDE DEF f
<1>8. Follows(f, X, base, G)
  BY <1>6, <1>7 DEF Follows
<1> QED BY <1>8

(* A loop: no round, or one round and the rest.                            *)
IsLoop(step, S) == step \in [S -> S]
OneRound(step, s, n) ==
  Repeat(step, s, n + 1) = IF step[s] = s THEN s ELSE Repeat(step, step[s], n)

LEMMA RepeatIs ==
  ASSUME NEW S, NEW step, IsLoop(step, S), NEW s \in S, NEW m \in Nat
  PROVE  /\ Repeat(step, s, 0) = s
         /\ Repeat(step, s, m) \in S
         /\ OneRound(step, s, m)
<1> USE DEF IsLoop
<1> DEFINE Round(h) == [x \in S |-> IF step[x] = x THEN x ELSE h[step[x]]]
           Def(g) == [k \in Nat |-> [x \in DOMAIN step |->
                        LET y == step[x] IN IF k = 0 \/ y = x THEN x ELSE g[k - 1][y]]]
           G == [n \in Nat |-> [h \in [S -> S] |-> Round(h)]]
           same == [x \in S |-> x]
<1>1. PICK f \in [Nat -> [S -> S]] : f[0] = same /\ \A n \in Nat : f[n + 1] = G[n][f[n]]
  <2> DEFINE X == [S -> S]
  <2>1. same \in X /\ G \in [Nat -> [X -> X]]
    OBVIOUS
  <2> HIDE DEF same, G, X
  <2>2. \E f : Follows(f, X, same, G)
    BY <2>1, RecursionDefines
  <2> QED BY <2>2 DEF X, Follows
<1>2. f = Def(f)
  <2>1. ASSUME NEW k \in Nat
        PROVE  f[k] = [x \in DOMAIN step |-> LET y == step[x] IN IF k = 0 \/ y = x THEN x ELSE f[k - 1][y]]
    <3>1. CASE k = 0
      BY <1>1, <3>1
    <3>2. CASE k # 0
      <4>1. k - 1 \in Nat /\ (k - 1) + 1 = k
        BY <3>2
      <4>2. f[k] = Round(f[k - 1])
        BY <1>1, <4>1
      <4> QED BY <3>2, <4>2
    <3> QED BY <3>1, <3>2
  <2> HIDE DEF Round, G, same
  <2> QED BY <2>1
<1> DEFINE rest == CHOOSE g : g = Def(g)
<1>3. rest = Def(rest)
  BY <1>2
<1>4. \A x, n : Repeat(step, x, n) = rest[n][x]
  BY DEF Repeat
<1> HIDE DEF rest
<1>5. \A x \in S : /\ rest[0][x] = x
                  /\ \A n \in Nat : rest[n + 1][x] = IF step[x] = x THEN x ELSE rest[n][step[x]]
  BY <1>3
<1>6. \A n \in Nat : \A x \in S : rest[n][x] \in S
  <2> DEFINE T == {n \in Nat : \A x \in S : rest[n][x] \in S}
  <2>1. 0 \in T
    BY <1>5
  <2>2. ASSUME NEW n \in Nat, n \in T PROVE n + 1 \in T
    <3>1. ASSUME NEW x \in S PROVE rest[n + 1][x] \in S
      <4>1. rest[n + 1][x] = IF step[x] = x THEN x ELSE rest[n][step[x]]
        BY <1>5
      <4>2. step[x] \in S
        OBVIOUS
      <4> QED BY <2>2, <4>1, <4>2
    <3> QED BY <3>1
  <2>3. Nat \subseteq T
    <3> HIDE DEF T
    <3> QED BY <2>1, <2>2, CountUp
  <2> QED BY <2>3
<1>7. /\ rest[0][s] = s /\ rest[m][s] \in S
      /\ rest[m + 1][s] = IF step[s] = s THEN s ELSE rest[m][step[s]]
  BY <1>5, <1>6
<1> QED BY <1>4, <1>7 DEF OneRound

(* What a round keeps holds at the end of the loop, and if each round that *)
(* changes the state makes a number smaller, the loop is given as many     *)
(* rounds as it needs.                                                     *)
Progresses(step, I, left) ==
  \A x \in I : /\ step[x] \in I /\ left[x] \in Nat
               /\ step[x] = x \/ left[step[x]] < left[x]

Ended(step, I, s) == s \in I /\ step[s] = s

LEMMA RepeatEnds ==
  ASSUME NEW S, NEW step, IsLoop(step, S), NEW I, I \subseteq S, NEW left,
         Progresses(step, I, left), NEW s \in I, NEW n \in Nat, left[s] <= n
  PROVE  Ended(step, I, Repeat(step, s, n))
<1> DEFINE Ends(k, x) == /\ Repeat(step, x, k) \in I
                         /\ left[x] <= k => step[Repeat(step, x, k)] = Repeat(step, x, k)
           T == {k \in Nat : \A x \in I : Ends(k, x)}
<1>1. ASSUME NEW x \in I
      PROVE  /\ x \in S /\ step[x] \in I /\ left[x] \in Nat /\ left[step[x]] \in Nat
             /\ step[x] = x \/ left[step[x]] < left[x]
  BY DEF Progresses
<1>5. \A x \in S : /\ Repeat(step, x, 0) = x
                  /\ \A k \in Nat : OneRound(step, x, k)
  <2>1. 0 \in Nat
    OBVIOUS
  <2>2. ASSUME NEW x \in S PROVE Repeat(step, x, 0) = x
    BY <2>1, RepeatIs, Zenon
  <2>3. ASSUME NEW x \in S, NEW k \in Nat PROVE OneRound(step, x, k)
    BY RepeatIs, Zenon
  <2> QED BY <2>2, <2>3, Zenon
<1>2. 0 \in T
  <2> SUFFICES ASSUME NEW x \in I PROVE Ends(0, x)
    OBVIOUS
  <2>1. x \in S /\ 0 \in Nat
    OBVIOUS
  <2>2. Repeat(step, x, 0) = x
    BY <1>5, <2>1
  <2> QED BY <1>1, <2>2
<1>3. ASSUME NEW k \in Nat, k \in T PROVE k + 1 \in T
  <2> SUFFICES ASSUME NEW x \in I PROVE Ends(k + 1, x)
    OBVIOUS
  <2>1. x \in S
    OBVIOUS
  <2>2. Repeat(step, x, k + 1) = IF step[x] = x THEN x ELSE Repeat(step, step[x], k)
    BY <1>5, <2>1 DEF OneRound
  <2>3. CASE step[x] = x
    BY <2>2, <2>3
  <2>4. CASE step[x] # x
    <3>1. Ends(k, step[x])
      BY <1>1, <1>3
    <3> QED BY <1>1, <2>2, <2>4, <3>1
  <2> QED BY <2>3, <2>4
<1>4. Nat \subseteq T
  <2> HIDE DEF T
  <2> QED BY <1>2, <1>3, CountUp
<1> QED BY <1>4 DEF Ended

-----------------------------------------------------------------------------
(* Sequences.                                                              *)

Distinct(s) == \A i, j \in DOMAIN s : s[i] = s[j] => i = j

LEMMA NothingInside ==
  ASSUME NEW X
  PROVE  /\ << >> \in Seq(X) /\ Len(<< >>) = 0 /\ ToSet(<< >>) = {} /\ Distinct(<< >>)
         /\ \A s \in Seq(X) : ToSet(s) = {} => s = << >>
<1>1. ASSUME NEW s \in Seq(X), s # << >> PROVE 1 \in DOMAIN s
  BY <1>1
<1> QED BY <1>1 DEF ToSet, Distinct

LEMMA InsideIs ==
  ASSUME NEW X, NEW s \in Seq(X)
  PROVE  /\ ToSet(s) \subseteq X /\ Len(s) \in Nat /\ DOMAIN s = 1 .. Len(s)
         /\ \A i \in 1 .. Len(s) : s[i] \in ToSet(s)
         /\ \A x \in ToSet(s) : \E i \in 1 .. Len(s) : x = s[i]
BY DEF ToSet

LEMMA AppendAdds ==
  ASSUME NEW X, NEW s \in Seq(X), NEW x \in X
  PROVE  /\ Append(s, x) \in Seq(X) /\ Len(Append(s, x)) = Len(s) + 1
         /\ \A i \in 1 .. Len(s) : Append(s, x)[i] = s[i]
         /\ Append(s, x)[Len(s) + 1] = x /\ Append(s, x) # << >>
         /\ ToSet(Append(s, x)) = ToSet(s) \cup {x}
         /\ Distinct(s) /\ x \notin ToSet(s) => Distinct(Append(s, x))
<1> DEFINE t == Append(s, x)
<1>1. /\ t \in Seq(X) /\ Len(t) = Len(s) + 1 /\ t[Len(s) + 1] = x /\ t # << >>
      /\ \A i \in 1 .. Len(s) : t[i] = s[i]
  OBVIOUS
<1>2. DOMAIN t = 1 .. Len(s) + 1 /\ DOMAIN s = 1 .. Len(s) /\ Len(s) \in Nat
  BY <1>1
<1> HIDE DEF t
<1>3. ToSet(t) = ToSet(s) \cup {x}
  <2>1. ASSUME NEW y \in ToSet(t) PROVE y \in ToSet(s) \cup {x}
    <3>1. PICK i \in DOMAIN t : y = t[i]
      BY DEF ToSet
    <3>2. i \in 1 .. Len(s) \/ i = Len(s) + 1
      BY <1>2
    <3> QED BY <1>1, <1>2, <3>1, <3>2 DEF ToSet
  <2>2. ASSUME NEW y \in ToSet(s) PROVE y \in ToSet(t)
    <3>1. PICK i \in DOMAIN s : y = s[i]
      BY DEF ToSet
    <3>2. i \in DOMAIN t /\ t[i] = y
      BY <1>1, <1>2, <3>1
    <3> QED BY <3>2 DEF ToSet
  <2>3. Len(s) + 1 \in DOMAIN t
    BY <1>2
  <2>4. x \in ToSet(t)
    BY <1>1, <2>3 DEF ToSet
  <2> QED BY <2>1, <2>2, <2>4
<1>4. ASSUME Distinct(s), x \notin ToSet(s) PROVE Distinct(t)
  <2>1. ASSUME NEW i \in DOMAIN t, NEW j \in DOMAIN t, t[i] = t[j] PROVE i = j
    <3>1. \A k \in 1 .. Len(s) : t[k] = s[k] /\ s[k] # x
      BY <1>1, <1>2, <1>4 DEF ToSet
    <3>2. (i \in 1 .. Len(s) \/ i = Len(s) + 1) /\ (j \in 1 .. Len(s) \/ j = Len(s) + 1)
      BY <1>2
    <3> QED BY <1>1, <1>2, <1>4, <2>1, <3>1, <3>2 DEF Distinct
  <2> QED BY <2>1 DEF Distinct
<1> QED BY <1>1, <1>3, <1>4 DEF t

LEMMA ConcatAdds ==
  ASSUME NEW X, NEW s \in Seq(X), NEW t \in Seq(X)
  PROVE  /\ s \o t \in Seq(X) /\ Len(s \o t) = Len(s) + Len(t)
         /\ \A i \in 1 .. Len(s) : (s \o t)[i] = s[i]
         /\ \A i \in 1 .. Len(t) : (s \o t)[Len(s) + i] = t[i]
         /\ ToSet(s \o t) = ToSet(s) \cup ToSet(t)
         /\ Distinct(s) /\ Distinct(t) /\ ToSet(s) \cap ToSet(t) = {} => Distinct(s \o t)
<1> DEFINE u == s \o t
<1>1. /\ u \in Seq(X) /\ Len(u) = Len(s) + Len(t)
      /\ \A i \in 1 .. Len(s) : u[i] = s[i]
      /\ \A i \in 1 .. Len(t) : u[Len(s) + i] = t[i]
  OBVIOUS
<1>2. /\ DOMAIN u = 1 .. Len(s) + Len(t) /\ DOMAIN s = 1 .. Len(s) /\ DOMAIN t = 1 .. Len(t)
      /\ Len(s) \in Nat /\ Len(t) \in Nat
  BY <1>1
<1> HIDE DEF u
<1>3. \A i \in DOMAIN u : i \in DOMAIN s \/ (i - Len(s) \in DOMAIN t /\ i = Len(s) + (i - Len(s)))
  BY <1>2
<1>4. ToSet(u) = ToSet(s) \cup ToSet(t)
  <2>1. ASSUME NEW y \in ToSet(u) PROVE y \in ToSet(s) \cup ToSet(t)
    <3>1. PICK i \in DOMAIN u : y = u[i]
      BY DEF ToSet
    <3>2. CASE i \in DOMAIN s
      BY <1>1, <1>2, <3>1, <3>2 DEF ToSet
    <3>3. CASE i - Len(s) \in DOMAIN t /\ i = Len(s) + (i - Len(s))
      <4>1. y = t[i - Len(s)]
        BY <1>1, <1>2, <3>1, <3>3
      <4> QED BY <3>3, <4>1 DEF ToSet
    <3> QED BY <1>3, <3>2, <3>3
  <2>2. ASSUME NEW y \in ToSet(s) PROVE y \in ToSet(u)
    <3>1. PICK i \in DOMAIN s : y = s[i]
      BY DEF ToSet
    <3>2. i \in DOMAIN u /\ u[i] = y
      BY <1>1, <1>2, <3>1
    <3> QED BY <3>2 DEF ToSet
  <2>3. ASSUME NEW y \in ToSet(t) PROVE y \in ToSet(u)
    <3>1. PICK i \in DOMAIN t : y = t[i]
      BY DEF ToSet
    <3>2. Len(s) + i \in DOMAIN u /\ u[Len(s) + i] = y
      BY <1>1, <1>2, <3>1
    <3> QED BY <3>2 DEF ToSet
  <2> QED BY <2>1, <2>2, <2>3
<1>5. ASSUME Distinct(s), Distinct(t), ToSet(s) \cap ToSet(t) = {} PROVE Distinct(u)
  <2>1. ASSUME NEW i \in DOMAIN u, NEW j \in DOMAIN u, u[i] = u[j] PROVE i = j
    <3>1. \A k \in DOMAIN s : u[k] = s[k] /\ s[k] \in ToSet(s)
      BY <1>1, <1>2 DEF ToSet
    <3>2. \A k \in DOMAIN t : u[Len(s) + k] = t[k] /\ t[k] \in ToSet(t)
      BY <1>1, <1>2 DEF ToSet
    <3>3. CASE i \in DOMAIN s /\ j \in DOMAIN s
      BY <1>5, <2>1, <3>1, <3>3 DEF Distinct
    <3>4. CASE i \notin DOMAIN s /\ j \notin DOMAIN s
      <4> DEFINE k == i - Len(s)  l == j - Len(s)
      <4>1. k \in DOMAIN t /\ l \in DOMAIN t /\ i = Len(s) + k /\ j = Len(s) + l
        BY <1>3, <3>4
      <4> HIDE DEF k, l
      <4>2. k = l
        BY <1>5, <2>1, <3>2, <4>1 DEF Distinct
      <4> QED BY <4>1, <4>2
    <3>5. CASE i \in DOMAIN s /\ j \notin DOMAIN s
      BY <1>3, <1>5, <2>1, <3>1, <3>2, <3>5
    <3>6. CASE i \notin DOMAIN s /\ j \in DOMAIN s
      BY <1>3, <1>5, <2>1, <3>1, <3>2, <3>6
    <3> QED BY <3>3, <3>4, <3>5, <3>6
  <2> QED BY <2>1 DEF Distinct
<1> QED BY <1>1, <1>4, <1>5 DEF u

LEMMA HeadAndTail ==
  ASSUME NEW X, NEW s \in Seq(X), s # << >>
  PROVE  /\ Head(s) \in X /\ Head(s) = s[1] /\ Tail(s) \in Seq(X) /\ Len(Tail(s)) = Len(s) - 1
         /\ \A i \in 1 .. Len(s) - 1 : Tail(s)[i] = s[i + 1]
         /\ ToSet(s) = {Head(s)} \cup ToSet(Tail(s))
         /\ Distinct(s) => Distinct(Tail(s)) /\ Head(s) \notin ToSet(Tail(s))
<1> DEFINE t == Tail(s)
<1>1. /\ Head(s) \in X /\ Head(s) = s[1] /\ t \in Seq(X) /\ Len(t) = Len(s) - 1
      /\ \A i \in 1 .. Len(s) - 1 : t[i] = s[i + 1]
      /\ DOMAIN s = 1 .. Len(s) /\ DOMAIN t = 1 .. Len(s) - 1 /\ Len(s) \in Nat \ {0}
  OBVIOUS
<1> HIDE DEF t
<1>2. ToSet(s) = {Head(s)} \cup ToSet(t)
  <2>1. ASSUME NEW y \in ToSet(s) PROVE y \in {Head(s)} \cup ToSet(t)
    <3>1. PICK i \in DOMAIN s : y = s[i]
      BY DEF ToSet
    <3>2. CASE i = 1
      BY <1>1, <3>1, <3>2
    <3>3. CASE i # 1
      <4>1. i - 1 \in DOMAIN t /\ t[i - 1] = y
        BY <1>1, <3>1, <3>3
      <4> QED BY <4>1 DEF ToSet
    <3> QED BY <3>2, <3>3
  <2>2. ASSUME NEW y \in ToSet(t) PROVE y \in ToSet(s)
    <3>1. PICK i \in DOMAIN t : y = t[i]
      BY DEF ToSet
    <3>2. i + 1 \in DOMAIN s /\ s[i + 1] = y
      BY <1>1, <3>1
    <3> QED BY <3>2 DEF ToSet
  <2>3. 1 \in DOMAIN s
    BY <1>1
  <2>4. Head(s) \in ToSet(s)
    BY <1>1, <2>3 DEF ToSet
  <2> QED BY <2>1, <2>2, <2>4
<1>3. ASSUME Distinct(s) PROVE Distinct(t) /\ Head(s) \notin ToSet(t)
  <2>1. ASSUME NEW i \in DOMAIN t PROVE i + 1 \in DOMAIN s /\ t[i] = s[i + 1] /\ i + 1 # 1 /\ i \in Nat
    BY <1>1
  <2>2. Distinct(t)
    <3>1. ASSUME NEW i \in DOMAIN t, NEW j \in DOMAIN t, t[i] = t[j] PROVE i = j
      <4>1. i + 1 = j + 1
        BY <1>3, <2>1, <3>1 DEF Distinct
      <4> QED BY <2>1, <4>1
    <3> QED BY <3>1 DEF Distinct
  <2>3. Head(s) \notin ToSet(t)
    BY <1>1, <1>3, <2>1 DEF Distinct, ToSet
  <2> QED BY <2>2, <2>3
<1> QED BY <1>1, <1>2, <1>3 DEF t

LEMMA FrontAndLast ==
  ASSUME NEW X, NEW s \in Seq(X), s # << >>
  PROVE  /\ Last(s) \in X /\ Last(s) = s[Len(s)] /\ Front(s) \in Seq(X)
         /\ Len(s) \in Nat \ {0} /\ Len(Front(s)) = Len(s) - 1
         /\ \A i \in 1 .. Len(s) - 1 : Front(s)[i] = s[i]
         /\ ToSet(s) = {Last(s)} \cup ToSet(Front(s))
         /\ Distinct(s) => Distinct(Front(s)) /\ Last(s) \notin ToSet(Front(s))
<1> DEFINE t == Front(s)
<1>1. /\ Last(s) \in X /\ Last(s) = s[Len(s)] /\ Len(s) \in Nat \ {0}
      /\ t \in Seq(X) /\ Len(t) = Len(s) - 1
      /\ \A i \in 1 .. Len(s) - 1 : t[i] = s[i]
      /\ DOMAIN s = 1 .. Len(s) /\ DOMAIN t = 1 .. Len(s) - 1
  <2>1. /\ Last(s) = s[Len(s)] /\ Len(s) \in Nat \ {0} /\ DOMAIN s = 1 .. Len(s)
        /\ t = SubSeq(s, 1, Len(s) - 1)
    BY DEF Front, Last
  <2>2. s[Len(s)] \in X
    BY <2>1
  <2>3. \A i \in 1 .. Len(s) : s[i] \in X
    OBVIOUS
  <2>4. SubSeq(s, 1, Len(s) - 1) = [i \in 1 .. Len(s) - 1 |-> s[i]]
    BY <2>1
  <2>5. [i \in 1 .. Len(s) - 1 |-> s[i]] \in Seq(X)
    <3> DEFINE n == Len(s) - 1
    <3>1. n \in Nat /\ \A i \in 1 .. n : s[i] \in X
      BY <2>1, <2>3
    <3> HIDE DEF n
    <3>2. [i \in 1 .. n |-> s[i]] \in Seq(X)
      BY <3>1
    <3> QED BY <3>2 DEF n
  <2> QED BY <2>1, <2>2, <2>4, <2>5
<1> HIDE DEF t
<1>2. \A i \in DOMAIN s : i = Len(s) \/ i \in DOMAIN t
  BY <1>1
<1>3. \A i \in DOMAIN t : i \in DOMAIN s /\ t[i] = s[i] /\ i # Len(s)
  BY <1>1
<1>4. Len(s) \in DOMAIN s
  BY <1>1
<1>5. ToSet(s) = {Last(s)} \cup ToSet(t)
  BY <1>1, <1>2, <1>3, <1>4 DEF ToSet
<1>6. Distinct(s) => Distinct(t) /\ Last(s) \notin ToSet(t)
  BY <1>1, <1>2, <1>3, <1>4 DEF ToSet, Distinct
<1> QED BY <1>1, <1>5, <1>6 DEF t

LEMMA DistinctCounts ==
  ASSUME NEW X, NEW s \in Seq(X), Distinct(s)
  PROVE  IsFiniteSet(ToSet(s)) /\ Cardinality(ToSet(s)) = Len(s)
<1>1. s \in Bijection(1 .. Len(s), ToSet(s))
  <2>1. DOMAIN s = 1 .. Len(s) /\ s \in [1 .. Len(s) -> ToSet(s)]
    BY DEF ToSet
  <2>2. s \in Injection(1 .. Len(s), ToSet(s))
    BY <2>1 DEF Injection, IsInjective, Distinct
  <2>3. \A y \in ToSet(s) : \E i \in 1 .. Len(s) : s[i] = y
    BY <2>1 DEF ToSet
  <2> QED BY <2>1, <2>2, <2>3, Zenon DEF Bijection, Surjection
<1>2. IsFiniteSet(1 .. Len(s)) /\ Cardinality(1 .. Len(s)) = Len(s)
  <2> DEFINE n == Len(s)
  <2>1. n \in Nat
    OBVIOUS
  <2> HIDE DEF n
  <2>2. IsFiniteSet(1 .. n) /\ Cardinality(1 .. n) = n
    BY <2>1, FS_Interval
  <2> QED BY <2>2 DEF n
<1> QED BY <1>1, <1>2, FS_Bijection DEF ExistsBijection

LEMMA AmongIs ==
  ASSUME NEW X, NEW s \in Seq(X), NEW S
  PROVE  /\ Among(s, S) \in Seq(X) /\ ToSet(Among(s, S)) = ToSet(s) \cap S
         /\ Distinct(s) => Distinct(Among(s, S))
<1> DEFINE N == Len(s)
           Def(g) == [n \in 0 .. Len(s) |->
                        CASE n = 0 -> << >>
                          [] n > 0 /\ s[n] \in S -> Append(g[n - 1], s[n])
                          [] OTHER -> g[n - 1]]
           Q == Seq(X)
           G == [n \in Nat |-> [q \in Q |-> IF n + 1 \in 1 .. N /\ s[n + 1] \in S
                                            THEN Append(q, s[n + 1]) ELSE q]]
<1>1. N \in Nat /\ \A i \in 1 .. N : s[i] \in X
  OBVIOUS
<1>2. << >> \in Q /\ G \in [Nat -> [Q -> Q]]
  BY <1>1
<1>3. PICK f : Follows(f, Q, << >>, G)
  <2> HIDE DEF Q, G
  <2> QED BY <1>2, RecursionDefines
<1>4. \E g : g = Def(g)
  <2> DEFINE g == [n \in 0 .. N |-> f[n]]
  <2>1. ASSUME NEW n \in 0 .. N
        PROVE  f[n] = CASE n = 0 -> << >>
                        [] n > 0 /\ s[n] \in S -> Append(g[n - 1], s[n])
                        [] OTHER -> g[n - 1]
    <3>1. CASE n = 0
      BY <1>3, <3>1 DEF Follows
    <3>2. CASE n # 0
      <4>1. n - 1 \in Nat /\ (n - 1) + 1 = n /\ n - 1 \in 0 .. N /\ n \in 1 .. N
        BY <1>1, <3>2
      <4>2. f[n - 1] \in Q /\ f[n] = G[n - 1][f[n - 1]]
        BY <1>3, <4>1 DEF Follows
      <4>3. f[n] = IF s[n] \in S THEN Append(f[n - 1], s[n]) ELSE f[n - 1]
        BY <4>1, <4>2
      <4> QED BY <3>2, <4>1, <4>3
    <3> QED BY <3>1, <3>2
  <2>2. g = Def(g)
    BY <2>1
  <2> QED BY <2>2
<1> DEFINE among == CHOOSE g : g = Def(g)
<1>5. among = Def(among)
  BY <1>4
<1>6. Among(s, S) = among[N]
  BY DEF Among
<1> HIDE DEF among, Q, G
<1>7. /\ among[0] = << >>
      /\ \A n \in Nat : n + 1 <= N =>
            among[n + 1] = IF s[n + 1] \in S THEN Append(among[n], s[n + 1]) ELSE among[n]
  <2>1. among[0] = << >>
    BY <1>1, <1>5
  <2>2. ASSUME NEW n \in Nat, n + 1 <= N
        PROVE  among[n + 1] = IF s[n + 1] \in S THEN Append(among[n], s[n + 1]) ELSE among[n]
    <3> DEFINE m == n + 1
    <3>1. m \in 0 .. N /\ m # 0 /\ m > 0 /\ m - 1 = n
      BY <1>1, <2>2
    <3> HIDE DEF m
    <3>2. among[m] = CASE m = 0 -> << >>
                       [] m > 0 /\ s[m] \in S -> Append(among[m - 1], s[m])
                       [] OTHER -> among[m - 1]
      BY <1>5, <3>1
    <3>3. among[m] = IF s[m] \in S THEN Append(among[n], s[m]) ELSE among[n]
      BY <3>1, <3>2
    <3> QED BY <3>3 DEF m
  <2> QED BY <2>1, <2>2
<1> DEFINE Good(q, n) == /\ q \in Seq(X) /\ ToSet(q) = {s[i] : i \in 1 .. n} \cap S
                         /\ Distinct(s) => Distinct(q)
           T == {n \in Nat : n <= N => Good(among[n], n)}
<1>8. 0 \in T
  <2>1. << >> \in Seq(X) /\ ToSet(<< >>) = {} /\ Distinct(<< >>)
    BY NothingInside
  <2>2. {s[i] : i \in 1 .. 0} = {}
    OBVIOUS
  <2> QED BY <1>7, <2>1, <2>2
<1>9. ASSUME NEW n \in Nat, n \in T PROVE n + 1 \in T
  <2> SUFFICES ASSUME n + 1 <= N PROVE Good(among[n + 1], n + 1)
    OBVIOUS
  <2>1. Good(among[n], n) /\ n + 1 \in 1 .. N /\ s[n + 1] \in X
    BY <1>1, <1>9
  <2>2. {s[i] : i \in 1 .. n + 1} = {s[i] : i \in 1 .. n} \cup {s[n + 1]}
    <3>1. 1 .. n + 1 = (1 .. n) \cup {n + 1}
      OBVIOUS
    <3> QED BY <3>1
  <2>3. Distinct(s) => s[n + 1] \notin {s[i] : i \in 1 .. n}
    BY <2>1 DEF Distinct
  <2>4. CASE s[n + 1] \notin S
    BY <1>7, <2>1, <2>2, <2>4
  <2>5. CASE s[n + 1] \in S
    <3> DEFINE q == among[n]  x == s[n + 1]
    <3>1. q \in Seq(X) /\ x \in X /\ (Distinct(s) => Distinct(q) /\ x \notin ToSet(q))
      BY <2>1, <2>3
    <3> HIDE DEF q, x
    <3>2. /\ Append(q, x) \in Seq(X) /\ ToSet(Append(q, x)) = ToSet(q) \cup {x}
          /\ Distinct(s) => Distinct(Append(q, x))
      BY <3>1, AppendAdds
    <3>3. among[n + 1] = Append(q, x)
      BY <1>7, <2>5 DEF q, x
    <3> QED BY <2>1, <2>2, <2>5, <3>2, <3>3 DEF q, x
  <2> QED BY <2>4, <2>5
<1>10. Nat \subseteq T
  <2> HIDE DEF T
  <2> QED BY <1>8, <1>9, CountUp
<1>11. Good(among[N], N)
  <2> HIDE DEF Good, N
  <2>1. N \in T
    BY <1>1, <1>10
  <2> QED BY <1>1, <2>1
<1>12. ToSet(s) = {s[i] : i \in 1 .. N}
  BY <1>1 DEF ToSet
<1> QED BY <1>6, <1>11, <1>12

-----------------------------------------------------------------------------
(* The graph.                                                              *)

LEMMA KnownFinite ==
  /\ MapOrder \in Seq(Known) /\ Distinct(MapOrder) /\ ToSet(MapOrder) = Known
  /\ IsFiniteSet(Known) /\ Size \in Nat /\ Artifacts \subseteq Known
<1>1. MapOrder \in Seq(Known) /\ Distinct(MapOrder) /\ ToSet(MapOrder) = Known
  BY DependencyAssumptions DEF Distinct
<1>2. IsFiniteSet(Known) /\ Size \in Nat
  BY <1>1, DistinctCounts, FS_CardinalityType DEF Size
<1> QED BY <1>1, <1>2 DEF Known

LEMMA InOrderIs ==
  ASSUME NEW S, S \subseteq Known
  PROVE  InOrder(S) \in Seq(Known) /\ Distinct(InOrder(S)) /\ ToSet(InOrder(S)) = S
BY KnownFinite, AmongIs DEF InOrder

LEMMA NeedsIn ==
  ASSUME DependencyInit, NEW u
  PROVE  Needs(u) \subseteq Known
BY KnownFinite DEF DependencyInit, Needs

LEMMA DepsIs ==
  ASSUME DependencyInit, NEW u
  PROVE  Deps(u) \in Seq(Known) /\ Distinct(Deps(u)) /\ ToSet(Deps(u)) = Needs(u)
BY NeedsIn, InOrderIs DEF Deps

LEMMA FewInside ==
  ASSUME NEW s \in Seq(Known), Distinct(s)
  PROVE  /\ IsFiniteSet(ToSet(s)) /\ Cardinality(ToSet(s)) = Len(s) /\ Len(s) <= Size
         /\ ToSet(s) = Known => Len(s) = Size
         /\ Len(s) = Size => ToSet(s) = Known
<1>1. ToSet(s) \subseteq Known /\ Len(s) \in Nat
  BY InsideIs
<1>2. Cardinality(ToSet(s)) = Len(s)
  BY DistinctCounts
<1>3. Cardinality(ToSet(s)) <= Cardinality(Known)
  BY <1>1, KnownFinite, FS_Subset
<1>4. IsFiniteSet(ToSet(s)) /\ (Cardinality(ToSet(s)) = Cardinality(Known) => ToSet(s) = Known)
  BY <1>1, KnownFinite, FS_Subset
<1> QED BY <1>1, <1>2, <1>3, <1>4 DEF Size

-----------------------------------------------------------------------------
(* Reachability: the least closed set with what a node needs.              *)

Reached(u) == ReachedFrom(u, Reach)

LEMMA ReachedIs ==
  ASSUME DependencyInit, NEW u \in Known
  PROVE  /\ Reached(u) \subseteq Known /\ Needs(u) \subseteq Reached(u)
         /\ \A v \in Reached(u) : Needs(v) \subseteq Reached(u)
         /\ \A S \in SUBSET Known :
              Needs(u) \subseteq S /\ (\A v \in S : Needs(v) \subseteq S) => Reached(u) \subseteq S
         /\ \A v : <<u, v>> \in Reach <=> v \in Reached(u)
<1>1. Reach = {e \in Known \X Known :
                 \A S \in ClosedSets : Needs(e[1]) \subseteq S => e[2] \in S}
  BY DEF Reach
<1>2. \A v : <<u, v>> \in Reach <=>
               v \in Known /\ \A S \in ClosedSets : Needs(u) \subseteq S => v \in S
  BY <1>1
<1>3. \A v : v \in Reached(u) <=>
               v \in Known /\ \A S \in ClosedSets : Needs(u) \subseteq S => v \in S
  BY <1>2 DEF Reached, ReachedFrom
<1>4. \A v : Needs(v) \subseteq Known
  BY NeedsIn
<1>5. \A S \in ClosedSets : \A v \in S : Needs(v) \subseteq S
  BY DEF ClosedSets
<1>6. \A S \in SUBSET Known : (\A v \in S : Needs(v) \subseteq S) => S \in ClosedSets
  BY DEF ClosedSets
<1> QED BY <1>2, <1>3, <1>4, <1>5, <1>6

LEMMA ReachedOnwards ==
  ASSUME DependencyInit, NEW u \in Known, NEW v \in Reached(u)
  PROVE  v \in Known /\ Reached(v) \subseteq Reached(u)
<1>1. v \in Known /\ Reached(u) \in SUBSET Known /\ Needs(v) \subseteq Reached(u)
      /\ \A w \in Reached(u) : Needs(w) \subseteq Reached(u)
  BY ReachedIs
<1> QED BY <1>1, ReachedIs

(* The first step of a path, and its last one.                             *)
LEMMA FirstStep ==
  ASSUME DependencyInit, NEW u \in Known, NEW w \in Reached(u)
  PROVE  \E v \in Needs(u) : w = v \/ w \in Reached(v)
<1> DEFINE S == {x \in Known : \E v \in Needs(u) : x = v \/ x \in Reached(v)}
<1>1. Needs(u) \subseteq Known
  BY NeedsIn
<1>2. Needs(u) \subseteq S
  BY <1>1
<1>3. ASSUME NEW x \in S PROVE Needs(x) \subseteq S
  <2>1. PICK v \in Needs(u) : x = v \/ x \in Reached(v)
    OBVIOUS
  <2>2. v \in Known
    BY <1>1
  <2>3. Needs(x) \subseteq Known /\ Needs(x) \subseteq Reached(v)
    BY <2>1, <2>2, ReachedIs, NeedsIn
  <2> QED BY <2>3
<1>4. Reached(u) \subseteq S
  <2> HIDE DEF S
  <2>1. S \subseteq Known
    BY DEF S
  <2> QED BY <1>2, <1>3, <2>1, ReachedIs
<1> QED BY <1>4

LEMMA LastStep ==
  ASSUME DependencyInit, NEW u \in Known, NEW w \in Reached(u)
  PROVE  \E v \in {u} \cup Reached(u) : w \in Needs(v)
<1> DEFINE S == {x \in Reached(u) : \E v \in {u} \cup Reached(u) : x \in Needs(v)}
<1>1. /\ Reached(u) \subseteq Known /\ Needs(u) \subseteq Reached(u)
      /\ \A v \in Reached(u) : Needs(v) \subseteq Reached(u)
  BY ReachedIs
<1>2. Needs(u) \subseteq S /\ S \subseteq Known /\ \A x \in S : Needs(x) \subseteq S
  BY <1>1
<1>3. Reached(u) \subseteq S
  <2> HIDE DEF S
  <2> QED BY <1>2, ReachedIs
<1> QED BY <1>3

(* A closed set holds all that its members reach.                          *)
LEMMA ClosedHoldsReached ==
  ASSUME DependencyInit, NEW S, S \subseteq Known, \A v \in S : Needs(v) \subseteq S, NEW u \in S
  PROVE  Reached(u) \subseteq S
<1>1. u \in Known /\ Needs(u) \subseteq S
  OBVIOUS
<1> QED BY <1>1, ReachedIs

-----------------------------------------------------------------------------
(* getDependencyTree.                                                      *)

TreeInv(root) ==
  {s \in VisitState :
     /\ Distinct(s.visited)
     /\ ToSet(s.visited) \cup ToSet(s.calls) \subseteq {root} \cup Reached(root)
     /\ root \in ToSet(s.visited) \cup ToSet(s.calls)
     /\ \A v \in ToSet(s.visited) : Needs(v) \subseteq ToSet(s.visited) \cup ToSet(s.calls)}

(* Rounds enough for a node: one to visit it, one for each of its calls.    *)
Rounds(n) == n * (Size + 1)

LEMMA RoundsIs ==
  ASSUME NEW n \in Nat
  PROVE  Rounds(n) \in Nat /\ Rounds(n + 1) = Rounds(n) + Size + 1
<1>1. Size \in Nat
  BY KnownFinite
<1> DEFINE a == Size + 1
<1>2. a \in Nat
  BY <1>1
<1>3. Rounds(n) = n * a /\ Rounds(n + 1) = (n + 1) * a
  BY DEF Rounds
<1> HIDE DEF a
<1>4. n * a \in Nat /\ (n + 1) * a = n * a + a
  BY <1>2
<1> QED BY <1>1, <1>3, <1>4 DEF a

TreeLeft == [s \in VisitState |-> Rounds(Size - Len(s.visited)) + Len(s.calls)]

LEMMA VisitIsLoop ==
  ASSUME DependencyInit
  PROVE  IsLoop(Visit, VisitState)
<1> SUFFICES ASSUME NEW s \in VisitState PROVE Visit[s] \in VisitState
  BY DEF IsLoop, Visit
<1> DEFINE u == Head(s.calls)
<1>1. s.visited \in Seq(Known) /\ s.calls \in Seq(Known)
  BY DEF VisitState
<1>2. CASE s.calls = << >>
  BY <1>2 DEF Visit
<1>3. CASE s.calls # << >>
  <2>1. u \in Known /\ Tail(s.calls) \in Seq(Known)
    BY <1>1, <1>3, HeadAndTail
  <2> HIDE DEF u
  <2>2. Append(s.visited, u) \in Seq(Known)
    BY <1>1, <2>1, AppendAdds
  <2>3. Deps(u) \o Tail(s.calls) \in Seq(Known)
    BY <2>1, DepsIs, ConcatAdds
  <2>4. Visit[s] = IF u \in ToSet(s.visited) THEN [s EXCEPT !.calls = Tail(@)]
                   ELSE [visited |-> Append(s.visited, u), calls |-> Deps(u) \o Tail(s.calls)]
    BY <1>3 DEF Visit, u
  <2>5. CASE u \in ToSet(s.visited)
    BY <1>1, <2>1, <2>4, <2>5 DEF VisitState
  <2>6. CASE u \notin ToSet(s.visited)
    BY <2>2, <2>3, <2>4, <2>6 DEF VisitState
  <2> QED BY <2>5, <2>6
<1> QED BY <1>2, <1>3

LEMMA VisitProgresses ==
  ASSUME DependencyInit, NEW root \in Known
  PROVE  /\ Progresses(Visit, TreeInv(root), TreeLeft)
         /\ \A s \in TreeInv(root) : Visit[s] = s => s.calls = << >>
<1> SUFFICES ASSUME NEW s \in TreeInv(root)
             PROVE  /\ Visit[s] \in TreeInv(root) /\ TreeLeft[s] \in Nat
                    /\ Visit[s] = s \/ TreeLeft[Visit[s]] < TreeLeft[s]
                    /\ Visit[s] = s => s.calls = << >>
  BY DEF Progresses
<1> DEFINE u == Head(s.calls)  rest == Tail(s.calls)  t == Visit[s]
           B == {root} \cup Reached(root)
<1>1. /\ s \in VisitState /\ s.visited \in Seq(Known) /\ s.calls \in Seq(Known)
      /\ Distinct(s.visited) /\ ToSet(s.visited) \subseteq B /\ ToSet(s.calls) \subseteq B
      /\ root \in ToSet(s.visited) \cup ToSet(s.calls)
      /\ \A v \in ToSet(s.visited) : Needs(v) \subseteq ToSet(s.visited) \cup ToSet(s.calls)
  BY DEF TreeInv, VisitState
<1>2. Size \in Nat /\ Len(s.visited) \in Nat /\ Len(s.calls) \in Nat /\ Len(s.visited) <= Size
  BY <1>1, KnownFinite, FewInside, InsideIs
<1>3. TreeLeft[s] = Rounds(Size - Len(s.visited)) + Len(s.calls) /\ TreeLeft[s] \in Nat
  <2>1. Size - Len(s.visited) \in Nat
    BY <1>2
  <2>2. Rounds(Size - Len(s.visited)) \in Nat
    BY <2>1, RoundsIs
  <2> QED BY <1>1, <1>2, <2>2 DEF TreeLeft
<1>4. CASE s.calls = << >>
  BY <1>3, <1>4, <1>1 DEF Visit
<1>5. CASE s.calls # << >>
  <2>1. /\ u \in Known /\ rest \in Seq(Known) /\ Len(rest) = Len(s.calls) - 1
        /\ ToSet(s.calls) = {u} \cup ToSet(rest)
    BY <1>1, <1>5, HeadAndTail
  <2>2. t = IF u \in ToSet(s.visited) THEN [s EXCEPT !.calls = rest]
            ELSE [visited |-> Append(s.visited, u), calls |-> Deps(u) \o rest]
    BY <1>1, <1>5 DEF Visit
  <2>3. t \in VisitState
    BY <1>1, VisitIsLoop DEF IsLoop
  <2>4. TreeLeft[t] = Rounds(Size - Len(t.visited)) + Len(t.calls)
    BY <2>3 DEF TreeLeft
  <2> HIDE DEF u, rest, t
  <2>5. CASE u \in ToSet(s.visited)
    <3>1. t.visited = s.visited /\ t.calls = rest
      BY <2>2, <2>5, <1>1 DEF VisitState
    <3>2. t \in TreeInv(root)
      BY <1>1, <2>1, <2>3, <2>5, <3>1 DEF TreeInv
    <3>3. TreeLeft[t] < TreeLeft[s]
      <4>1. Size - Len(s.visited) \in Nat
        BY <1>2
      <4>2. Rounds(Size - Len(s.visited)) \in Nat
        BY <4>1, RoundsIs
      <4> QED BY <1>2, <1>3, <2>1, <2>4, <3>1, <4>2
    <3>4. t # s
      BY <1>2, <2>1, <3>1
    <3> QED BY <1>3, <3>2, <3>3, <3>4 DEF t
  <2>6. CASE u \notin ToSet(s.visited)
    <3>1. t.visited = Append(s.visited, u) /\ t.calls = Deps(u) \o rest
      BY <2>2, <2>6
    <3>2. /\ Distinct(t.visited) /\ ToSet(t.visited) = ToSet(s.visited) \cup {u}
          /\ t.visited \in Seq(Known) /\ Len(t.visited) = Len(s.visited) + 1
      BY <1>1, <2>1, <2>6, <3>1, AppendAdds
    <3>3. Deps(u) \in Seq(Known) /\ ToSet(Deps(u)) = Needs(u) /\ Distinct(Deps(u))
      BY DepsIs
    <3>4. Len(Deps(u)) <= Size /\ Len(Deps(u)) \in Nat
      BY <3>3, FewInside, InsideIs
    <3>5. ToSet(t.calls) = Needs(u) \cup ToSet(rest) /\ Len(t.calls) = Len(Deps(u)) + Len(rest)
      <4> DEFINE d == Deps(u)
      <4>1. d \in Seq(Known) /\ ToSet(d) = Needs(u) /\ t.calls = d \o rest
        BY <3>1, <3>3
      <4> HIDE DEF d
      <4>2. rest \in Seq(Known)
        BY <2>1
      <4>3. Len(d \o rest) = Len(d) + Len(rest)
        BY <4>1, <4>2, ConcatAdds
      <4>4. ToSet(d \o rest) = ToSet(d) \cup ToSet(rest)
        BY <4>1, <4>2, ConcatAdds
      <4> QED BY <4>1, <4>3, <4>4 DEF d
    <3>6. Needs(u) \subseteq B
      <4>1. u \in B
        BY <1>1, <2>1
      <4> QED BY <4>1, ReachedIs
    <3>7. t \in TreeInv(root)
      BY <1>1, <2>1, <2>3, <3>2, <3>5, <3>6 DEF TreeInv
    <3>8. TreeLeft[t] < TreeLeft[s]
      <4>1. Len(t.visited) <= Size
        BY <3>2, FewInside
      <4> DEFINE a == Size - Len(t.visited)
      <4>2. a \in Nat /\ Size - Len(s.visited) = a + 1
        BY <1>2, <3>2, <4>1
      <4> HIDE DEF a
      <4>3. Rounds(a) \in Nat /\ Rounds(a + 1) = Rounds(a) + Size + 1
        BY <4>2, RoundsIs
      <4> DEFINE x == Len(t.calls)  y == Len(s.calls)  l == TreeLeft[s]  k == TreeLeft[t]
      <4>4. l = Rounds(a + 1) + y /\ k = Rounds(a) + x
        BY <1>3, <2>4, <4>2 DEF a
      <4>5. x = Len(Deps(u)) + Len(rest) /\ Len(rest) = y - 1
        BY <2>1, <3>5
      <4>6. Len(rest) \in Nat /\ y \in Nat /\ Size \in Nat
        BY <1>2, <2>1, InsideIs
      <4> HIDE DEF x, y, l, k
      <4>7. k < l
        BY <3>4, <4>3, <4>4, <4>5, <4>6
      <4> QED BY <4>7 DEF k, l
    <3>9. t # s
      BY <1>2, <3>2
    <3> QED BY <1>3, <3>7, <3>8, <3>9 DEF t
  <2> QED BY <2>5, <2>6
<1> QED BY <1>4, <1>5

(* It is what the root reaches, and the root, each once.                   *)
LEMMA TreeIs ==
  ASSUME DependencyInit, NEW root \in Known
  PROVE  /\ DependencyTree(root) \in Seq(Known) /\ Distinct(DependencyTree(root))
         /\ ToSet(DependencyTree(root)) = {root} \cup Reached(root)
<1> DEFINE s0 == [visited |-> << >>, calls |-> <<root>>]
           n == Size * (Size + 1) + 1
           s == Repeat(Visit, s0, n)
<1>1. Size \in Nat /\ n \in Nat
  BY KnownFinite
<1>2. s0 \in TreeInv(root) /\ TreeLeft[s0] <= n
  <2>1. <<root>> \in Seq(Known) /\ ToSet(<<root>>) = {root} /\ Len(<<root>>) = 1
    BY DEF ToSet
  <2>2. s0 \in VisitState
    BY <2>1 DEF VisitState
  <2>3. ToSet(<< >>) = {} /\ Distinct(<< >>) /\ Len(<< >>) = 0
    BY NothingInside
  <2>4. s0 \in TreeInv(root)
    BY <2>1, <2>2, <2>3 DEF TreeInv
  <2>5. TreeLeft[s0] = Rounds(Size - 0) + 1 /\ Size - 0 = Size
    <3>1. s0.visited = << >> /\ s0.calls = <<root>>
      OBVIOUS
    <3> HIDE DEF s0
    <3>2. TreeLeft[s0] = Rounds(Size - Len(s0.visited)) + Len(s0.calls)
      BY <2>2 DEF TreeLeft
    <3> QED BY <1>1, <2>1, <2>3, <3>1, <3>2
  <2>6. n = Rounds(Size) + 1
    BY DEF Rounds
  <2> QED BY <1>1, <2>4, <2>5, <2>6
<1>3. s \in TreeInv(root) /\ Visit[s] = s
  <2> HIDE DEF s0, n
  <2> DEFINE I == TreeInv(root)
  <2>1. I \subseteq VisitState
    BY DEF TreeInv
  <2>2. IsLoop(Visit, VisitState) /\ Progresses(Visit, I, TreeLeft) /\ s0 \in I
    BY <1>2, VisitIsLoop, VisitProgresses
  <2> HIDE DEF I
  <2>3. Ended(Visit, I, s)
    BY <1>1, <1>2, <2>1, <2>2, RepeatEnds
  <2> QED BY <2>3 DEF I, Ended
<1>4. DependencyTree(root) = s.visited
  BY DEF DependencyTree
<1> HIDE DEF s
<1>5. s.calls = << >> /\ ToSet(s.calls) = {}
  BY <1>3, VisitProgresses, NothingInside
<1>6. /\ s.visited \in Seq(Known) /\ Distinct(s.visited)
      /\ ToSet(s.visited) \subseteq {root} \cup Reached(root)
      /\ root \in ToSet(s.visited) /\ \A v \in ToSet(s.visited) : Needs(v) \subseteq ToSet(s.visited)
  BY <1>3, <1>5 DEF TreeInv, VisitState
<1>7. Reached(root) \subseteq ToSet(s.visited)
  <2>1. ToSet(s.visited) \subseteq Known
    BY <1>6, InsideIs
  <2> QED BY <1>6, <2>1, ClosedHoldsReached
<1> QED BY <1>4, <1>6, <1>7

-----------------------------------------------------------------------------
(* Kahn's algorithm, for nodes S that depend on no others.  An extra       *)
(* degree stands for edges that are counted and that no node releases.     *)

Waiting(u, S, result) == {v \in S \ ToSet(result) : u \in Needs(v)}

After(S, result) ==
  \A i \in DOMAIN result : \A v \in S : result[i] \in Needs(v) =>
    \E j \in DOMAIN result : j < i /\ result[j] = v

IsExtra(extra) == extra \in [Known -> Nat]

Closed(S) == S \subseteq Known /\ \A v \in S : Needs(v) \subseteq S

(* The degree counts the dependents still to come; a node is queued, or    *)
(* has been, exactly if it is 0; each result comes after its dependents.   *)
SortOk(S, extra, degree, queue, result) ==
  /\ degree \in [Known -> Int] /\ queue \in Seq(Known) /\ result \in Seq(Known)
  /\ Distinct(queue) /\ Distinct(result) /\ ToSet(queue) \cap ToSet(result) = {}
  /\ ToSet(queue) \cup ToSet(result) \subseteq S
  /\ \A u \in Known : degree[u] = extra[u] + Cardinality(Waiting(u, S, result))
  /\ \A u \in S : u \in ToSet(queue) \cup ToSet(result) <=> degree[u] = 0
  /\ After(S, result)

LEMMA WaitingIs ==
  ASSUME NEW S, S \subseteq Known, NEW u, NEW result
  PROVE  /\ IsFiniteSet(Waiting(u, S, result)) /\ Cardinality(Waiting(u, S, result)) \in Nat
         /\ Cardinality(Waiting(u, S, result)) = 0 <=> Waiting(u, S, result) = {}
<1>1. Waiting(u, S, result) \subseteq Known
  BY DEF Waiting
<1>2. IsFiniteSet(Waiting(u, S, result))
  BY <1>1, KnownFinite, FS_Subset
<1> QED BY <1>2, FS_CardinalityType, FS_EmptySet

(* The result of u releases what u depends on.                             *)
LEMMA ReleaseCounts ==
  ASSUME NEW S, Closed(S), NEW extra, IsExtra(extra), NEW degree,
         NEW queue, NEW result, SortOk(S, extra, degree, queue, result),
         NEW u \in S, u \notin ToSet(result), NEW later, ToSet(later) = ToSet(result) \cup {u},
         NEW d \in Known
  PROVE  /\ Release(degree, u)[d] = extra[d] + Cardinality(Waiting(d, S, later))
         /\ Release(degree, u)[d] \in Nat /\ degree[d] \in Nat
         /\ d \in Needs(u) => degree[d] # 0 /\ Release(degree, u)[d] = degree[d] - 1
         /\ d \notin Needs(u) => Release(degree, u)[d] = degree[d]
<1> DEFINE W == Waiting(d, S, result)  V == Waiting(d, S, later)
           a == Cardinality(W)  b == Cardinality(V)  e == extra[d]
<1>1. /\ IsFiniteSet(W) /\ a \in Nat /\ (a = 0 <=> W = {}) /\ b \in Nat
  BY WaitingIs DEF Closed
<1>2. V = W \ {u} /\ (u \in W <=> d \in Needs(u))
  BY DEF Waiting
<1>3. e \in Nat /\ degree[d] = e + a
  BY DEF SortOk, IsExtra
<1>4. Release(degree, u)[d] = IF d \in Needs(u) THEN degree[d] - 1 ELSE degree[d]
  BY DEF Release
<1>5. IF u \in W THEN b = a - 1 ELSE b = a
  <2> HIDE DEF W, V
  <2>1. Cardinality(W \ {u}) = IF u \in W THEN Cardinality(W) - 1 ELSE Cardinality(W)
    BY <1>1, FS_RemoveElement
  <2> QED BY <1>2, <2>1
<1>6. u \in W => a # 0
  BY <1>1
<1> HIDE DEF a, b, e
<1>7. Release(degree, u)[d] = e + b /\ e + b \in Nat /\ degree[d] \in Nat
  BY <1>1, <1>2, <1>3, <1>4, <1>5
<1>8. d \in Needs(u) => degree[d] # 0
  BY <1>1, <1>2, <1>3, <1>6
<1> QED BY <1>4, <1>7, <1>8 DEF b, e

Taken(queue, u, rest) == queue # << >> /\ u = Head(queue) /\ rest = Tail(queue)
Freed(degree, u, freed) == freed = Among(Deps(u), {d \in Known : Release(degree, u)[d] = 0})

LEMMA KahnStep ==
  ASSUME DependencyInit, NEW S, Closed(S), NEW extra, IsExtra(extra),
         NEW degree, NEW queue, NEW result, SortOk(S, extra, degree, queue, result),
         NEW u, NEW rest, Taken(queue, u, rest), NEW freed, Freed(degree, u, freed)
  PROVE  /\ SortOk(S, extra, Release(degree, u), rest \o freed, Append(result, u))
         /\ Len(Append(result, u)) = Len(result) + 1
<1> DEFINE degree2 == Release(degree, u)  queue2 == rest \o freed  result2 == Append(result, u)
<1>1. /\ degree \in [Known -> Int] /\ queue \in Seq(Known) /\ result \in Seq(Known)
      /\ Distinct(queue) /\ Distinct(result) /\ ToSet(queue) \cap ToSet(result) = {}
      /\ ToSet(queue) \cup ToSet(result) \subseteq S /\ After(S, result)
      /\ \A v \in Known : degree[v] = extra[v] + Cardinality(Waiting(v, S, result))
      /\ \A v \in S : v \in ToSet(queue) \cup ToSet(result) <=> degree[v] = 0
  BY DEF SortOk
<1>2. S \subseteq Known /\ \A v \in S : Needs(v) \subseteq S
  BY DEF Closed
<1>3. /\ u \in Known /\ rest \in Seq(Known) /\ ToSet(queue) = {u} \cup ToSet(rest)
      /\ Distinct(rest) /\ u \notin ToSet(rest)
  BY <1>1, HeadAndTail DEF Taken
<1>4. u \in S /\ u \notin ToSet(result) /\ degree[u] = 0
  BY <1>1, <1>3
<1>5. /\ result2 \in Seq(Known) /\ Distinct(result2) /\ ToSet(result2) = ToSet(result) \cup {u}
      /\ Len(result2) = Len(result) + 1 /\ result2[Len(result) + 1] = u
      /\ \A i \in 1 .. Len(result) : result2[i] = result[i]
  BY <1>1, <1>3, <1>4, AppendAdds
<1> HIDE DEF result2
<1>6. ASSUME NEW d \in Known
      PROVE  /\ degree2[d] = extra[d] + Cardinality(Waiting(d, S, result2))
             /\ degree2[d] \in Nat /\ degree[d] \in Nat
             /\ d \in Needs(u) => degree[d] # 0 /\ degree2[d] = degree[d] - 1
             /\ d \notin Needs(u) => degree2[d] = degree[d]
  BY <1>4, <1>5, ReleaseCounts
<1>7. degree2 \in [Known -> Int]
  BY <1>1 DEF Release
<1> HIDE DEF degree2
<1>8. freed \in Seq(Known) /\ Distinct(freed) /\ ToSet(freed) = {d \in Needs(u) : degree2[d] = 0}
  <2>1. Deps(u) \in Seq(Known) /\ Distinct(Deps(u)) /\ ToSet(Deps(u)) = Needs(u)
    BY DepsIs
  <2>2. Needs(u) \subseteq Known
    BY NeedsIn
  <2>3. freed = Among(Deps(u), {d \in Known : degree2[d] = 0})
    BY DEF degree2, Freed
  <2> HIDE DEF degree2
  <2> DEFINE Z == {d \in Known : degree2[d] = 0}
  <2>4. /\ Among(Deps(u), Z) \in Seq(Known) /\ ToSet(Among(Deps(u), Z)) = ToSet(Deps(u)) \cap Z
        /\ Distinct(Among(Deps(u), Z))
    <3> HIDE DEF Z
    <3> QED BY <2>1, AmongIs
  <2> QED BY <2>1, <2>2, <2>3, <2>4
<1>9. ToSet(freed) \cap (ToSet(queue) \cup ToSet(result)) = {} /\ ToSet(freed) \subseteq S
  <2>1. Needs(u) \subseteq S
    BY <1>2, <1>4
  <2>2. \A d \in ToSet(freed) : d \in S /\ degree[d] # 0
    BY <1>2, <1>6, <1>8, <2>1
  <2> QED BY <1>1, <2>2
<1>10. /\ queue2 \in Seq(Known) /\ Distinct(queue2) /\ ToSet(queue2) = ToSet(rest) \cup ToSet(freed)
  <2>1. ToSet(rest) \cap ToSet(freed) = {}
    BY <1>3, <1>9
  <2>2. rest \in Seq(Known) /\ freed \in Seq(Known) /\ Distinct(rest) /\ Distinct(freed)
    BY <1>3, <1>8
  <2>3. queue2 \in Seq(Known)
    BY <2>2
  <2>4. ToSet(queue2) = ToSet(rest) \cup ToSet(freed)
    BY <2>2, ConcatAdds
  <2>5. Distinct(queue2)
    BY <2>1, <2>2, ConcatAdds
  <2> QED BY <2>3, <2>4, <2>5
<1> HIDE DEF queue2
<1>11. /\ ToSet(queue2) \cap ToSet(result2) = {} /\ ToSet(queue2) \cup ToSet(result2) \subseteq S
       /\ ToSet(queue2) \cup ToSet(result2) = (ToSet(queue) \cup ToSet(result)) \cup ToSet(freed)
  <2>1. u \notin ToSet(freed)
    BY <1>3, <1>9
  <2> QED BY <1>1, <1>3, <1>4, <1>5, <1>9, <1>10, <2>1
<1>12. ASSUME NEW d \in S PROVE d \in ToSet(queue2) \cup ToSet(result2) <=> degree2[d] = 0
  <2>1. d \in Known
    BY <1>2
  <2>2. d \in ToSet(queue) \cup ToSet(result) => degree2[d] = 0
    BY <1>1, <1>6, <2>1
  <2>3. d \in ToSet(freed) => degree2[d] = 0
    BY <1>8
  <2>4. degree2[d] = 0 => d \in ToSet(freed) \/ degree[d] = 0
    BY <1>6, <1>8, <2>1
  <2> QED BY <1>1, <1>11, <2>2, <2>3, <2>4
<1>13. After(S, result2)
  <2> SUFFICES ASSUME NEW i \in DOMAIN result2, NEW v \in S, result2[i] \in Needs(v)
               PROVE  \E j \in DOMAIN result2 : j < i /\ result2[j] = v
    BY DEF After
  <2>1. /\ DOMAIN result = 1 .. Len(result) /\ DOMAIN result2 = 1 .. Len(result) + 1
        /\ Len(result) \in Nat
    BY <1>1, <1>5
  <2>2. CASE i \in DOMAIN result
    <3>1. \E j \in DOMAIN result : j < i /\ result[j] = v
      BY <1>1, <1>5, <2>1, <2>2 DEF After
    <3> QED BY <1>5, <2>1, <3>1
  <2>3. CASE i = Len(result) + 1
    <3>1. Waiting(u, S, result) = {}
      <4>1. Cardinality(Waiting(u, S, result)) \in Nat
            /\ (Cardinality(Waiting(u, S, result)) = 0 <=> Waiting(u, S, result) = {})
        BY <1>2, WaitingIs
      <4>2. extra[u] \in Nat /\ 0 = extra[u] + Cardinality(Waiting(u, S, result))
        BY <1>1, <1>3, <1>4 DEF IsExtra
      <4> QED BY <4>1, <4>2
    <3>2. v \in ToSet(result)
      BY <1>5, <2>3, <3>1 DEF Waiting
    <3>3. PICK j \in 1 .. Len(result) : v = result[j]
      BY <1>1, <3>2, InsideIs
    <3>4. j \in DOMAIN result2 /\ j < i /\ result2[j] = v
      BY <1>5, <2>1, <2>3, <3>3
    <3> QED BY <3>4
  <2> QED BY <2>1, <2>2, <2>3
<1>14. SortOk(S, extra, degree2, queue2, result2)
  BY <1>5, <1>6, <1>7, <1>10, <1>11, <1>12, <1>13 DEF SortOk
<1> QED BY <1>5, <1>14 DEF degree2, queue2, result2

SortInv(S, extra) == {s \in KahnState : SortOk(S, extra, s.degree, s.queue, s.result)}
SortLeft == [s \in KahnState |-> Size - Len(s.result)]

LEMMA KahnIsLoop ==
  ASSUME DependencyInit
  PROVE  IsLoop(Kahn, KahnState)
<1> SUFFICES ASSUME NEW s \in KahnState PROVE Kahn[s] \in KahnState
  BY DEF IsLoop, Kahn
<1>1. s.degree \in [Known -> Int] /\ s.queue \in Seq(Known) /\ s.result \in Seq(Known)
  BY DEF KahnState
<1>2. CASE s.queue = << >>
  BY <1>2 DEF Kahn
<1>3. CASE s.queue # << >>
  <2> DEFINE u == Head(s.queue)  d == Release(s.degree, u)
             f == Among(Deps(u), {v \in Known : d[v] = 0})
  <2>1. u \in Known /\ Tail(s.queue) \in Seq(Known)
    BY <1>1, <1>3, HeadAndTail
  <2>2. d \in [Known -> Int]
    BY <1>1 DEF Release
  <2>3. Kahn[s] = [degree |-> d, queue |-> Tail(s.queue) \o f, result |-> Append(s.result, u)]
    BY <1>3 DEF Kahn
  <2>4. f \in Seq(Known)
    BY DepsIs, AmongIs
  <2> HIDE DEF u, d, f
  <2> QED BY <1>1, <2>1, <2>2, <2>3, <2>4 DEF KahnState
<1> QED BY <1>2, <1>3

LEMMA KahnProgresses ==
  ASSUME DependencyInit, NEW S, Closed(S), NEW extra, IsExtra(extra)
  PROVE  /\ Progresses(Kahn, SortInv(S, extra), SortLeft)
         /\ \A s \in SortInv(S, extra) : Kahn[s] = s => s.queue = << >>
<1> SUFFICES ASSUME NEW s \in SortInv(S, extra)
             PROVE  /\ Kahn[s] \in SortInv(S, extra) /\ SortLeft[s] \in Nat
                    /\ Kahn[s] = s \/ SortLeft[Kahn[s]] < SortLeft[s]
                    /\ Kahn[s] = s => s.queue = << >>
  BY DEF Progresses
<1> DEFINE t == Kahn[s]  d == s.degree  q == s.queue  r == s.result
           u == Head(q)  rest == Tail(q)  f == Among(Deps(u), {v \in Known : Release(d, u)[v] = 0})
           n == Len(r)  m == Len(t.result)  k == SortLeft[s]  l == SortLeft[t]
<1>1. s \in KahnState /\ SortOk(S, extra, d, q, r) /\ k = Size - n
  BY DEF SortInv, SortLeft
<1>2. r \in Seq(Known) /\ Distinct(r)
  BY <1>1 DEF SortOk
<1>3. n \in Nat /\ n <= Size /\ Size \in Nat
  <2> HIDE DEF r
  <2> QED BY <1>2, FewInside, InsideIs, KnownFinite
<1>4. k \in Nat
  <2> HIDE DEF n, k
  <2> QED BY <1>1, <1>3
<1>5. CASE q = << >>
  BY <1>4, <1>5, <1>1 DEF Kahn
<1>6. CASE q # << >>
  <2>1. t = [degree |-> Release(d, u), queue |-> rest \o f, result |-> Append(r, u)]
    BY <1>1, <1>6 DEF Kahn
  <2>2. t \in KahnState
    <3> HIDE DEF d, q, r, u, rest, f
    <3> QED BY <1>1, KahnIsLoop DEF IsLoop
  <2>3. /\ t.degree = Release(d, u) /\ t.queue = rest \o f /\ t.result = Append(r, u)
    <3> HIDE DEF d, q, r, u, rest, f, t
    <3> QED BY <2>1
  <2>4. Taken(q, u, rest) /\ Freed(d, u, f)
    BY <1>6 DEF Taken, Freed
  <2>5. l = Size - m
    BY <2>2 DEF SortLeft
  <2> HIDE DEF d, q, r, u, rest, f, t
  <2>6. SortOk(S, extra, Release(d, u), rest \o f, Append(r, u)) /\ Len(Append(r, u)) = Len(r) + 1
    BY <1>1, <2>4, KahnStep
  <2>7. SortOk(S, extra, t.degree, t.queue, t.result) /\ m = n + 1
    BY <2>3, <2>6
  <2>8. t \in SortInv(S, extra)
    BY <2>2, <2>7 DEF SortInv
  <2>9. l < k
    <3> HIDE DEF m, n, k, l
    <3> QED BY <1>1, <1>3, <2>5, <2>7
  <2>10. t # s
    <3>1. l # k
      <4> HIDE DEF m, n, k, l
      <4> QED BY <1>1, <1>3, <2>5, <2>7
    <3> QED BY <3>1
  <2> QED BY <1>4, <2>8, <2>9, <2>10 DEF t
<1> QED BY <1>5, <1>6

Counts(degree, extra, S) ==
  degree \in [Known -> Int] /\ \A u \in Known : degree[u] = extra[u] + Degrees(S)[u]

(* All that is sorted: in S, dependents first, and each node that has no   *)
(* extra degree and no dependent that is left out.                         *)
LEMMA SortedIs ==
  ASSUME DependencyInit, NEW nodes \in Seq(Known), Distinct(nodes), Closed(ToSet(nodes)),
         NEW extra, IsExtra(extra), NEW degree,
         Counts(degree, extra, ToSet(nodes))
  PROVE  \E r \in Seq(Known) :
           /\ Sorted(nodes, degree) = r /\ Distinct(r) /\ ToSet(r) \subseteq ToSet(nodes)
           /\ After(ToSet(nodes), r)
           /\ \A u \in ToSet(nodes) : u \in ToSet(r) <=>
                extra[u] = 0 /\ Waiting(u, ToSet(nodes), r) = {}
<1> DEFINE S == ToSet(nodes)  q == Among(nodes, {u \in Known : degree[u] = 0})
           s0 == [degree |-> degree, queue |-> q, result |-> << >>]
           s == Repeat(Kahn, s0, Size)
<1>1. q \in Seq(Known) /\ Distinct(q) /\ ToSet(q) = {u \in S : degree[u] = 0}
  <2> DEFINE Z == {u \in Known : degree[u] = 0}
  <2>1. /\ Among(nodes, Z) \in Seq(Known) /\ Distinct(Among(nodes, Z))
        /\ ToSet(Among(nodes, Z)) = ToSet(nodes) \cap Z
    <3> HIDE DEF Z
    <3> QED BY AmongIs
  <2>2. S \subseteq Known
    BY DEF Closed
  <2> QED BY <2>1, <2>2
<1> HIDE DEF q
<1>2. << >> \in Seq(Known) /\ ToSet(<< >>) = {} /\ Distinct(<< >>) /\ Len(<< >>) = 0
  BY NothingInside
<1>3. SortOk(S, extra, degree, q, << >>)
  <2>1. ASSUME NEW u \in Known PROVE degree[u] = extra[u] + Cardinality(Waiting(u, S, << >>))
    <3>1. Waiting(u, S, << >>) = {v \in S : u \in Needs(v)}
      BY <1>2 DEF Waiting
    <3>2. Degrees(S)[u] = Cardinality({v \in S : u \in Needs(v)})
      BY DEF Degrees
    <3> QED BY <3>1, <3>2 DEF Counts
  <2>2. After(S, << >>)
    BY DEF After
  <2>3. S \subseteq Known
    BY DEF Closed
  <2>4. degree \in [Known -> Int]
    BY DEF Counts
  <2> HIDE DEF S
  <2> QED BY <1>1, <1>2, <2>1, <2>2, <2>3, <2>4 DEF SortOk
<1>4. s0 \in SortInv(S, extra) /\ SortLeft[s0] = Size - 0
  <2>1. s0 \in KahnState
    BY <1>1, <1>2 DEF KahnState, Counts
  <2> QED BY <1>2, <1>3, <2>1 DEF SortInv, SortLeft
<1>5. s \in SortInv(S, extra) /\ Kahn[s] = s
  <2> DEFINE I == SortInv(S, extra)
  <2> HIDE DEF s0
  <2>1. I \subseteq KahnState
    BY DEF SortInv
  <2>2. IsLoop(Kahn, KahnState) /\ Progresses(Kahn, I, SortLeft) /\ s0 \in I
    BY <1>4, KahnIsLoop, KahnProgresses
  <2>3. Size \in Nat
    BY KnownFinite
  <2>4. SortLeft[s0] <= Size
    BY <1>4, <2>3
  <2> HIDE DEF I
  <2>5. Ended(Kahn, I, s)
    BY <2>1, <2>2, <2>3, <2>4, RepeatEnds
  <2> QED BY <2>5 DEF I, Ended
<1>6. Sorted(nodes, degree) = s.result
  BY DEF Sorted, q
<1> HIDE DEF s, S
<1>7. s.queue = << >> /\ ToSet(s.queue) = {}
  <2>1. s.queue = << >>
    BY <1>5, KahnProgresses DEF S
  <2> QED BY <1>2, <2>1
<1> DEFINE r == s.result
<1>8. SortOk(S, extra, s.degree, s.queue, r)
  BY <1>5 DEF SortInv
<1> HIDE DEF r
<1>9. /\ r \in Seq(Known) /\ Distinct(r) /\ ToSet(r) \subseteq S /\ After(S, r)
      /\ \A u \in Known : s.degree[u] = extra[u] + Cardinality(Waiting(u, S, r))
      /\ \A u \in S : u \in ToSet(r) <=> s.degree[u] = 0
  BY <1>7, <1>8 DEF SortOk
<1>10. ASSUME NEW u \in S PROVE u \in ToSet(r) <=> extra[u] = 0 /\ Waiting(u, S, r) = {}
  <2>1. u \in Known /\ S \subseteq Known
    BY DEF Closed, S
  <2> DEFINE W == Waiting(u, S, r)
  <2>2. Cardinality(W) \in Nat /\ (Cardinality(W) = 0 <=> W = {})
    BY <2>1, WaitingIs
  <2>3. extra[u] \in Nat
    BY <2>1 DEF IsExtra
  <2>4. u \in ToSet(r) <=> extra[u] + Cardinality(W) = 0
    BY <1>9, <2>1
  <2> HIDE DEF W
  <2>5. u \in ToSet(r) <=> extra[u] = 0 /\ W = {}
    BY <2>2, <2>3, <2>4
  <2> QED BY <2>5 DEF W
<1> QED BY <1>6, <1>9, <1>10 DEF r, S

LEMMA DependentsFirst ==
  ASSUME DependencyInit, NEW S, Closed(S), NEW r \in Seq(Known), Distinct(r), ToSet(r) \subseteq S,
         After(S, r), NEW i \in DOMAIN r, NEW j \in DOMAIN r, r[j] \in Reached(r[i])
  PROVE  i < j
<1> DEFINE u == r[i]  T == {w \in S : \A k \in DOMAIN r : r[k] = w => i < k}
<1>1. /\ S \subseteq Known /\ \A v \in S : Needs(v) \subseteq S
      /\ \A k \in DOMAIN r : r[k] \in S /\ k \in Int
  BY InsideIs DEF Closed, ToSet
<1>2. ASSUME NEW v \in S, \A k \in DOMAIN r : r[k] = v => i <= k, NEW w \in Needs(v)
      PROVE  w \in T
  <2> SUFFICES ASSUME NEW k \in DOMAIN r, r[k] = w PROVE i < k
    BY <1>1, <1>2
  <2>1. PICK l \in DOMAIN r : l < k /\ r[l] = v
    BY <1>2 DEF After
  <2> QED BY <1>1, <1>2, <2>1
<1>3. Needs(u) \subseteq T
  <2>1. u \in S /\ \A k \in DOMAIN r : r[k] = u => i <= k
    BY <1>1 DEF Distinct
  <2> HIDE DEF T, u
  <2> QED BY <1>2, <2>1
<1>4. \A w \in T : Needs(w) \subseteq T
  <2>1. ASSUME NEW w \in T PROVE w \in S /\ \A k \in DOMAIN r : r[k] = w => i <= k
    BY <1>1
  <2> HIDE DEF T
  <2> QED BY <1>2, <2>1
<1>5. Reached(u) \subseteq T
  <2>1. T \subseteq Known /\ u \in Known
    BY <1>1
  <2> HIDE DEF T, u
  <2> QED BY <1>3, <1>4, <2>1, ReachedIs
<1> QED BY <1>5

(* Without a cycle something left out has no dependent that is.            *)
LEMMA AcyclicSorts ==
  ASSUME DependencyInit, NEW S, Closed(S), NEW r,
         \A u \in S : u \notin ToSet(r) => Waiting(u, S, r) # {},
         \A v \in S : v \notin Reached(v)
  PROVE  S \subseteq ToSet(r)
<1> DEFINE D == S \ ToSet(r)
           Room(u) == Size - Cardinality(Reached(u))
           T == {Room(u) : u \in D}
<1> SUFFICES ASSUME D # {} PROVE FALSE
  OBVIOUS
<1>1. ASSUME NEW u \in S
      PROVE  /\ u \in Known /\ Reached(u) \subseteq Known /\ IsFiniteSet(Reached(u)) /\ Room(u) \in Nat
             /\ Cardinality(Reached(u)) \in Nat
  <2>1. u \in Known
    BY DEF Closed
  <2>2. Reached(u) \subseteq Known
    BY <2>1, ReachedIs
  <2>3. IsFiniteSet(Reached(u)) /\ Cardinality(Reached(u)) <= Size
    BY <2>2, KnownFinite, FS_Subset DEF Size
  <2>4. Cardinality(Reached(u)) \in Nat
    BY <2>3, FS_CardinalityType
  <2> QED BY <2>1, <2>2, <2>3, <2>4, KnownFinite
<1>2. T \in SUBSET Nat /\ T # {}
  <2> HIDE DEF Room
  <2> QED BY <1>1
<1>3. PICK u \in D : \A n \in T : ~(n < Room(u))
  <2>1. PICK m \in T : \A n \in T : ~(n < m)
    <3> HIDE DEF T
    <3> QED BY <1>2, LeastOne
  <2> HIDE DEF Room
  <2> QED BY <2>1
<1>4. PICK v \in D : u \in Needs(v)
  BY DEF Waiting
<1>5. u \in Reached(v) /\ Reached(u) \subseteq Reached(v) /\ u \notin Reached(u)
  <2>1. u \in S /\ v \in S /\ v \in Known
    BY <1>1
  <2>2. u \in Reached(v)
    BY <1>4, <2>1, ReachedIs
  <2> QED BY <2>1, <2>2, ReachedOnwards
<1> DEFINE a == Cardinality(Reached(u))  b == Cardinality(Reached(v))
<1>6. a < b
  <2>1. IsFiniteSet(Reached(v)) /\ Reached(u) \in SUBSET Reached(v) /\ Reached(v) # Reached(u)
    BY <1>1, <1>5
  <2>2. a <= b /\ b # a
    BY <2>1, FS_Subset
  <2>3. a \in Nat /\ b \in Nat
    BY <1>1
  <2> QED BY <2>2, <2>3
<1>7. Room(v) < Room(u)
  <2>1. a \in Nat /\ b \in Nat /\ Size \in Nat
    BY <1>1, KnownFinite
  <2> HIDE DEF a, b
  <2>2. Size - b < Size - a
    BY <1>6, <2>1
  <2> QED BY <2>2 DEF a, b
<1>8. Room(v) \in T
  OBVIOUS
<1> HIDE DEF Room, T
<1> QED BY <1>3, <1>7, <1>8

NoExtra == [u \in Known |-> 0]

(* Kahn's algorithm leaves something out exactly if there is a cycle.      *)
IsOrder(r, S) ==
  /\ r \in Seq(Known) /\ Distinct(r) /\ ToSet(r) = S
  /\ \A i, j \in DOMAIN r : r[j] \in Reached(r[i]) => i < j

LEMMA SortedRight ==
  ASSUME DependencyInit, NEW nodes \in Seq(Known), Distinct(nodes), Closed(ToSet(nodes)),
         NEW degree, Counts(degree, NoExtra, ToSet(nodes))
  PROVE  IF \E v \in ToSet(nodes) : v \in Reached(v)
         THEN Len(Sorted(nodes, degree)) # Len(nodes)
         ELSE /\ IsOrder(Sorted(nodes, degree), ToSet(nodes))
              /\ Len(Sorted(nodes, degree)) = Len(nodes)
<1> DEFINE S == ToSet(nodes)  extra == NoExtra
<1>1. IsExtra(extra) /\ \A u \in Known : extra[u] = 0
  BY DEF NoExtra, IsExtra
<1> HIDE DEF S, extra
<1>2. Counts(degree, extra, ToSet(nodes))
  BY DEF extra
<1>3. PICK r \in Seq(Known) :
        /\ Sorted(nodes, degree) = r /\ Distinct(r) /\ ToSet(r) \subseteq ToSet(nodes)
        /\ After(ToSet(nodes), r)
        /\ \A u \in ToSet(nodes) : u \in ToSet(r) <=>
             extra[u] = 0 /\ Waiting(u, ToSet(nodes), r) = {}
  BY <1>1, <1>2, SortedIs
<1>4. \A i, j \in DOMAIN r : r[j] \in Reached(r[i]) => i < j
  BY <1>3, DependentsFirst
<1>5. /\ Cardinality(ToSet(r)) = Len(r) /\ Cardinality(S) = Len(nodes)
  BY <1>3, DistinctCounts DEF S
<1>6. ASSUME NEW v \in S, v \in Reached(v) PROVE Len(r) # Len(nodes)
  <2>1. v \notin ToSet(r)
    <3> SUFFICES ASSUME v \in ToSet(r) PROVE FALSE
      OBVIOUS
    <3>1. PICK i \in DOMAIN r : v = r[i]
      BY DEF ToSet
    <3>2. i \in Nat
      BY <3>1
    <3> QED BY <1>4, <1>6, <3>1, <3>2
  <2>2. IsFiniteSet(S) /\ ToSet(r) \in SUBSET S /\ S # ToSet(r)
    BY <1>3, <2>1, DistinctCounts DEF S
  <2>3. Cardinality(S) # Cardinality(ToSet(r))
    BY <2>2, FS_Subset
  <2> QED BY <1>5, <2>3
<1>7. ASSUME \A v \in S : v \notin Reached(v) PROVE IsOrder(r, S) /\ Len(r) = Len(nodes)
  <2>1. Closed(S) /\ ToSet(r) \subseteq S
    BY <1>3 DEF S
  <2>2. \A u \in S : u \notin ToSet(r) => Waiting(u, S, r) # {}
    BY <1>1, <1>3, <2>1 DEF S, Closed
  <2>3. S \subseteq ToSet(r)
    BY <1>7, <2>1, <2>2, AcyclicSorts
  <2>4. ToSet(r) = S
    BY <2>1, <2>3
  <2> QED BY <1>3, <1>4, <1>5, <2>4 DEF IsOrder
<1>8. IF \E v \in S : v \in Reached(v) THEN Len(r) # Len(nodes) ELSE IsOrder(r, S) /\ Len(r) = Len(nodes)
  BY <1>6, <1>7
<1> QED BY <1>3, <1>8 DEF S

LEMMA ReverseIs ==
  ASSUME NEW X, NEW r \in Seq(X)
  PROVE  /\ Reverse(r) \in Seq(X) /\ Len(Reverse(r)) = Len(r) /\ ToSet(Reverse(r)) = ToSet(r)
         /\ \A i \in 1 .. Len(r) : Len(r) - i + 1 \in 1 .. Len(r) /\ Reverse(r)[i] = r[Len(r) - i + 1]
<1> DEFINE n == Len(r)  t == Reverse(r)
<1>1. n \in Nat /\ DOMAIN r = 1 .. n /\ \A i \in 1 .. n : r[i] \in X /\ n - i + 1 \in 1 .. n
  OBVIOUS
<1>2. t = [i \in 1 .. n |-> r[n - i + 1]]
  BY DEF Reverse
<1> HIDE DEF n
<1>3. [i \in 1 .. n |-> r[n - i + 1]] \in Seq(X) /\ DOMAIN t = 1 .. n
  BY <1>1, <1>2
<1> HIDE DEF t
<1>4. t \in Seq(X) /\ Len(t) = n /\ \A i \in 1 .. n : t[i] = r[n - i + 1]
  BY <1>1, <1>2, <1>3
<1>5. ToSet(t) = ToSet(r)
  <2>1. \A i \in 1 .. n : n - (n - i + 1) + 1 = i /\ n - i + 1 \in 1 .. n
    BY <1>1
  <2>2. \A i \in 1 .. n : r[i] = t[n - i + 1]
    BY <1>4, <2>1
  <2>3. ToSet(r) = {r[i] : i \in 1 .. n} /\ ToSet(t) = {t[i] : i \in 1 .. n}
    BY <1>1, <1>3 DEF ToSet
  <2>4. \A i \in 1 .. n : r[i] \in ToSet(t)
    BY <2>1, <2>2, <2>3
  <2>5. \A i \in 1 .. n : t[i] \in ToSet(r)
    BY <1>1, <1>4, <2>3
  <2> QED BY <2>3, <2>4, <2>5
<1> QED BY <1>1, <1>4, <1>5 DEF n, t

LEMMA ReverseBuilds ==
  ASSUME DependencyInit, NEW r, NEW S, IsOrder(r, S)
  PROVE  IsBuildOrderOf(Reverse(r), S, Reach)
<1> DEFINE n == Len(r)  t == Reverse(r)
<1>1. /\ r \in Seq(Known) /\ Distinct(r) /\ ToSet(r) = S
      /\ \A i, j \in DOMAIN r : r[j] \in Reached(r[i]) => i < j
  BY DEF IsOrder
<1>2. /\ t \in Seq(Known) /\ Len(t) = n /\ ToSet(t) = S
      /\ \A i \in 1 .. n : n - i + 1 \in 1 .. n /\ t[i] = r[n - i + 1]
  BY <1>1, ReverseIs
<1>3. n \in Nat /\ DOMAIN r = 1 .. n /\ DOMAIN t = 1 .. n /\ n = Cardinality(S)
  BY <1>1, <1>2, DistinctCounts
<1> HIDE DEF n, t
<1>4. ASSUME NEW i \in DOMAIN t, NEW j \in DOMAIN t, <<t[i], t[j]>> \in Reach PROVE j < i
  <2> DEFINE k == n - i + 1  l == n - j + 1
  <2>1. k \in DOMAIN r /\ l \in DOMAIN r /\ t[i] = r[k] /\ t[j] = r[l]
    BY <1>2, <1>3
  <2>2. k \in Int /\ l \in Int /\ i \in Int /\ j \in Int
    BY <1>3
  <2>3. r[k] \in Known
    BY <1>1, <2>1
  <2>4. r[l] \in Reached(r[k])
    <3> HIDE DEF k, l
    <3>1. <<r[k], r[l]>> \in Reach
      BY <1>4, <2>1
    <3> QED BY <2>3, <3>1, ReachedIs
  <2>5. k < l
    <3> HIDE DEF k, l
    <3> QED BY <1>1, <2>1, <2>4
  <2> QED BY <1>3, <2>2, <2>5
<1> QED BY <1>2, <1>3, <1>4 DEF t, IsBuildOrderOf

-----------------------------------------------------------------------------
(* getBuildOrder, getFullBuildOrder and topologicalSort.                   *)

RightFor(order, S) ==
  IF \E v \in S : <<v, v>> \in Reach THEN order = Circular ELSE IsBuildOrderOf(order, S, Reach)

LEMMA CyclesIn ==
  ASSUME DependencyInit, NEW S, S \subseteq Known
  PROVE  (\E v \in S : <<v, v>> \in Reach) <=> \E v \in S : v \in Reached(v)
BY ReachedIs

LEMMA DegreesCount ==
  ASSUME NEW S, Closed(S)
  PROVE  Degrees(S) \in [Known -> Nat] /\ Counts(Degrees(S), NoExtra, S)
<1>1. ASSUME NEW u \in Known PROVE Cardinality({v \in S : u \in Needs(v)}) \in Nat
  <2>1. IsFiniteSet({v \in S : u \in Needs(v)})
    BY KnownFinite, FS_Subset DEF Closed
  <2> QED BY <2>1, FS_CardinalityType
<1>2. Degrees(S) \in [Known -> Nat]
  BY <1>1 DEF Degrees
<1> QED BY <1>2 DEF Counts, NoExtra

LEMMA BuildOrderRight ==
  ASSUME DependencyInit, NEW u \in Known
  PROVE  RightFor(BuildOrder(u), {u} \cup Reached(u))
<1> DEFINE tree == DependencyTree(u)  S == ToSet(tree)  r == Sorted(tree, Degrees(S))
<1>1. tree \in Seq(Known) /\ Distinct(tree) /\ S = {u} \cup Reached(u)
  BY TreeIs
<1>2. BuildOrder(u) = IF Len(r) = Len(tree) THEN Reverse(r) ELSE Circular
  BY DEF BuildOrder
<1> HIDE DEF tree
<1>3. Closed(S)
  BY <1>1, ReachedIs DEF Closed
<1>4. Counts(Degrees(S), NoExtra, S)
  BY <1>3, DegreesCount
<1>5. IF \E v \in S : v \in Reached(v) THEN Len(r) # Len(tree)
      ELSE IsOrder(r, S) /\ Len(r) = Len(tree)
  BY <1>1, <1>3, <1>4, SortedRight
<1> HIDE DEF S, r
<1>6. (\E v \in S : <<v, v>> \in Reach) <=> \E v \in S : v \in Reached(v)
  BY <1>3, CyclesIn DEF Closed
<1>7. RightFor(BuildOrder(u), S)
  BY <1>2, <1>5, <1>6, ReverseBuilds DEF RightFor
<1> QED BY <1>1, <1>7

LEMMA FullBuildOrderRight ==
  ASSUME DependencyInit, \A u \in Artifacts : dependsOn[u] \subseteq Artifacts
  PROVE  RightFor(FullBuildOrder, Artifacts)
<1> DEFINE used == (UNION {dependsOn[u] : u \in Artifacts}) \ Artifacts
           nodes == InOrder(Artifacts) \o InOrder(used)
           S == ToSet(nodes)  r == Sorted(nodes, Degrees(S))
<1>1. FullBuildOrder = IF Len(r) = Cardinality(Artifacts) THEN Reverse(r) ELSE Circular
  BY DEF FullBuildOrder
<1>2. used = {}
  <2>1. \A v \in UNION {dependsOn[u] : u \in Artifacts} : v \in Artifacts
    <3> SUFFICES ASSUME NEW v, NEW u \in Artifacts, v \in dependsOn[u] PROVE v \in Artifacts
      BY Zenon
    <3> QED OBVIOUS
  <2> QED BY <2>1
<1>3. /\ InOrder(Artifacts) \in Seq(Known) /\ Distinct(InOrder(Artifacts))
      /\ ToSet(InOrder(Artifacts)) = Artifacts
  BY KnownFinite, InOrderIs
<1>4. InOrder(used) \in Seq(Known) /\ Distinct(InOrder(used)) /\ ToSet(InOrder(used)) = {}
  <2> HIDE DEF used
  <2> QED BY <1>2, InOrderIs
<1> HIDE DEF used
<1>5. nodes \in Seq(Known) /\ Distinct(nodes) /\ S = Artifacts
  <2> DEFINE p == InOrder(Artifacts)  q == InOrder(used)
  <2>1. /\ p \in Seq(Known) /\ Distinct(p) /\ ToSet(p) = Artifacts
        /\ q \in Seq(Known) /\ Distinct(q) /\ ToSet(q) = {} /\ ToSet(p) \cap ToSet(q) = {}
    BY <1>3, <1>4
  <2> HIDE DEF p, q
  <2>2. p \o q \in Seq(Known) /\ Distinct(p \o q)
    BY <2>1, ConcatAdds
  <2>4. p \in Seq(Known) /\ q \in Seq(Known)
    BY <2>1
  <2>5. ToSet(p \o q) = ToSet(p) \cup ToSet(q)
    BY <2>4, ConcatAdds
  <2>3. ToSet(p \o q) = Artifacts
    BY <2>1, <2>5
  <2> QED BY <2>2, <2>3 DEF p, q
<1> HIDE DEF nodes
<1>6. Len(nodes) = Cardinality(Artifacts)
  BY <1>5, DistinctCounts
<1>7. Closed(S)
  BY <1>5, KnownFinite DEF Closed, Needs
<1>8. Counts(Degrees(S), NoExtra, S)
  BY <1>7, DegreesCount
<1>9. IF \E v \in S : v \in Reached(v) THEN Len(r) # Len(nodes)
      ELSE IsOrder(r, S) /\ Len(r) = Len(nodes)
  BY <1>5, <1>7, <1>8, SortedRight
<1> HIDE DEF S, r
<1>10. (\E v \in S : <<v, v>> \in Reach) <=> \E v \in S : v \in Reached(v)
  BY <1>7, CyclesIn DEF Closed
<1>11. RightFor(FullBuildOrder, S)
  BY <1>1, <1>6, <1>9, <1>10, ReverseBuilds DEF RightFor
<1> QED BY <1>5, <1>11

LEMMA AllClosed ==
  ASSUME DependencyInit
  PROVE  /\ InOrder(Known) \in Seq(Known) /\ Distinct(InOrder(Known)) /\ ToSet(InOrder(Known)) = Known
         /\ Len(InOrder(Known)) = Size /\ Closed(Known)
<1>1. InOrder(Known) \in Seq(Known) /\ Distinct(InOrder(Known)) /\ ToSet(InOrder(Known)) = Known
  BY InOrderIs
<1>2. Len(InOrder(Known)) = Size
  BY <1>1, FewInside
<1> QED BY <1>1, <1>2, NeedsIn DEF Closed

(* One more degree for each edge that is there twice.                      *)
Twice(twice) == [v \in Known |-> Cardinality({e \in twice : e[2] = v})]

LEMMA TopologicalSortIs ==
  ASSUME DependencyInit, NEW twice, IsFiniteSet(twice)
  PROVE  \E degree : /\ Counts(degree, Twice(twice), Known)
                     /\ TopologicalSort(twice) = IF Len(Sorted(InOrder(Known), degree)) = Size
                                                 THEN Sorted(InOrder(Known), degree) ELSE Circular
<1> DEFINE degree == [v \in Known |-> Degrees(Known)[v] + Cardinality({e \in twice : e[2] = v})]
<1>1. TopologicalSort(twice) = IF Len(Sorted(InOrder(Known), degree)) = Size
                               THEN Sorted(InOrder(Known), degree) ELSE Circular
  BY DEF TopologicalSort
<1>2. Degrees(Known) \in [Known -> Nat]
  BY AllClosed, DegreesCount
<1>3. ASSUME NEW v \in Known PROVE Cardinality({e \in twice : e[2] = v}) \in Nat
  <2>1. IsFiniteSet({e \in twice : e[2] = v})
    BY FS_Subset
  <2> QED BY <2>1, FS_CardinalityType
<1>4. Counts(degree, Twice(twice), Known)
  BY <1>2, <1>3 DEF Counts, Twice
<1> HIDE DEF degree
<1> QED BY <1>1, <1>4

LEMMA TopologicalSortRight ==
  ASSUME DependencyInit
  PROVE  RightFor(IF TopologicalSort({}) = Circular THEN TopologicalSort({})
                  ELSE Reverse(TopologicalSort({})), Known)
<1> DEFINE none == {}
<1>1. IsFiniteSet(none) /\ Twice(none) = NoExtra
  BY FS_EmptySet DEF Twice, NoExtra
<1> HIDE DEF none
<1>2. PICK degree : /\ Counts(degree, Twice(none), Known)
                    /\ TopologicalSort(none) = IF Len(Sorted(InOrder(Known), degree)) = Size
                                               THEN Sorted(InOrder(Known), degree) ELSE Circular
  BY <1>1, TopologicalSortIs
<1> DEFINE nodes == InOrder(Known)  r == Sorted(nodes, degree)
<1>3. /\ nodes \in Seq(Known) /\ Distinct(nodes) /\ ToSet(nodes) = Known /\ Len(nodes) = Size
      /\ Closed(Known)
  BY AllClosed
<1> HIDE DEF nodes
<1>4. Closed(ToSet(nodes)) /\ Counts(degree, NoExtra, ToSet(nodes))
  BY <1>1, <1>2, <1>3
<1>5. IF \E v \in Known : v \in Reached(v) THEN Len(r) # Size ELSE IsOrder(r, Known) /\ Len(r) = Size
  BY <1>3, <1>4, SortedRight
<1>6. TopologicalSort(none) = IF Len(r) = Size THEN r ELSE Circular
  BY <1>2 DEF nodes
<1> HIDE DEF r
<1>7. (\E v \in Known : <<v, v>> \in Reach) <=> \E v \in Known : v \in Reached(v)
  BY CyclesIn
<1>8. Reverse(Circular) = Circular
  BY DEF Circular, Reverse
<1>9. RightFor(IF TopologicalSort(none) = Circular THEN TopologicalSort(none)
               ELSE Reverse(TopologicalSort(none)), Known)
  <2>1. CASE \E v \in Known : v \in Reached(v)
    BY <1>5, <1>6, <1>7, <2>1 DEF RightFor
  <2>2. CASE ~ \E v \in Known : v \in Reached(v)
    <3>1. TopologicalSort(none) = r /\ IsBuildOrderOf(Reverse(r), Known, Reach)
      BY <1>5, <1>6, <2>2, ReverseBuilds
    <3>2. (IF r = Circular THEN r ELSE Reverse(r)) = Reverse(r)
      BY <1>8
    <3> QED BY <1>7, <2>2, <3>1, <3>2 DEF RightFor
  <2> QED BY <2>1, <2>2
<1> QED BY <1>9 DEF none

(* One edge that is there twice, and the sort gives no order at all,       *)
(* whatever its doc says: see SortsFailOnlyOnCycles.                       *)
THEOREM ParallelEdgeGivesNoOrder ==
  ASSUME DependencyInit, NEW e \in Edges
  PROVE  TopologicalSort({e}) = Circular
<1> DEFINE twice == {e}  extra == Twice(twice)  w == e[2]
<1>1. w \in Known
  BY DEF Edges
<1>2. IsFiniteSet(twice) /\ IsExtra(extra) /\ extra[w] # 0
  <2>1. \A v \in Known : {f \in twice : f[2] = v} = IF w = v THEN {e} ELSE {}
    OBVIOUS
  <2>2. Cardinality({e}) = 1 /\ IsFiniteSet({e}) /\ Cardinality({}) = 0
    BY FS_Singleton, FS_EmptySet
  <2> QED BY <1>1, <2>1, <2>2 DEF Twice, IsExtra
<1> HIDE DEF twice, extra, w
<1>3. PICK degree : /\ Counts(degree, Twice(twice), Known)
                    /\ TopologicalSort(twice) = IF Len(Sorted(InOrder(Known), degree)) = Size
                                                THEN Sorted(InOrder(Known), degree) ELSE Circular
  BY <1>2, TopologicalSortIs
<1> DEFINE nodes == InOrder(Known)
<1>4. /\ nodes \in Seq(Known) /\ Distinct(nodes) /\ ToSet(nodes) = Known /\ Len(nodes) = Size
      /\ Closed(Known)
  BY AllClosed
<1>5. TopologicalSort(twice) = IF Len(Sorted(nodes, degree)) = Size THEN Sorted(nodes, degree) ELSE Circular
  BY <1>3
<1> HIDE DEF nodes
<1>6. Closed(ToSet(nodes)) /\ Counts(degree, extra, ToSet(nodes))
  BY <1>3, <1>4 DEF extra
<1>7. PICK r \in Seq(Known) :
        /\ Sorted(nodes, degree) = r /\ Distinct(r) /\ ToSet(r) \subseteq ToSet(nodes)
        /\ After(ToSet(nodes), r)
        /\ \A u \in ToSet(nodes) : u \in ToSet(r) <=>
             extra[u] = 0 /\ Waiting(u, ToSet(nodes), r) = {}
  BY <1>2, <1>4, <1>6, SortedIs
<1>8. w \notin ToSet(r)
  BY <1>1, <1>2, <1>4, <1>7
<1>9. Len(r) # Size
  BY <1>1, <1>7, <1>8, FewInside
<1> QED BY <1>5, <1>7, <1>9 DEF twice

(* Every order that is returned is a build order, and one is returned      *)
(* exactly if there is no cycle: of what a root needs in every finite      *)
(* graph, of a whole catalog if it lacks no dependency, and of the         *)
(* protocol graph if it has no parallel edges.                             *)
THEOREM OrdersRight == DependencySpec => []OrdersAreValid
<1>1. DependencyInit => OrdersAreValid
  <2> SUFFICES ASSUME DependencyInit PROVE OrdersAreValid
    OBVIOUS
  <2>1. ASSUME NEW u \in Known PROVE RightFor(BuildOrder(u), {u} \cup ReachedFrom(u, Reach))
    BY BuildOrderRight DEF Reached
  <2>2. (\A u \in Artifacts : dependsOn[u] \subseteq Artifacts) => RightFor(FullBuildOrder, Artifacts)
    BY FullBuildOrderRight
  <2>3. RightFor(IF TopologicalSort({}) = Circular THEN TopologicalSort({})
                 ELSE Reverse(TopologicalSort({})), Known)
    BY TopologicalSortRight
  <2> QED BY <2>1, <2>2, <2>3 DEF OrdersAreValid, RightFor
<1>2. DependencyInit /\ [DependencyNext]_dependsOn => DependencyInit'
  BY DEF DependencyInit, DependencyNext
<1> QED BY <1>1, <1>2, PTL DEF DependencySpec

-----------------------------------------------------------------------------
(* Breadth first: of the visited nodes those in the queue are to be        *)
(* searched from, in the order of their distances, which differ by one at  *)
(* most, and the others have been.                                         *)

Around(root) == {root} \cup Reached(root)

LEMMA AroundIs ==
  ASSUME DependencyInit, NEW root \in Known
  PROVE  /\ Around(root) \subseteq Known /\ root \in Around(root)
         /\ \A v \in Around(root) : Needs(v) \subseteq Around(root)
         /\ \A S \in SUBSET Known :
              root \in S /\ (\A v \in S : Needs(v) \subseteq S) => Around(root) \subseteq S
BY ReachedIs DEF Around

BreadthOk(root, q, V, dist) ==
  /\ q \in Seq(Known) /\ Distinct(q) /\ ToSet(q) \subseteq V /\ V \subseteq Around(root)
  /\ root \in V /\ dist[root] = 0 /\ \A v \in V : dist[v] \in Nat
  /\ \A v \in V \ ToSet(q) : /\ \A w \in Needs(v) : w \in V /\ dist[w] <= dist[v] + 1
                             /\ \A x \in ToSet(q) : dist[v] <= dist[x]
  /\ \A w \in V \ {root} : \E v \in V \ ToSet(q) : w \in Needs(v) /\ dist[w] = dist[v] + 1
  /\ \A i, j \in DOMAIN q : i < j => dist[q[i]] <= dist[q[j]]
  /\ \A x, y \in ToSet(q) : dist[x] <= dist[y] + 1

Unsearched(q, V) == Known \ (V \ ToSet(q))

Fresh(u, V, fresh) == fresh = Among(Deps(u), Known \ V)

LEMMA FreshIs ==
  ASSUME DependencyInit, NEW u, NEW V, NEW fresh, Fresh(u, V, fresh)
  PROVE  fresh \in Seq(Known) /\ Distinct(fresh) /\ ToSet(fresh) = Needs(u) \ V
<1> DEFINE Z == Known \ V  d == Deps(u)
<1>1. d \in Seq(Known) /\ Distinct(d) /\ ToSet(d) = Needs(u) /\ Needs(u) \subseteq Known
  BY DepsIs, NeedsIn
<1>2. fresh = Among(d, Z)
  BY DEF Fresh
<1>3. Z = Known \ V
  OBVIOUS
<1> HIDE DEF Z, d
<1>4. Among(d, Z) \in Seq(Known) /\ ToSet(Among(d, Z)) = ToSet(d) \cap Z /\ Distinct(Among(d, Z))
  BY <1>1, AmongIs
<1> QED BY <1>1, <1>2, <1>3, <1>4

(* The new distances of what u reaches first.                              *)
Extends(dist2, dist, V, F, u) ==
  (\A v \in V : dist2[v] = dist[v]) /\ \A v \in F : dist2[v] = dist[u] + 1

LEMMA BreadthStep ==
  ASSUME DependencyInit, NEW root \in Known, NEW q, NEW V, NEW dist, BreadthOk(root, q, V, dist),
         NEW u, NEW rest, Taken(q, u, rest), NEW fresh, Fresh(u, V, fresh),
         NEW dist2, Extends(dist2, dist, V, ToSet(fresh), u)
  PROVE  /\ BreadthOk(root, rest \o fresh, V \cup ToSet(fresh), dist2) /\ u \in V
         /\ Cardinality(Unsearched(rest \o fresh, V \cup ToSet(fresh)))
              < Cardinality(Unsearched(q, V))
<1> DEFINE F == ToSet(fresh)  q2 == rest \o fresh  V2 == V \cup F  done == V \ ToSet(q)
<1>1. /\ q \in Seq(Known) /\ Distinct(q) /\ ToSet(q) \subseteq V /\ V \subseteq Around(root)
      /\ root \in V /\ dist[root] = 0 /\ \A v \in V : dist[v] \in Nat
      /\ \A v \in done : /\ \A w \in Needs(v) : w \in V /\ dist[w] <= dist[v] + 1
                         /\ \A x \in ToSet(q) : dist[v] <= dist[x]
      /\ \A w \in V \ {root} : \E v \in done : w \in Needs(v) /\ dist[w] = dist[v] + 1
      /\ \A i, j \in DOMAIN q : i < j => dist[q[i]] <= dist[q[j]]
      /\ \A x, y \in ToSet(q) : dist[x] <= dist[y] + 1
  BY DEF BreadthOk
<1>2. fresh \in Seq(Known) /\ Distinct(fresh) /\ F = Needs(u) \ V
  BY FreshIs
<1>3. /\ u \in Known /\ rest \in Seq(Known) /\ ToSet(q) = {u} \cup ToSet(rest) /\ u = q[1]
      /\ Distinct(rest) /\ u \notin ToSet(rest) /\ Len(rest) = Len(q) - 1
      /\ \A i \in 1 .. Len(q) - 1 : rest[i] = q[i + 1]
  BY <1>1, HeadAndTail DEF Taken
<1>4. u \in V /\ u \in ToSet(q)
  BY <1>1, <1>3
<1>5. /\ Len(q) \in Nat /\ Len(rest) \in Nat /\ Len(fresh) \in Nat
      /\ DOMAIN q = 1 .. Len(q) /\ DOMAIN rest = 1 .. Len(rest) /\ DOMAIN fresh = 1 .. Len(fresh)
      /\ \A i \in DOMAIN rest : rest[i] \in ToSet(rest)
      /\ \A i \in DOMAIN fresh : fresh[i] \in F
      /\ \A x \in ToSet(q) : \E i \in DOMAIN q : x = q[i]
  <2>1. /\ Len(q) \in Nat /\ DOMAIN q = 1 .. Len(q)
        /\ \A x \in ToSet(q) : \E i \in DOMAIN q : x = q[i]
    BY <1>1, InsideIs
  <2>2. /\ Len(rest) \in Nat /\ DOMAIN rest = 1 .. Len(rest)
        /\ \A i \in DOMAIN rest : rest[i] \in ToSet(rest)
    BY <1>3, InsideIs
  <2>3. /\ Len(fresh) \in Nat /\ DOMAIN fresh = 1 .. Len(fresh)
        /\ \A i \in DOMAIN fresh : fresh[i] \in F
    BY <1>2, InsideIs
  <2> QED BY <2>1, <2>2, <2>3
<1>6. /\ q2 \in Seq(Known) /\ Len(q2) = Len(rest) + Len(fresh)
      /\ \A i \in 1 .. Len(rest) : q2[i] = rest[i]
      /\ \A i \in 1 .. Len(fresh) : q2[Len(rest) + i] = fresh[i]
  <2>1. rest \in Seq(Known) /\ fresh \in Seq(Known)
    BY <1>2, <1>3
  <2> QED BY <2>1, ConcatAdds
<1>7. ToSet(q2) = ToSet(rest) \cup F
  <2>1. rest \in Seq(Known) /\ fresh \in Seq(Known)
    BY <1>2, <1>3
  <2> QED BY <2>1, ConcatAdds
<1>8. Distinct(q2)
  <2>1. rest \in Seq(Known) /\ fresh \in Seq(Known) /\ Distinct(rest) /\ Distinct(fresh)
    BY <1>2, <1>3
  <2>2. ToSet(rest) \cap ToSet(fresh) = {}
    BY <1>1, <1>2, <1>3
  <2> QED BY <2>1, <2>2, ConcatAdds
<1>9. /\ \A v \in V : dist2[v] = dist[v] /\ dist[v] \in Nat
      /\ \A v \in F : dist2[v] = dist[u] + 1
  BY <1>1 DEF Extends
<1> HIDE DEF F, q2, V2, done
<1>10. V2 = V \cup F /\ done = V \ ToSet(q)
  BY DEF V2, done
<1>11. V2 \ ToSet(q2) = done \cup {u} /\ done \subseteq V
  BY <1>1, <1>2, <1>3, <1>4, <1>7, <1>10
<1>12. \A y \in ToSet(q) : dist[u] <= dist[y]
  <2> SUFFICES ASSUME NEW y \in ToSet(q) PROVE dist[u] <= dist[y]
    OBVIOUS
  <2>1. PICK i \in DOMAIN q : y = q[i]
    BY <1>5
  <2>2. i = 1 \/ 1 < i
    BY <1>5
  <2>3. 1 \in DOMAIN q
    BY <1>5, <2>1
  <2> QED BY <1>1, <1>3, <1>9, <1>4, <2>1, <2>2, <2>3
<1>13. ASSUME NEW w \in Needs(u) PROVE w \in V2 /\ dist2[w] <= dist2[u] + 1
  <2>1. CASE w \notin V
    BY <1>2, <1>4, <1>9, <1>10, <2>1
  <2>2. CASE w \in done
    <3>1. dist[w] <= dist[u] /\ dist[w] \in Nat /\ dist[u] \in Nat
      BY <1>1, <1>4, <1>9, <1>11, <2>2
    <3> QED BY <1>4, <1>9, <1>10, <1>11, <2>2, <3>1
  <2>3. CASE w \in ToSet(q)
    BY <1>1, <1>4, <1>9, <1>10, <2>3
  <2> QED BY <1>10, <2>1, <2>2, <2>3
<1>14. ASSUME NEW v \in V2 \ ToSet(q2)
       PROVE  /\ \A w \in Needs(v) : w \in V2 /\ dist2[w] <= dist2[v] + 1
              /\ \A x \in ToSet(q2) : dist2[v] <= dist2[x]
  <2>1. \A x \in ToSet(rest) : dist2[v] <= dist2[x]
    BY <1>1, <1>3, <1>4, <1>9, <1>11, <1>12
  <2>2. dist[v] <= dist[u] /\ dist[v] \in Nat /\ dist[u] \in Nat /\ dist2[v] = dist[v]
    BY <1>1, <1>4, <1>9, <1>11
  <2>3. \A x \in F : dist2[v] <= dist2[x]
    BY <1>9, <2>2
  <2>4. \A w \in Needs(v) : w \in V2 /\ dist2[w] <= dist2[v] + 1
    BY <1>1, <1>9, <1>10, <1>11, <1>13
  <2> QED BY <1>7, <2>1, <2>3, <2>4
<1>15. ASSUME NEW w \in V2 \ {root}
       PROVE  \E v \in V2 \ ToSet(q2) : w \in Needs(v) /\ dist2[w] = dist2[v] + 1
  <2>1. CASE w \in V
    <3>1. PICK v \in done : w \in Needs(v) /\ dist[w] = dist[v] + 1
      BY <1>1, <2>1
    <3> QED BY <1>9, <1>11, <2>1, <3>1
  <2>2. CASE w \in F
    BY <1>2, <1>4, <1>9, <1>11, <2>2
  <2> QED BY <1>10, <2>1, <2>2
<1>16. ASSUME NEW x \in ToSet(q2), NEW y \in ToSet(q2) PROVE dist2[x] <= dist2[y] + 1
  <2>1. \A z \in ToSet(rest) : /\ dist2[z] = dist[z] /\ dist[z] \in Nat /\ dist[z] <= dist[u] + 1
                               /\ dist[u] <= dist[z]
    BY <1>1, <1>3, <1>4, <1>9, <1>12
  <2>2. dist[u] \in Nat
    BY <1>1, <1>4
  <2>3. x \in ToSet(rest) /\ y \in ToSet(rest) => dist2[x] <= dist2[y] + 1
    BY <1>1, <1>3, <2>1
  <2> QED BY <1>7, <1>9, <2>1, <2>2, <2>3
<1>17. ASSUME NEW i \in DOMAIN q2, NEW j \in DOMAIN q2, i < j PROVE dist2[q2[i]] <= dist2[q2[j]]
  <2>1. DOMAIN q2 = 1 .. Len(rest) + Len(fresh)
    BY <1>6
  <2>2. \A k \in DOMAIN q2 : \/ k \in DOMAIN rest /\ q2[k] = rest[k]
                             \/ k > Len(rest) /\ q2[k] \in F
    <3> SUFFICES ASSUME NEW k \in DOMAIN q2, k \notin DOMAIN rest PROVE k > Len(rest) /\ q2[k] \in F
      BY <1>5, <1>6
    <3> DEFINE l == k - Len(rest)
    <3>1. l \in 1 .. Len(fresh) /\ k = Len(rest) + l /\ k > Len(rest)
      BY <1>5, <2>1
    <3> HIDE DEF l
    <3>2. q2[k] = fresh[l] /\ l \in DOMAIN fresh
      BY <1>5, <1>6, <3>1
    <3> QED BY <1>5, <3>1, <3>2
  <2>3. dist[u] \in Nat
    BY <1>1, <1>4
  <2>4. CASE i \in DOMAIN rest /\ j \in DOMAIN rest
    <3>1. /\ i + 1 \in DOMAIN q /\ j + 1 \in DOMAIN q /\ i + 1 < j + 1
          /\ rest[i] = q[i + 1] /\ rest[j] = q[j + 1]
      BY <1>3, <1>5, <1>17, <2>4
    <3>2. dist[rest[i]] <= dist[rest[j]]
      BY <1>1, <3>1
    <3>3. rest[i] \in V /\ rest[j] \in V
      BY <1>1, <1>3, <1>5, <2>4
    <3> QED BY <1>9, <1>5, <1>6, <2>4, <3>2, <3>3
  <2>5. CASE i \in DOMAIN rest /\ j \notin DOMAIN rest
    <3>1. rest[i] \in ToSet(q) /\ rest[i] \in V /\ q2[i] = rest[i] /\ q2[j] \in F
      BY <1>1, <1>3, <1>5, <1>6, <2>2, <2>5
    <3>2. dist[rest[i]] <= dist[u] + 1
      BY <1>1, <1>4, <3>1
    <3> QED BY <1>9, <2>3, <3>1, <3>2
  <2>6. CASE i \notin DOMAIN rest
    <3>1. j \notin DOMAIN rest
      BY <1>5, <1>17, <2>1, <2>2, <2>6
    <3>2. q2[i] \in F /\ q2[j] \in F
      BY <2>2, <2>6, <3>1
    <3> QED BY <1>9, <2>3, <3>2
  <2> QED BY <2>4, <2>5, <2>6
<1>18. V2 \subseteq Around(root)
  <2>1. Needs(u) \subseteq Around(root)
    BY <1>1, <1>4, AroundIs
  <2> QED BY <1>1, <1>2, <1>10, <2>1
<1>19. BreadthOk(root, q2, V2, dist2)
  <2>1. ToSet(q2) \subseteq V2 /\ root \in V2 /\ dist2[root] = 0
    BY <1>1, <1>3, <1>7, <1>9, <1>10
  <2>2. \A v \in V2 : dist2[v] \in Nat
    BY <1>4, <1>9, <1>10
  <2> QED BY <1>6, <1>8, <1>14, <1>15, <1>16, <1>17, <1>18, <2>1, <2>2 DEF BreadthOk
<1>20. Cardinality(Unsearched(q2, V2)) < Cardinality(Unsearched(q, V))
  <2> DEFINE A == Unsearched(q, V)  B == Unsearched(q2, V2)
  <2>1. B = A \ {u} /\ u \in A /\ A \subseteq Known
    BY <1>3, <1>4, <1>10, <1>11 DEF Unsearched
  <2> HIDE DEF A, B
  <2>2. IsFiniteSet(A)
    BY <2>1, KnownFinite, FS_Subset
  <2>3. Cardinality(A) \in Nat
    BY <2>2, FS_CardinalityType
  <2>4. Cardinality(A \ {u}) = Cardinality(A) - 1
    BY <2>1, <2>2, FS_RemoveElement
  <2>5. Cardinality(B) < Cardinality(A)
    BY <2>1, <2>3, <2>4
  <2> QED BY <2>5 DEF A, B
<1> QED BY <1>4, <1>19, <1>20 DEF F, q2, V2

LEMMA BreadthStarts ==
  ASSUME DependencyInit, NEW root \in Known, NEW dist, dist[root] = 0
  PROVE  BreadthOk(root, <<root>>, {root}, dist) /\ Cardinality(Unsearched(<<root>>, {root})) = Size
<1>1. <<root>> \in Seq(Known) /\ ToSet(<<root>>) = {root} /\ Distinct(<<root>>)
  BY DEF ToSet, Distinct
<1>2. Unsearched(<<root>>, {root}) = Known
  BY <1>1 DEF Unsearched
<1>3. root \in Around(root)
  BY DEF Around
<1>4. \A i, j \in DOMAIN <<root>> : ~(i < j)
  OBVIOUS
<1> QED BY <1>1, <1>2, <1>3, <1>4 DEF BreadthOk, Size

LEMMA UnsearchedCounts ==
  ASSUME NEW q, NEW V
  PROVE  Cardinality(Unsearched(q, V)) \in Nat
BY KnownFinite, FS_Subset, FS_CardinalityType DEF Unsearched

LEMMA BreadthEnds ==
  ASSUME DependencyInit, NEW root \in Known, NEW V, NEW dist, BreadthOk(root, << >>, V, dist)
  PROVE  V = Around(root)
<1>1. ToSet(<< >>) = {}
  BY NothingInside
<1>2. V \subseteq Around(root) /\ root \in V /\ \A v \in V : Needs(v) \subseteq V
  BY <1>1 DEF BreadthOk
<1>3. V \subseteq Known
  BY <1>2, AroundIs
<1> QED BY <1>2, <1>3, AroundIs

LEMMA HeadIsNear ==
  ASSUME NEW root, NEW q, NEW V, NEW dist, BreadthOk(root, q, V, dist), NEW u, NEW rest, Taken(q, u, rest)
  PROVE  u \in ToSet(q) /\ \A y \in ToSet(q) : dist[u] <= dist[y]
<1>1. /\ q \in Seq(Known) /\ ToSet(q) \subseteq V /\ \A v \in V : dist[v] \in Nat
      /\ \A i, j \in DOMAIN q : i < j => dist[q[i]] <= dist[q[j]]
  BY DEF BreadthOk
<1>2. u = q[1] /\ q # << >>
  BY <1>1, HeadAndTail DEF Taken
<1>3. /\ DOMAIN q = 1 .. Len(q) /\ Len(q) \in Nat /\ 1 \in DOMAIN q
      /\ \A y \in ToSet(q) : \E i \in DOMAIN q : y = q[i]
  BY <1>1, <1>2, InsideIs
<1>4. u \in ToSet(q)
  BY <1>2, <1>3 DEF ToSet
<1>5. ASSUME NEW y \in ToSet(q) PROVE dist[u] <= dist[y]
  <2>1. PICK i \in DOMAIN q : y = q[i]
    BY <1>3
  <2>2. i = 1 \/ 1 < i
    BY <1>3
  <2>3. dist[u] \in Nat
    BY <1>1, <1>4
  <2> QED BY <1>1, <1>2, <1>3, <2>1, <2>2, <2>3
<1> QED BY <1>4, <1>5

-----------------------------------------------------------------------------
(* getDistances.                                                           *)

MeasureInv(root) == {s \in MeasureState : BreadthOk(root, s.queue, s.visited, s.distance)}
MeasureLeft == [s \in MeasureState |-> Cardinality(Unsearched(s.queue, s.visited))]

MeasureLater(s, t, u, rest, fresh) ==
  /\ Taken(s.queue, u, rest) /\ Fresh(u, s.visited, fresh)
  /\ t.queue = rest \o fresh /\ t.visited = s.visited \cup ToSet(fresh)
  /\ t.distance = [v \in Known |-> IF v \in ToSet(fresh) THEN s.distance[u] + 1 ELSE s.distance[v]]
  /\ t = [queue |-> t.queue, visited |-> t.visited, distance |-> t.distance]

LEMMA MeasureIs ==
  ASSUME NEW s \in MeasureState
  PROVE  IF s.queue = << >> THEN Measure[s] = s
         ELSE \E u, rest, fresh : MeasureLater(s, Measure[s], u, rest, fresh)
<1>1. CASE s.queue = << >>
  BY <1>1 DEF Measure
<1>2. CASE s.queue # << >>
  <2> DEFINE u == Head(s.queue)  rest == Tail(s.queue)  fresh == Among(Deps(u), Known \ s.visited)
             q == rest \o fresh  V == s.visited \cup ToSet(fresh)
             dist == [v \in Known |-> IF v \in ToSet(fresh) THEN s.distance[u] + 1 ELSE s.distance[v]]
  <2>1. Measure[s] = [queue |-> q, visited |-> V, distance |-> dist]
    BY <1>2 DEF Measure
  <2>2. Taken(s.queue, u, rest) /\ Fresh(u, s.visited, fresh)
    BY <1>2 DEF Taken, Fresh
  <2>3. Measure[s].queue = q /\ Measure[s].visited = V /\ Measure[s].distance = dist
    <3> HIDE DEF q, V, dist
    <3> QED BY <2>1
  <2>4. MeasureLater(s, Measure[s], u, rest, fresh)
    <3>1. Measure[s] = [queue |-> Measure[s].queue, visited |-> Measure[s].visited,
                        distance |-> Measure[s].distance]
      <4> HIDE DEF q, V, dist
      <4> QED BY <2>1, <2>3
    <3> HIDE DEF u, rest, fresh
    <3> QED BY <2>2, <2>3, <3>1 DEF MeasureLater
  <2> HIDE DEF u, rest, fresh
  <2> QED BY <1>2, <2>4
<1> QED BY <1>1, <1>2

LEMMA MeasureIsLoop ==
  ASSUME DependencyInit
  PROVE  IsLoop(Measure, MeasureState)
<1> SUFFICES ASSUME NEW s \in MeasureState PROVE Measure[s] \in MeasureState
  BY DEF IsLoop, Measure
<1>1. CASE s.queue = << >>
  BY <1>1, MeasureIs
<1>2. CASE s.queue # << >>
  <2> DEFINE t == Measure[s]
  <2>1. PICK u, rest, fresh : MeasureLater(s, t, u, rest, fresh)
    BY <1>2, MeasureIs
  <2>2. /\ s.queue \in Seq(Known) /\ s.visited \in SUBSET Known /\ s.distance \in [Known -> Nat]
    BY DEF MeasureState
  <2>3. u \in Known /\ rest \in Seq(Known)
    BY <2>1, <2>2, HeadAndTail DEF MeasureLater, Taken
  <2>4. fresh \in Seq(Known) /\ ToSet(fresh) \subseteq Known
    BY <2>1, FreshIs, InsideIs DEF MeasureLater
  <2>5. rest \o fresh \in Seq(Known)
    BY <2>3, <2>4
  <2> HIDE DEF t
  <2>6. t.queue \in Seq(Known) /\ t.visited \in SUBSET Known
    BY <2>1, <2>2, <2>4, <2>5 DEF MeasureLater
  <2>7. t.distance \in [Known -> Nat]
    BY <2>1, <2>2, <2>3 DEF MeasureLater
  <2>8. t \in MeasureState
    BY <2>1, <2>6, <2>7 DEF MeasureLater, MeasureState
  <2> QED BY <2>8 DEF t
<1> QED BY <1>1, <1>2

LEMMA MeasureProgresses ==
  ASSUME DependencyInit, NEW root \in Known
  PROVE  /\ Progresses(Measure, MeasureInv(root), MeasureLeft)
         /\ \A s \in MeasureInv(root) : Measure[s] = s => s.queue = << >>
<1> SUFFICES ASSUME NEW s \in MeasureInv(root)
             PROVE  /\ Measure[s] \in MeasureInv(root) /\ MeasureLeft[s] \in Nat
                    /\ Measure[s] = s \/ MeasureLeft[Measure[s]] < MeasureLeft[s]
                    /\ Measure[s] = s => s.queue = << >>
  BY DEF Progresses
<1> DEFINE t == Measure[s]
<1>1. s \in MeasureState /\ BreadthOk(root, s.queue, s.visited, s.distance) /\ t \in MeasureState
  BY MeasureIsLoop DEF MeasureInv, IsLoop
<1>2. /\ MeasureLeft[s] = Cardinality(Unsearched(s.queue, s.visited))
      /\ MeasureLeft[t] = Cardinality(Unsearched(t.queue, t.visited)) /\ MeasureLeft[s] \in Nat
  BY <1>1, UnsearchedCounts DEF MeasureLeft
<1>3. CASE s.queue = << >>
  BY <1>1, <1>2, <1>3, MeasureIs
<1>4. CASE s.queue # << >>
  <2>1. PICK u, rest, fresh : MeasureLater(s, t, u, rest, fresh)
    BY <1>1, <1>4, MeasureIs
  <2> HIDE DEF t
  <2> DEFINE q == s.queue  V == s.visited  dist == s.distance  dist2 == t.distance
  <2>2. V \subseteq Known
    BY <1>1 DEF MeasureState
  <2>3. ToSet(fresh) \subseteq Known /\ ToSet(fresh) \cap V = {}
    BY <2>1, FreshIs, InsideIs DEF MeasureLater
  <2>4. Extends(dist2, dist, V, ToSet(fresh), u)
    BY <2>1, <2>2, <2>3 DEF Extends, MeasureLater
  <2>5. /\ Taken(q, u, rest) /\ Fresh(u, V, fresh) /\ BreadthOk(root, q, V, dist)
        /\ t.queue = rest \o fresh /\ t.visited = V \cup ToSet(fresh)
    BY <1>1, <2>1 DEF MeasureLater
  <2> HIDE DEF q, V, dist, dist2
  <2>6. /\ BreadthOk(root, rest \o fresh, V \cup ToSet(fresh), dist2)
        /\ Cardinality(Unsearched(rest \o fresh, V \cup ToSet(fresh))) < Cardinality(Unsearched(q, V))
    BY <2>4, <2>5, BreadthStep
  <2>7. t \in MeasureInv(root)
    BY <1>1, <2>5, <2>6 DEF MeasureInv, dist2
  <2> DEFINE k == MeasureLeft[s]  l == MeasureLeft[t]
  <2>8. l < k /\ k \in Nat
    BY <1>2, <2>5, <2>6 DEF q, V
  <2>9. l # k
    <3> HIDE DEF k, l
    <3> QED BY <2>8
  <2> QED BY <1>2, <2>7, <2>8, <2>9 DEF t
<1> QED BY <1>3, <1>4

(* No edge shortens a distance and some edge accounts for each.            *)
DistOk(root, d) ==
  /\ d \in [Around(root) -> Nat] /\ d[root] = 0
  /\ \A v \in Around(root) : \A w \in Needs(v) : w \in Around(root) /\ d[w] <= d[v] + 1
  /\ \A w \in Around(root) \ {root} : \E v \in Around(root) : w \in Needs(v) /\ d[w] = d[v] + 1

LEMMA DistancesAre ==
  ASSUME DependencyInit, NEW root \in Known
  PROVE  DistOk(root, Distances(root))
<1> DEFINE s0 == [queue |-> <<root>>, visited |-> {root}, distance |-> [v \in Known |-> 0]]
           s == Repeat(Measure, s0, Size)
<1>1. s0 \in MeasureInv(root) /\ MeasureLeft[s0] = Size
  <2> DEFINE zero == [v \in Known |-> 0]  q == <<root>>  V == {root}
  <2>1. BreadthOk(root, q, V, zero) /\ Cardinality(Unsearched(q, V)) = Size
    <3>1. zero[root] = 0
      OBVIOUS
    <3> HIDE DEF zero
    <3> QED BY <3>1, BreadthStarts
  <2>2. q \in Seq(Known) /\ V \in SUBSET Known /\ zero \in [Known -> Nat]
    OBVIOUS
  <2>3. s0 = [queue |-> q, visited |-> V, distance |-> zero]
    OBVIOUS
  <2> HIDE DEF s0, q, V, zero
  <2>4. s0 \in MeasureState /\ s0.queue = q /\ s0.visited = V /\ s0.distance = zero
    BY <2>2, <2>3 DEF MeasureState
  <2> QED BY <2>1, <2>4 DEF MeasureInv, MeasureLeft
<1>2. s \in MeasureInv(root) /\ Measure[s] = s
  <2> DEFINE I == MeasureInv(root)
  <2> HIDE DEF s0
  <2>1. I \subseteq MeasureState
    BY DEF MeasureInv
  <2>2. IsLoop(Measure, MeasureState) /\ Progresses(Measure, I, MeasureLeft) /\ s0 \in I
    BY <1>1, MeasureIsLoop, MeasureProgresses
  <2>3. Size \in Nat
    BY KnownFinite
  <2>4. MeasureLeft[s0] <= Size
    BY <1>1, <2>3
  <2> HIDE DEF I
  <2>5. Ended(Measure, I, s)
    BY <2>1, <2>2, <2>3, <2>4, RepeatEnds
  <2> QED BY <2>5 DEF I, Ended
<1>3. Distances(root) = [v \in s.visited |-> s.distance[v]]
  BY DEF Distances
<1> HIDE DEF s
<1>4. s.queue = << >> /\ BreadthOk(root, s.queue, s.visited, s.distance)
  BY <1>2, MeasureProgresses DEF MeasureInv
<1> DEFINE V == s.visited  dist == s.distance  d == Distances(root)
<1>5. BreadthOk(root, << >>, V, dist)
  BY <1>4
<1>6. d = [v \in V |-> dist[v]]
  BY <1>3
<1> HIDE DEF V, dist, d
<1>7. V = Around(root)
  BY <1>5, BreadthEnds
<1>8. /\ dist[root] = 0 /\ root \in V /\ \A v \in V : dist[v] \in Nat
      /\ \A v \in V : \A w \in Needs(v) : w \in V /\ dist[w] <= dist[v] + 1
      /\ \A w \in V \ {root} : \E v \in V : w \in Needs(v) /\ dist[w] = dist[v] + 1
  BY <1>5, NothingInside DEF BreadthOk
<1>9. DistOk(root, d)
  BY <1>6, <1>7, <1>8 DEF DistOk
<1> QED BY <1>9 DEF d

-----------------------------------------------------------------------------
(* findPath.                                                               *)

(* All that is nearer than the head of the queue has been searched from,   *)
(* so what the head reaches first is one step further than the head.       *)
LEMMA NearIsSearched ==
  ASSUME DependencyInit, NEW root \in Known, NEW d, DistOk(root, d),
         NEW q, NEW V, BreadthOk(root, q, V, d), NEW u, NEW rest, Taken(q, u, rest)
  PROVE  /\ u \in Around(root) /\ \A v \in Around(root) : d[v] < d[u] => v \in V \ ToSet(q)
         /\ \A w \in Needs(u) \ V : w \in Around(root) /\ d[w] = d[u] + 1
<1> DEFINE far == {v \in Around(root) : d[v] < d[u] /\ v \notin V}
           T == {d[v] : v \in far}
<1>1. /\ d \in [Around(root) -> Nat] /\ d[root] = 0
      /\ \A v \in Around(root) : \A w \in Needs(v) : w \in Around(root) /\ d[w] <= d[v] + 1
      /\ \A w \in Around(root) \ {root} : \E v \in Around(root) : w \in Needs(v) /\ d[w] = d[v] + 1
  BY DEF DistOk
<1>2. /\ ToSet(q) \subseteq V /\ V \subseteq Around(root) /\ root \in V
      /\ \A v \in V \ ToSet(q) : \A w \in Needs(v) : w \in V
  BY DEF BreadthOk
<1>3. u \in ToSet(q) /\ \A y \in ToSet(q) : d[u] <= d[y]
  BY HeadIsNear
<1>4. u \in Around(root)
  BY <1>2, <1>3
<1>5. \A v \in Around(root) : d[v] \in Nat
  BY <1>1
<1>6. ASSUME NEW w \in Around(root), w \notin V
      PROVE  \E v \in Around(root) : d[w] = d[v] + 1 /\ (v \in V => ~(d[v] < d[u]))
  <2>1. PICK v \in Around(root) : w \in Needs(v) /\ d[w] = d[v] + 1
    BY <1>1, <1>2, <1>6
  <2>2. v \in V => v \in ToSet(q)
    BY <1>2, <1>6, <2>1
  <2> QED BY <1>3, <1>4, <1>5, <2>1, <2>2
<1>7. far = {}
  <2> SUFFICES ASSUME far # {} PROVE FALSE
    OBVIOUS
  <2>1. T \in SUBSET Nat /\ T # {}
    BY <1>5
  <2>2. PICK m \in T : \A n \in T : ~(n < m)
    <3> HIDE DEF T
    <3> QED BY <2>1, LeastOne
  <2>3. PICK w \in far : m = d[w]
    OBVIOUS
  <2>4. PICK v \in Around(root) : d[w] = d[v] + 1 /\ (v \in V => ~(d[v] < d[u]))
    BY <1>6, <2>3
  <2>5. d[v] < d[w] /\ d[v] < d[u]
    BY <1>4, <1>5, <2>3, <2>4
  <2>6. v \in far
    BY <2>4, <2>5
  <2> QED BY <2>2, <2>3, <2>5, <2>6
<1>8. \A v \in Around(root) : d[v] < d[u] => v \in V \ ToSet(q)
  BY <1>3, <1>4, <1>5, <1>7
<1>9. ASSUME NEW w \in Needs(u), w \notin V PROVE w \in Around(root) /\ d[w] = d[u] + 1
  <2>1. w \in Around(root) /\ d[w] <= d[u] + 1
    BY <1>1, <1>4
  <2>2. PICK v \in Around(root) : d[w] = d[v] + 1 /\ (v \in V => ~(d[v] < d[u]))
    BY <1>6, <1>9, <2>1
  <2>3. ~(d[v] < d[u])
    BY <1>8, <2>2
  <2> QED BY <1>4, <1>5, <2>1, <2>2, <2>3
<1> QED BY <1>4, <1>8, <1>9

IsShortest(root, p, d) ==
  /\ p \in Seq(Known) /\ p # << >> /\ p[1] = root /\ Last(p) \in Around(root)
  /\ Len(p) = d[Last(p)] + 1 /\ \A i \in 1 .. Len(p) - 1 : p[i + 1] \in Needs(p[i])

LEMMA ShortestGrows ==
  ASSUME NEW root, NEW p, NEW d, IsShortest(root, p, d), NEW w \in Known, w \in Needs(Last(p)),
         w \in Around(root), d[w] = d[Last(p)] + 1
  PROVE  IsShortest(root, Append(p, w), d) /\ Last(Append(p, w)) = w
<1> DEFINE t == Append(p, w)  n == Len(p)  k == d[Last(p)]
<1>1. /\ p \in Seq(Known) /\ p # << >> /\ p[1] = root /\ n = k + 1
      /\ \A i \in 1 .. n - 1 : p[i + 1] \in Needs(p[i])
  BY DEF IsShortest
<1>2. Last(p) = p[n] /\ n \in Nat \ {0}
  BY <1>1, FrontAndLast
<1>3. /\ t \in Seq(Known) /\ Len(t) = n + 1 /\ t # << >> /\ t[n + 1] = w
      /\ \A i \in 1 .. n : t[i] = p[i]
  BY <1>1, AppendAdds
<1>4. Last(t) = t[Len(t)]
  <2> HIDE DEF t
  <2> QED BY <1>3, FrontAndLast
<1> HIDE DEF t, n
<1>5. Last(t) = w
  BY <1>3, <1>4
<1>6. t[1] = root
  BY <1>1, <1>2, <1>3
<1>7. ASSUME NEW i \in 1 .. Len(t) - 1 PROVE t[i + 1] \in Needs(t[i])
  <2>1. i \in 1 .. n
    BY <1>2, <1>3
  <2>2. CASE i = n
    BY <1>2, <1>3, <2>1, <2>2
  <2>3. CASE i # n
    <3>1. i \in 1 .. n - 1 /\ i + 1 \in 1 .. n
      BY <1>2, <2>1, <2>3
    <3> QED BY <1>1, <1>3, <2>1, <3>1
  <2> QED BY <2>2, <2>3
<1>8. Len(t) = d[Last(t)] + 1
  <2>1. d[w] = n
    BY <1>1
  <2> QED BY <1>3, <1>5, <2>1
<1> QED BY <1>3, <1>5, <1>6, <1>7, <1>8 DEF IsShortest, t

Ends(queue) == [i \in DOMAIN queue |-> Last(queue[i])]

(* A node in the queue of paths, and those that follow from it.            *)
PathTaken(queue, p, rest) == queue # << >> /\ p = Head(queue) /\ rest = Tail(queue)
Longer(p, fresh) == [i \in DOMAIN fresh |-> Append(p, fresh[i])]

AreShortest(root, queue, d) == \A i \in DOMAIN queue : IsShortest(root, queue[i], d)

LEMMA EndsTaken ==
  ASSUME NEW root, NEW d, NEW queue \in Seq(Seq(Known)), AreShortest(root, queue, d),
         NEW p, NEW rest, PathTaken(queue, p, rest), NEW fresh \in Seq(Known)
  PROVE  /\ Taken(Ends(queue), Last(p), Ends(rest)) /\ IsShortest(root, p, d) /\ p \in Seq(Known)
         /\ rest \in Seq(Seq(Known)) /\ AreShortest(root, rest, d)
         /\ Ends(rest \o Longer(p, fresh)) = Ends(rest) \o fresh
         /\ Longer(p, fresh) \in Seq(Seq(Known))
         /\ rest \o Longer(p, fresh) \in Seq(Seq(Known))
<1> DEFINE X == Seq(Known)  more == Longer(p, fresh)  n == Len(rest)  m == Len(fresh)
<1>1. queue \in Seq(X) /\ queue # << >> /\ DOMAIN queue = 1 .. Len(queue) /\ Len(queue) \in Nat
  BY DEF PathTaken
<1>2. /\ p \in X /\ rest \in Seq(X) /\ p = queue[1] /\ n = Len(queue) - 1
      /\ \A i \in 1 .. Len(queue) - 1 : rest[i] = queue[i + 1]
  <2> HIDE DEF X
  <2> QED BY <1>1, HeadAndTail DEF PathTaken
<1>3. /\ DOMAIN rest = 1 .. n /\ n \in Nat /\ 1 \in DOMAIN queue
      /\ \A i \in DOMAIN rest : i + 1 \in DOMAIN queue /\ rest[i] = queue[i + 1]
  <2>1. n \in Nat /\ DOMAIN rest = 1 .. n
    <3> HIDE DEF X
    <3> QED BY <1>2, InsideIs
  <2> HIDE DEF n, X
  <2> QED BY <1>1, <1>2, <2>1
<1>4. IsShortest(root, p, d) /\ AreShortest(root, rest, d)
  BY <1>2, <1>3 DEF AreShortest
<1>5. \A i \in DOMAIN queue : Last(queue[i]) \in Known
  <2> SUFFICES ASSUME NEW i \in DOMAIN queue PROVE Last(queue[i]) \in Known
    OBVIOUS
  <2>1. queue[i] \in Seq(Known) /\ queue[i] # << >>
    BY DEF AreShortest, IsShortest
  <2> QED BY <2>1, FrontAndLast
<1>6. Ends(queue) \in Seq(Known) /\ Len(Ends(queue)) = Len(queue)
  <2> DEFINE k == Len(queue)
  <2>1. Ends(queue) = [i \in 1 .. k |-> Last(queue[i])] /\ k \in Nat
    BY <1>1 DEF Ends
  <2>2. \A i \in 1 .. k : Last(queue[i]) \in Known
    BY <1>1, <1>5
  <2> HIDE DEF k
  <2> QED BY <2>1, <2>2 DEF k
<1>7. Ends(rest) = [i \in 1 .. n |-> Last(rest[i])] /\ \A i \in 1 .. n : Last(rest[i]) \in Known
  BY <1>3, <1>5 DEF Ends
<1>8. Ends(rest) \in Seq(Known) /\ Len(Ends(rest)) = n
  <2> DEFINE e == Ends(rest)  last == [i \in 1 .. n |-> Last(rest[i])]
  <2>1. n \in Nat /\ e = last /\ last \in [1 .. n -> Known]
    BY <1>3, <1>7
  <2> HIDE DEF n, e, last
  <2>2. last \in Seq(Known) /\ Len(last) = n
    BY <2>1
  <2> QED BY <2>1, <2>2 DEF e
<1>9. Ends(queue) # << >> /\ Head(Ends(queue)) = Last(p) /\ Tail(Ends(queue)) = Ends(rest)
  <2> DEFINE e == Ends(queue)  f == Ends(rest)
  <2>1. e \in Seq(Known) /\ Len(e) = n + 1 /\ f \in Seq(Known) /\ Len(f) = n
    BY <1>1, <1>2, <1>6, <1>8
  <2>2. /\ \A i \in 1 .. n : f[i] = Last(queue[i + 1])
        /\ \A i \in 1 .. n + 1 : e[i] = Last(queue[i])
    BY <1>1, <1>2, <1>3, <1>7 DEF Ends
  <2> HIDE DEF e, f, n
  <2>3. e # << >>
    BY <1>3, <2>1
  <2>4. Head(e) = e[1]
    BY <2>1, <2>3, HeadAndTail
  <2>5. Head(e) = Last(p)
    BY <1>2, <1>3, <2>2, <2>4
  <2> DEFINE g == Tail(e)
  <2>6. g \in Seq(Known) /\ Len(g) = n /\ \A i \in 1 .. n : g[i] = e[i + 1]
    BY <1>3, <2>1, <2>3, HeadAndTail
  <2> HIDE DEF g
  <2>7. \A i \in 1 .. n : g[i] = f[i]
    <3> SUFFICES ASSUME NEW i \in 1 .. n PROVE g[i] = f[i]
      OBVIOUS
    <3>1. i + 1 \in 1 .. n + 1
      BY <1>3
    <3>2. e[i + 1] = Last(queue[i + 1])
      BY <2>2, <3>1
    <3> QED BY <2>2, <2>6, <3>2
  <2>8. g = f
    BY <1>3, <2>1, <2>6, <2>7
  <2> QED BY <2>3, <2>5, <2>8 DEF e, f, g
<1>10. more \in Seq(X) /\ Len(more) = m /\ \A i \in 1 .. m : Last(more[i]) = fresh[i]
  <2>1. DOMAIN fresh = 1 .. m /\ m \in Nat /\ \A i \in 1 .. m : fresh[i] \in Known
    OBVIOUS
  <2>2. ASSUME NEW i \in 1 .. m PROVE Append(p, fresh[i]) \in X /\ Last(Append(p, fresh[i])) = fresh[i]
    <3> DEFINE x == fresh[i]  t == Append(p, x)
    <3>1. x \in Known
      BY <2>1
    <3> HIDE DEF x
    <3>2. t \in Seq(Known) /\ t # << >> /\ t[Len(p) + 1] = x /\ Len(t) = Len(p) + 1
      <4>1. p \in Seq(Known)
        BY <1>2
      <4>2. t \in Seq(Known) /\ t # << >> /\ Len(t) = Len(p) + 1
        BY <3>1, <4>1, AppendAdds
      <4>3. t[Len(p) + 1] = x
        BY <3>1, <4>1, AppendAdds
      <4> QED BY <4>2, <4>3
    <3> HIDE DEF t
    <3>3. Last(t) = t[Len(t)]
      BY <3>2, FrontAndLast
    <3> QED BY <3>2, <3>3 DEF t, x
  <2>3. more = [i \in 1 .. m |-> Append(p, fresh[i])]
    BY <2>1 DEF Longer
  <2> HIDE DEF m, X, more
  <2> QED BY <2>1, <2>2, <2>3
<1>11. Ends(rest \o more) = Ends(rest) \o fresh /\ rest \o more \in Seq(X)
  <2> DEFINE e == Ends(rest \o more)  f == Ends(rest)  g == f \o fresh  h == rest \o more
  <2>1. /\ h \in Seq(X) /\ Len(h) = n + m
        /\ \A i \in 1 .. n : h[i] = rest[i]
        /\ \A i \in 1 .. m : h[n + i] = more[i]
    <3> HIDE DEF X, more
    <3>1. rest \in Seq(X) /\ more \in Seq(X)
      BY <1>2, <1>10
    <3>2. h \in Seq(X) /\ Len(h) = Len(rest) + Len(more)
      BY <3>1, ConcatAdds
    <3>3. (\A i \in 1 .. Len(rest) : h[i] = rest[i]) /\ \A i \in 1 .. Len(more) : h[Len(rest) + i] = more[i]
      BY <3>1, ConcatAdds
    <3> QED BY <1>10, <3>2, <3>3
  <2>2. /\ g \in Seq(Known) /\ Len(g) = n + m
        /\ \A i \in 1 .. n : g[i] = f[i]
        /\ \A i \in 1 .. m : g[n + i] = fresh[i]
    <3> HIDE DEF f
    <3>1. f \in Seq(Known)
      BY <1>8 DEF f
    <3>2. g \in Seq(Known) /\ Len(g) = Len(f) + Len(fresh)
      BY <3>1, ConcatAdds
    <3>3. (\A i \in 1 .. Len(f) : g[i] = f[i]) /\ \A i \in 1 .. Len(fresh) : g[Len(f) + i] = fresh[i]
      BY <3>1, ConcatAdds
    <3>4. Len(f) = n
      BY <1>8 DEF f
    <3> QED BY <3>2, <3>3, <3>4
  <2>3. DOMAIN h = 1 .. n + m /\ DOMAIN g = 1 .. n + m /\ n \in Nat /\ m \in Nat
    <3>1. Len(fresh) \in Nat
      BY InsideIs
    <3>2. DOMAIN g = 1 .. Len(g)
      <4> HIDE DEF g
      <4> QED BY <2>2, InsideIs
    <3>3. DOMAIN h = 1 .. Len(h)
      <4> HIDE DEF h, X
      <4> QED BY <2>1, InsideIs
    <3> QED BY <1>3, <2>1, <2>2, <3>1, <3>2, <3>3
  <2>4. e = [i \in 1 .. n + m |-> Last(h[i])]
    BY <2>3 DEF Ends
  <2> HIDE DEF n, m, e, g, h, more
  <2>5. ASSUME NEW i \in 1 .. n + m PROVE Last(h[i]) = g[i]
    <3>1. CASE i \in 1 .. n
      BY <1>7, <2>1, <2>2, <3>1 DEF f
    <3>2. CASE i \notin 1 .. n
      <4> DEFINE j == i - n
      <4>1. j \in 1 .. m /\ i = n + j
        BY <2>3, <3>2
      <4> HIDE DEF j
      <4> QED BY <1>10, <2>1, <2>2, <4>1
    <3> QED BY <3>1, <3>2
  <2>6. g = [i \in 1 .. n + m |-> g[i]]
    BY <2>2, <2>3
  <2>7. e = g
    BY <2>4, <2>5, <2>6
  <2> QED BY <2>1, <2>7 DEF e, f, g, h
<1>12. Taken(Ends(queue), Last(p), Ends(rest))
  BY <1>9 DEF Taken
<1> QED BY <1>2, <1>4, <1>10, <1>11, <1>12

SearchFinds(s, t, p, to) ==
  t.queue = s.queue /\ t.visited = s.visited /\ t.path = Append(p, to)
SearchGoesOn(s, t, p, rest, fresh) ==
  /\ t.queue = rest \o Longer(p, fresh) /\ t.visited = s.visited \cup ToSet(fresh)
  /\ t.path = s.path
SearchLater(s, t, to, p, rest, fresh) ==
  /\ PathTaken(s.queue, p, rest) /\ Fresh(Last(p), s.visited, fresh)
  /\ IF to \in ToSet(fresh) THEN SearchFinds(s, t, p, to) ELSE SearchGoesOn(s, t, p, rest, fresh)

LEMMA SearchIs ==
  ASSUME DependencyInit, NEW to, NEW s \in SearchState
  PROVE  /\ Search(to)[s] \in SearchState
         /\ IF s.queue = << >> \/ s.path # << >> THEN Search(to)[s] = s
            ELSE \E p, rest, fresh : SearchLater(s, Search(to)[s], to, p, rest, fresh)
<1> DEFINE t == Search(to)[s]
<1>1. CASE s.queue = << >> \/ s.path # << >>
  BY <1>1 DEF Search
<1>2. CASE ~(s.queue = << >> \/ s.path # << >>)
  <2> DEFINE X == Seq(Known)  p == Head(s.queue)  rest == Tail(s.queue)
             fresh == Among(Deps(Last(p)), Known \ s.visited)  more == Longer(p, fresh)
  <2>1. t = IF to \in ToSet(fresh) THEN [s EXCEPT !.path = Append(p, to)]
            ELSE [s EXCEPT !.queue = rest \o more, !.visited = s.visited \cup ToSet(fresh)]
    BY <1>2 DEF Search, Longer
  <2>2. PathTaken(s.queue, p, rest) /\ Fresh(Last(p), s.visited, fresh)
    BY <1>2 DEF PathTaken, Fresh
  <2>3. /\ s.queue \in Seq(X) /\ s.visited \in SUBSET Known /\ s.path \in Seq(Known)
        /\ s = [queue |-> s.queue, visited |-> s.visited, path |-> s.path]
    BY DEF SearchState
  <2>4. p \in X /\ rest \in Seq(X)
    <3> DEFINE q == s.queue
    <3>1. q \in Seq(X) /\ q # << >>
      BY <1>2, <2>3
    <3> HIDE DEF q, X
    <3>2. Head(q) \in X /\ Tail(q) \in Seq(X)
      BY <3>1, HeadAndTail
    <3> QED BY <3>2 DEF q
  <2> HIDE DEF t, p, rest, fresh
  <2>5. fresh \in Seq(Known) /\ ToSet(fresh) \subseteq Known
    BY <2>2, FreshIs, InsideIs
  <2>6. more \in Seq(X)
    <3> DEFINE m == Len(fresh)
    <3>1. m \in Nat /\ more = [i \in 1 .. m |-> Append(p, fresh[i])] /\ \A i \in 1 .. m : fresh[i] \in Known
      BY <2>5 DEF Longer
    <3>2. \A i \in 1 .. m : Append(p, fresh[i]) \in X
      BY <2>4, <3>1
    <3> HIDE DEF m, X, more
    <3> QED BY <3>1, <3>2
  <2> HIDE DEF more
  <2>7. rest \o more \in Seq(X)
    <3> HIDE DEF X
    <3> QED BY <2>4, <2>6
  <2>8. CASE to \in ToSet(fresh)
    <3>1. Append(p, to) \in Seq(Known)
      BY <2>4, <2>5, <2>8
    <3>2. t = [s EXCEPT !.path = Append(p, to)]
      BY <2>1, <2>8
    <3> DEFINE path == Append(p, to)
    <3> HIDE DEF path, X
    <3>3. t.queue = s.queue /\ t.visited = s.visited /\ t.path = path /\ t \in SearchState
      BY <2>3, <3>1, <3>2 DEF SearchState, path, X
    <3>4. SearchLater(s, t, to, p, rest, fresh)
      BY <2>2, <2>8, <3>3 DEF SearchLater, SearchFinds, path
    <3> QED BY <1>2, <3>3, <3>4 DEF t
  <2>9. CASE to \notin ToSet(fresh)
    <3> DEFINE queue == rest \o more  V == s.visited \cup ToSet(fresh)
    <3>1. t = [s EXCEPT !.queue = queue, !.visited = V]
      BY <2>1, <2>9
    <3>2. queue \in Seq(X) /\ V \in SUBSET Known
      BY <2>3, <2>5, <2>7
    <3> HIDE DEF queue, V
    <3>3. t.queue = queue /\ t.visited = V /\ t.path = s.path /\ t \in SearchState
      BY <2>3, <3>1, <3>2 DEF SearchState
    <3>4. SearchLater(s, t, to, p, rest, fresh)
      BY <2>2, <2>9, <3>3 DEF SearchLater, SearchGoesOn, queue, V, more
    <3> QED BY <1>2, <3>3, <3>4 DEF t
  <2> QED BY <2>8, <2>9
<1> QED BY <1>1, <1>2

SearchInv(root, to, d) ==
  {s \in SearchState :
     /\ BreadthOk(root, Ends(s.queue), s.visited, d) /\ AreShortest(root, s.queue, d)
     /\ to \notin s.visited
     /\ s.path # << >> => IsShortest(root, s.path, d) /\ Last(s.path) = to}
SearchLeft == [s \in SearchState |->
  IF s.path # << >> THEN 0 ELSE Cardinality(Unsearched(Ends(s.queue), s.visited))]

LEMMA SearchIsLoop ==
  ASSUME DependencyInit, NEW to
  PROVE  IsLoop(Search(to), SearchState)
<1>1. \A s \in SearchState : Search(to)[s] \in SearchState
  BY SearchIs
<1> DEFINE f == Search(to)
<1>2. f = [s \in SearchState |-> f[s]]
  BY DEF Search
<1> HIDE DEF f
<1>3. \A s \in SearchState : f[s] \in SearchState
  BY <1>1 DEF f
<1>4. f \in [SearchState -> SearchState]
  BY <1>2, <1>3
<1> QED BY <1>4 DEF IsLoop, f

LEMMA SearchProgresses ==
  ASSUME DependencyInit, NEW root \in Known, NEW to, NEW d, DistOk(root, d)
  PROVE  /\ Progresses(Search(to), SearchInv(root, to, d), SearchLeft)
         /\ \A s \in SearchInv(root, to, d) :
              Search(to)[s] = s => s.queue = << >> \/ s.path # << >>
<1> SUFFICES ASSUME NEW s \in SearchInv(root, to, d)
             PROVE  /\ Search(to)[s] \in SearchInv(root, to, d) /\ SearchLeft[s] \in Nat
                    /\ Search(to)[s] = s \/ SearchLeft[Search(to)[s]] < SearchLeft[s]
                    /\ Search(to)[s] = s => s.queue = << >> \/ s.path # << >>
  BY DEF Progresses
<1> DEFINE t == Search(to)[s]
<1>1. /\ s \in SearchState /\ t \in SearchState /\ s.queue \in Seq(Seq(Known))
      /\ s.visited \in SUBSET Known
      /\ BreadthOk(root, Ends(s.queue), s.visited, d) /\ AreShortest(root, s.queue, d)
      /\ to \notin s.visited
  BY SearchIs DEF SearchInv, SearchState
<1>2. SearchLeft[s] = IF s.path # << >> THEN 0 ELSE Cardinality(Unsearched(Ends(s.queue), s.visited))
  BY <1>1 DEF SearchLeft
<1>3. SearchLeft[t] = IF t.path # << >> THEN 0 ELSE Cardinality(Unsearched(Ends(t.queue), t.visited))
  BY <1>1 DEF SearchLeft
<1>4. SearchLeft[s] \in Nat
  BY <1>2, UnsearchedCounts
<1>5. CASE s.queue = << >> \/ s.path # << >>
  BY <1>1, <1>4, <1>5, SearchIs
<1>6. CASE ~(s.queue = << >> \/ s.path # << >>)
  <2>1. PICK p, rest, fresh : SearchLater(s, t, to, p, rest, fresh)
    BY <1>1, <1>6, SearchIs
  <2> HIDE DEF t
  <2> DEFINE queue == s.queue  V == s.visited  u == Last(p)  q == Ends(queue)  r == Ends(rest)
             q2 == r \o fresh  V2 == V \cup ToSet(fresh)
             a == Cardinality(Unsearched(q2, V2))  b == Cardinality(Unsearched(q, V))
  <2>2. PathTaken(queue, p, rest) /\ Fresh(u, V, fresh)
    BY <2>1 DEF SearchLater
  <2>3. fresh \in Seq(Known) /\ ToSet(fresh) = Needs(u) \ V /\ ToSet(fresh) \subseteq Known
    BY <2>2, FreshIs, InsideIs
  <2>4. queue \in Seq(Seq(Known)) /\ AreShortest(root, queue, d) /\ BreadthOk(root, q, V, d)
    BY <1>1
  <2> HIDE DEF queue, V, u
  <2>5. /\ Taken(q, u, r) /\ IsShortest(root, p, d) /\ p \in Seq(Known)
        /\ rest \in Seq(Seq(Known)) /\ AreShortest(root, rest, d)
        /\ Ends(rest \o Longer(p, fresh)) = q2
        /\ Longer(p, fresh) \in Seq(Seq(Known))
    BY <2>2, <2>3, <2>4, EndsTaken DEF u
  <2> HIDE DEF q, r
  <2>6. /\ u \in Around(root)
        /\ \A w \in Needs(u) \ V : w \in Around(root) /\ d[w] = d[u] + 1
    BY <2>4, <2>5, NearIsSearched
  <2>7. Extends(d, d, V, ToSet(fresh), u)
    BY <2>3, <2>6 DEF Extends
  <2>8. BreadthOk(root, q2, V2, d) /\ a < b
    BY <2>2, <2>4, <2>5, <2>7, BreadthStep
  <2> HIDE DEF q2, V2
  <2>9. a \in Nat /\ b \in Nat
    BY UnsearchedCounts
  <2>10. \A w \in ToSet(fresh) : IsShortest(root, Append(p, w), d) /\ Last(Append(p, w)) = w
    BY <2>3, <2>5, <2>6, ShortestGrows DEF u
  <2>11. SearchLeft[s] = b
    BY <1>2, <1>6 DEF q, queue, V
  <2>12. CASE to \in ToSet(fresh)
    <3>1. SearchFinds(s, t, p, to)
      BY <2>1, <2>12 DEF SearchLater
    <3>2. t.queue = queue /\ t.visited = V /\ t.path = Append(p, to)
      BY <3>1 DEF SearchFinds, queue, V
    <3>3. IsShortest(root, Append(p, to), d) /\ Last(Append(p, to)) = to
      BY <2>10, <2>12
    <3>4. Append(p, to) # << >>
      BY <3>3 DEF IsShortest
    <3>5. t \in SearchInv(root, to, d)
      BY <1>1, <2>4, <3>2, <3>3 DEF SearchInv, q, V, queue
    <3>6. SearchLeft[t] = 0 /\ 0 < b
      <4>1. 0 < b
        <5> HIDE DEF a, b
        <5> QED BY <2>8, <2>9
      <4> QED BY <1>3, <3>2, <3>4, <4>1
    <3>7. t # s
      BY <1>6, <3>2, <3>4
    <3>8. SearchLeft[t] < SearchLeft[s]
      BY <2>11, <3>6
    <3> QED BY <1>4, <3>5, <3>7, <3>8 DEF t
  <2>13. CASE to \notin ToSet(fresh)
    <3> DEFINE more == Longer(p, fresh)
    <3>1. SearchGoesOn(s, t, p, rest, fresh)
      BY <2>1, <2>13 DEF SearchLater
    <3>2. t.queue = rest \o more /\ t.visited = V2 /\ t.path = << >>
      BY <1>6, <3>1 DEF SearchGoesOn, V, V2
    <3>3. AreShortest(root, rest \o more, d)
      <4>1. rest \in Seq(Seq(Known)) /\ more \in Seq(Seq(Known))
        BY <2>5
      <4> DEFINE X == Seq(Known)  h == rest \o more  n == Len(rest)  m == Len(more)
      <4>2. rest \in Seq(X) /\ more \in Seq(X)
        BY <4>1
      <4>3. DOMAIN more = DOMAIN fresh /\ \A i \in DOMAIN more : more[i] = Append(p, fresh[i])
        BY DEF Longer
      <4>4. \A i \in DOMAIN more : IsShortest(root, more[i], d)
        <5> SUFFICES ASSUME NEW i \in DOMAIN more PROVE IsShortest(root, more[i], d)
          OBVIOUS
        <5>1. i \in DOMAIN fresh /\ more[i] = Append(p, fresh[i])
          BY <4>3
        <5>2. fresh[i] \in ToSet(fresh)
          BY <5>1 DEF ToSet
        <5> QED BY <2>10, <5>1, <5>2
      <4>5. \A i \in DOMAIN rest : IsShortest(root, rest[i], d)
        BY <2>5 DEF AreShortest
      <4> HIDE DEF X, more
      <4>6. /\ h \in Seq(X) /\ Len(h) = n + m
            /\ \A i \in 1 .. n : h[i] = rest[i]
            /\ \A i \in 1 .. m : h[n + i] = more[i]
        <5>1. h \in Seq(X) /\ Len(h) = n + m
          BY <4>2, ConcatAdds
        <5>2. (\A i \in 1 .. n : h[i] = rest[i]) /\ \A i \in 1 .. m : h[n + i] = more[i]
          BY <4>2, ConcatAdds
        <5> QED BY <5>1, <5>2
      <4>7. DOMAIN rest = 1 .. n /\ DOMAIN more = 1 .. m /\ n \in Nat /\ m \in Nat
        BY <4>2, InsideIs
      <4> HIDE DEF h, n, m
      <4>8. DOMAIN h = 1 .. n + m
        BY <4>6, InsideIs
      <4>9. ASSUME NEW i \in DOMAIN h PROVE IsShortest(root, h[i], d)
        <5>1. CASE i \in 1 .. n
          BY <4>5, <4>6, <4>7, <5>1
        <5>2. CASE i \notin 1 .. n
          <6> DEFINE j == i - n
          <6>1. j \in 1 .. m /\ i = n + j
            BY <4>7, <4>8, <5>2
          <6> HIDE DEF j
          <6>2. h[i] = more[j] /\ j \in DOMAIN more
            BY <4>6, <4>7, <6>1
          <6> QED BY <4>4, <6>2
        <5> QED BY <5>1, <5>2
      <4> QED BY <4>9 DEF AreShortest, h
    <3>4. to \notin V2
      BY <1>1, <2>13 DEF V, V2
    <3>5. BreadthOk(root, Ends(t.queue), t.visited, d)
      BY <2>5, <2>8, <3>2
    <3>6. t \in SearchInv(root, to, d)
      BY <1>1, <3>2, <3>3, <3>4, <3>5 DEF SearchInv
    <3>7. SearchLeft[t] = a
      BY <1>3, <2>5, <3>2
    <3>8. SearchLeft[t] < SearchLeft[s] /\ a # b
      <4>1. a # b
        <5> HIDE DEF a, b
        <5> QED BY <2>8, <2>9
      <4> QED BY <2>8, <2>11, <3>7, <4>1
    <3>9. t # s
      BY <2>11, <3>7, <3>8
    <3> QED BY <1>4, <3>6, <3>8, <3>9 DEF t
  <2> QED BY <2>12, <2>13
<1> QED BY <1>5, <1>6

(* A shortest path, if there is one.                                       *)
LEMMA FindPathIs ==
  ASSUME DependencyInit, NEW root \in Known, NEW to \in Known, NEW d, DistOk(root, d)
  PROVE  IF to \in Around(root) THEN IsShortest(root, FindPath(root, to), d) /\ Last(FindPath(root, to)) = to
         ELSE FindPath(root, to) = << >>
<1>1. CASE root = to
  <2> DEFINE p == <<root>>
  <2>1. FindPath(root, to) = p /\ to \in Around(root) /\ d[root] = 0
    BY <1>1, AroundIs DEF FindPath, DistOk
  <2>2. p \in Seq(Known) /\ p # << >> /\ Len(p) = 1 /\ p[1] = root
    OBVIOUS
  <2> HIDE DEF p
  <2>3. Last(p) = root
    BY <2>2, FrontAndLast
  <2>4. 1 .. Len(p) - 1 = {}
    BY <2>2
  <2>5. IsShortest(root, p, d) /\ Last(p) = to
    BY <1>1, <2>1, <2>2, <2>3, <2>4 DEF IsShortest
  <2> QED BY <2>1, <2>5
<1>2. CASE root # to
  <2> DEFINE p == <<root>>  queue == <<p>>  V == {root}  f == Search(to)
             s0 == [queue |-> queue, visited |-> V, path |-> << >>]
             s == Repeat(f, s0, Size)  I == SearchInv(root, to, d)
  <2>1. /\ p \in Seq(Known) /\ p # << >> /\ Len(p) = 1 /\ p[1] = root
    OBVIOUS
  <2>2. Last(p) = root
    <3> HIDE DEF p
    <3> QED BY <2>1, FrontAndLast
  <2>3. d[root] = 0 /\ root \in Around(root)
    BY AroundIs DEF DistOk
  <2>4. IsShortest(root, p, d)
    <3> HIDE DEF p
    <3>1. 1 .. Len(p) - 1 = {}
      BY <2>1
    <3> QED BY <2>1, <2>2, <2>3, <3>1 DEF IsShortest
  <2>5. Ends(queue) = <<root>>
    <3> HIDE DEF p
    <3> QED BY <2>2 DEF Ends
  <2>6. AreShortest(root, queue, d)
    <3> HIDE DEF p
    <3> QED BY <2>4 DEF AreShortest
  <2>7. queue \in Seq(Seq(Known)) /\ V \in SUBSET Known
    <3> DEFINE X == Seq(Known)
    <3>1. p \in X
      BY <2>1
    <3> HIDE DEF X, p
    <3> QED BY <3>1 DEF X
  <2> HIDE DEF queue, p
  <2>8. BreadthOk(root, Ends(queue), V, d) /\ Cardinality(Unsearched(Ends(queue), V)) = Size
    BY <2>3, <2>5, BreadthStarts
  <2>9. s0 \in SearchState /\ s0.queue = queue /\ s0.visited = V /\ s0.path = << >>
    BY <2>7 DEF SearchState
  <2> HIDE DEF s0
  <2>10. s0 \in I /\ SearchLeft[s0] = Size
    BY <1>2, <2>6, <2>8, <2>9 DEF SearchInv, SearchLeft
  <2>11. Ended(f, I, s)
    <3>1. I \subseteq SearchState
      BY DEF SearchInv
    <3>2. IsLoop(f, SearchState) /\ Progresses(f, I, SearchLeft)
      BY SearchIsLoop, SearchProgresses
    <3>3. Size \in Nat
      BY KnownFinite
    <3>4. SearchLeft[s0] <= Size
      BY <2>10, <3>3
    <3> HIDE DEF I, f
    <3> QED BY <2>10, <3>1, <3>2, <3>3, <3>4, RepeatEnds
  <2>12. FindPath(root, to) = s.path
    BY <1>2 DEF FindPath, s0, queue, p
  <2> HIDE DEF s
  <2>13. s \in I /\ (s.queue = << >> \/ s.path # << >>)
    BY <2>11, SearchProgresses DEF Ended
  <2>14. CASE s.path # << >>
    <3>1. IsShortest(root, s.path, d) /\ Last(s.path) = to
      BY <2>13, <2>14 DEF SearchInv
    <3>2. to \in Around(root)
      BY <3>1 DEF IsShortest
    <3> QED BY <2>12, <3>1, <3>2
  <2>15. CASE s.path = << >>
    <3>1. BreadthOk(root, Ends(s.queue), s.visited, d) /\ to \notin s.visited /\ s.queue = << >>
      BY <2>13, <2>15 DEF SearchInv
    <3>2. Ends(<< >>) = << >>
      BY DEF Ends
    <3>3. s.visited = Around(root)
      BY <3>1, <3>2, BreadthEnds
    <3> QED BY <2>12, <2>15, <3>1, <3>3
  <2> QED BY <2>14, <2>15
<1> QED BY <1>1, <1>2

-----------------------------------------------------------------------------
(* getReachableNodes and getNodesReachingTarget.                           *)

(* One round more, at the end.                                             *)
LastRound(step, s, n) == Repeat(step, s, n + 1) = step[Repeat(step, s, n)]

LEMMA RepeatLast ==
  ASSUME NEW S, NEW step, IsLoop(step, S), NEW s \in S, NEW n \in Nat
  PROVE  LastRound(step, s, n) /\ Repeat(step, s, n) \in S /\ Repeat(step, s, 0) = s
<1>1. ASSUME NEW x \in S PROVE Repeat(step, x, 0) = x
  <2>1. 0 \in Nat
    OBVIOUS
  <2> QED BY <2>1, RepeatIs, Zenon
<1>2. ASSUME NEW x \in S, NEW k \in Nat PROVE OneRound(step, x, k) /\ Repeat(step, x, k) \in S
  BY RepeatIs, Zenon
<1>3. \A x \in S : step[x] \in S
  BY DEF IsLoop
<1> DEFINE T == {k \in Nat : \A x \in S : LastRound(step, x, k)}
<1>4. 0 \in T
  <2> SUFFICES ASSUME NEW x \in S PROVE LastRound(step, x, 0)
    OBVIOUS
  <2>1. Repeat(step, x, 0 + 1) = IF step[x] = x THEN x ELSE Repeat(step, step[x], 0)
    BY <1>2 DEF OneRound
  <2>2. Repeat(step, step[x], 0) = step[x] /\ Repeat(step, x, 0) = x
    BY <1>1, <1>3
  <2> QED BY <2>1, <2>2 DEF LastRound
<1>5. ASSUME NEW k \in Nat, k \in T PROVE k + 1 \in T
  <2> SUFFICES ASSUME NEW x \in S PROVE LastRound(step, x, k + 1)
    OBVIOUS
  <2> DEFINE m == k + 1
  <2>1. m \in Nat
    OBVIOUS
  <2>2. Repeat(step, x, m + 1) = IF step[x] = x THEN x ELSE Repeat(step, step[x], m)
    <3> HIDE DEF m
    <3> QED BY <1>2, <2>1 DEF OneRound
  <2>3. Repeat(step, x, m) = IF step[x] = x THEN x ELSE Repeat(step, step[x], k)
    BY <1>2 DEF OneRound
  <2>4. Repeat(step, step[x], m) = step[Repeat(step, step[x], k)]
    <3>1. LastRound(step, step[x], k)
      BY <1>3, <1>5
    <3> QED BY <3>1 DEF LastRound
  <2> HIDE DEF m
  <2>5. Repeat(step, x, m + 1) = step[Repeat(step, x, m)]
    BY <2>2, <2>3, <2>4
  <2> QED BY <2>5 DEF LastRound, m
<1>6. Nat \subseteq T
  <2> HIDE DEF T
  <2> QED BY <1>4, <1>5, CountUp
<1> QED BY <1>1, <1>2, <1>6

LEMMA WidenIs ==
  ASSUME NEW edges, edges \subseteq Known \X Known, NEW u \in Known, NEW n \in Nat
  PROVE  /\ Repeat(Widen(edges), {u}, 0) = {u} /\ Repeat(Widen(edges), {u}, n) \subseteq Known
         /\ Repeat(Widen(edges), {u}, n + 1) =
              Repeat(Widen(edges), {u}, n) \cup
                {w \in Known : \E v \in Repeat(Widen(edges), {u}, n) : <<v, w>> \in edges}
<1> DEFINE f == Widen(edges)  N == Repeat(f, {u}, n)  S == SUBSET Known
           After1(X) == X \cup {w \in Known : \E v \in X : <<v, w>> \in edges}
<1>1. ASSUME NEW X \in S PROVE f[X] = After1(X) /\ f[X] \in S
  <2>1. f[X] = X \cup {e[2] : e \in {g \in edges : g[1] \in X}}
    BY DEF Widen
  <2>2. \A e \in edges : e = <<e[1], e[2]>> /\ e[1] \in Known /\ e[2] \in Known
    OBVIOUS
  <2>3. {e[2] : e \in {g \in edges : g[1] \in X}} = {w \in Known : \E v \in X : <<v, w>> \in edges}
    <3>1. ASSUME NEW w, w \in {e[2] : e \in {g \in edges : g[1] \in X}}
          PROVE  w \in {x \in Known : \E v \in X : <<v, x>> \in edges}
      <4>1. PICK e \in edges : e[1] \in X /\ w = e[2]
        BY <3>1
      <4>2. w \in Known /\ <<e[1], w>> \in edges
        BY <2>2, <4>1
      <4> QED BY <4>1, <4>2
    <3>2. ASSUME NEW w \in Known, NEW v \in X, <<v, w>> \in edges
          PROVE  w \in {e[2] : e \in {g \in edges : g[1] \in X}}
      <4> DEFINE e == <<v, w>>
      <4>1. e \in edges /\ e[1] = v /\ e[2] = w
        BY <3>2
      <4> HIDE DEF e
      <4> QED BY <4>1
    <3> QED BY <3>1, <3>2
  <2> QED BY <2>1, <2>3
<1>2. IsLoop(f, S)
  <2>1. f = [X \in S |-> X \cup {e[2] : e \in {g \in edges : g[1] \in X}}]
    BY DEF Widen
  <2>2. f = [X \in S |-> f[X]]
    BY <2>1
  <2> HIDE DEF f
  <2>3. \A X \in S : f[X] \in S
    BY <1>1
  <2>4. f \in [S -> S]
    BY <2>2, <2>3
  <2> QED BY <2>4 DEF IsLoop
<1>3. {u} \in S
  OBVIOUS
<1>4. LastRound(f, {u}, n) /\ N \in S /\ Repeat(f, {u}, 0) = {u}
  <2> DEFINE s == {u}
  <2> HIDE DEF f, S, s
  <2> QED BY <1>2, <1>3, RepeatLast DEF s
<1>5. Repeat(f, {u}, n + 1) = f[N]
  BY <1>4 DEF LastRound
<1>6. f[N] = After1(N)
  BY <1>1, <1>4
<1> QED BY <1>4, <1>5, <1>6

WidensTo(edges, u, n) ==
  /\ Repeat(Widen(edges), {u}, 0) = {u} /\ Repeat(Widen(edges), {u}, n) \subseteq Known
  /\ Repeat(Widen(edges), {u}, n + 1) =
       Repeat(Widen(edges), {u}, n) \cup
         {w \in Known : \E v \in Repeat(Widen(edges), {u}, n) : <<v, w>> \in edges}

LEMMA Widens ==
  ASSUME NEW edges, edges \subseteq Known \X Known, NEW u \in Known, NEW n \in Nat
  PROVE  WidensTo(edges, u, n)
<1>1. /\ Repeat(Widen(edges), {u}, 0) = {u} /\ Repeat(Widen(edges), {u}, n) \subseteq Known
      /\ Repeat(Widen(edges), {u}, n + 1) =
           Repeat(Widen(edges), {u}, n) \cup
             {w \in Known : \E v \in Repeat(Widen(edges), {u}, n) : <<v, w>> \in edges}
  BY WidenIs, Zenon
<1> QED BY <1>1 DEF WidensTo

LEMMA EdgesAre ==
  ASSUME DependencyInit
  PROVE  /\ Edges \subseteq Known \X Known
         /\ \A v, w : <<v, w>> \in Edges <=> w \in Needs(v)
         /\ {<<e[2], e[1]>> : e \in Edges} \subseteq Known \X Known
         /\ \A v, w : <<w, v>> \in {<<e[2], e[1]>> : e \in Edges} <=> w \in Needs(v)
<1> DEFINE back == {<<e[2], e[1]>> : e \in Edges}
<1>1. Artifacts \subseteq Known /\ \A u : Needs(u) \subseteq Known
  BY KnownFinite, NeedsIn
<1>2. \A e \in Edges : e = <<e[1], e[2]>> /\ e[1] \in Artifacts /\ e[2] \in Known
  BY DEF Edges
<1>3. Edges \subseteq Known \X Known /\ back \subseteq Known \X Known
  BY <1>1, <1>2
<1>4. ASSUME NEW v, NEW w PROVE <<v, w>> \in Edges <=> w \in Needs(v)
  BY <1>1 DEF Edges, Needs
<1>5. ASSUME NEW v, NEW w PROVE <<w, v>> \in back <=> <<v, w>> \in Edges
  <2>1. ASSUME <<w, v>> \in back PROVE <<v, w>> \in Edges
    <3>1. PICK e \in Edges : <<w, v>> = <<e[2], e[1]>>
      BY <2>1
    <3>2. w = e[2] /\ v = e[1]
      BY <3>1
    <3> QED BY <1>2, <3>2
  <2>2. ASSUME <<v, w>> \in Edges PROVE <<w, v>> \in back
    <3> DEFINE e == <<v, w>>
    <3>1. e \in Edges /\ e[1] = v /\ e[2] = w
      BY <2>2
    <3> HIDE DEF e
    <3>2. <<e[2], e[1]>> \in back
      BY <3>1
    <3> QED BY <3>1, <3>2
  <2> QED BY <2>1, <2>2
<1> QED BY <1>3, <1>4, <1>5

LEMMA ReachableIs ==
  ASSUME DependencyInit, NEW u \in Known, NEW n \in Nat
  PROVE  /\ ReachableNodes(u, 0) = {u} /\ ReachableNodes(u, n) \subseteq Known
         /\ ReachableNodes(u, n + 1) =
              ReachableNodes(u, n) \cup {w \in Known : \E v \in ReachableNodes(u, n) : w \in Needs(v)}
<1> DEFINE E == Edges  N == Repeat(Widen(E), {u}, n)
<1>1. E \subseteq Known \X Known /\ \A v, w : <<v, w>> \in E <=> w \in Needs(v)
  BY EdgesAre
<1> HIDE DEF E
<1>2. /\ Repeat(Widen(E), {u}, 0) = {u} /\ N \subseteq Known
      /\ Repeat(Widen(E), {u}, n + 1) = N \cup {w \in Known : \E v \in N : <<v, w>> \in E}
  <2>1. WidensTo(E, u, n)
    BY <1>1, Widens
  <2> QED BY <2>1 DEF WidensTo
<1>3. {w \in Known : \E v \in N : <<v, w>> \in E} = {w \in Known : \E v \in N : w \in Needs(v)}
  <2> HIDE DEF N
  <2> QED BY <1>1
<1> QED BY <1>2, <1>3 DEF ReachableNodes, E

LEMMA ReachingIs ==
  ASSUME DependencyInit, NEW v \in Known, NEW n \in Nat
  PROVE  /\ NodesReaching(v, 0) = {v} /\ NodesReaching(v, n) \subseteq Known
         /\ NodesReaching(v, n + 1) =
              NodesReaching(v, n) \cup {u \in Known : \E w \in NodesReaching(v, n) : w \in Needs(u)}
<1> DEFINE E == {<<e[2], e[1]>> : e \in Edges}  N == Repeat(Widen(E), {v}, n)
<1>1. E \subseteq Known \X Known /\ \A x, w : <<w, x>> \in E <=> w \in Needs(x)
  BY EdgesAre
<1>0. /\ NodesReaching(v, 0) = Repeat(Widen(E), {v}, 0) /\ NodesReaching(v, n) = N
      /\ NodesReaching(v, n + 1) = Repeat(Widen(E), {v}, n + 1)
  BY DEF NodesReaching
<1> HIDE DEF E
<1>2. /\ Repeat(Widen(E), {v}, 0) = {v} /\ N \subseteq Known
      /\ Repeat(Widen(E), {v}, n + 1) = N \cup {u \in Known : \E w \in N : <<w, u>> \in E}
  <2>1. WidensTo(E, v, n)
    BY <1>1, Widens
  <2> QED BY <2>1 DEF WidensTo
<1>3. {u \in Known : \E w \in N : <<w, u>> \in E} = {u \in Known : \E w \in N : w \in Needs(u)}
  <2> HIDE DEF N
  <2> QED BY <1>1
<1> QED BY <1>0, <1>2, <1>3

(* What is at most so far.                                                 *)
LEMMA ReachableIsNear ==
  ASSUME DependencyInit, NEW u \in Known, NEW d, DistOk(u, d), NEW n \in Nat
  PROVE  ReachableNodes(u, n) = {v \in Around(u) : d[v] <= n}
<1> DEFINE F(k) == ReachableNodes(u, k)  Near(k) == {v \in Around(u) : d[v] <= k}
           T == {k \in Nat : F(k) = Near(k)}
<1>1. /\ d[u] = 0 /\ u \in Around(u) /\ Around(u) \subseteq Known /\ \A v \in Around(u) : d[v] \in Nat
      /\ \A v \in Around(u) : \A w \in Needs(v) : w \in Around(u) /\ d[w] <= d[v] + 1
      /\ \A w \in Around(u) \ {u} : \E v \in Around(u) : w \in Needs(v) /\ d[w] = d[v] + 1
  BY AroundIs DEF DistOk
<1>2. 0 \in T
  <2>1. F(0) = {u}
    BY ReachableIs
  <2>2. \A v \in Around(u) : d[v] <= 0 <=> v = u
    BY <1>1
  <2> QED BY <1>1, <2>1, <2>2
<1>3. ASSUME NEW k \in Nat, k \in T PROVE k + 1 \in T
  <2>1. F(k + 1) = F(k) \cup {w \in Known : \E v \in F(k) : w \in Needs(v)}
    BY ReachableIs
  <2>2. F(k) = Near(k)
    BY <1>3
  <2>3. ASSUME NEW w \in F(k + 1) PROVE w \in Near(k + 1)
    BY <1>1, <2>1, <2>2
  <2>4. ASSUME NEW w \in Near(k + 1) PROVE w \in F(k + 1)
    <3>1. CASE w = u
      BY <1>1, <2>1, <2>2, <3>1
    <3>2. CASE w # u
      <4>1. PICK v \in Around(u) : w \in Needs(v) /\ d[w] = d[v] + 1
        BY <1>1, <3>2
      <4>2. v \in Near(k)
        BY <1>1, <4>1
      <4> QED BY <1>1, <2>1, <2>2, <4>1, <4>2
    <3> QED BY <3>1, <3>2
  <2> QED BY <2>3, <2>4
<1>4. Nat \subseteq T
  <2> HIDE DEF T
  <2> QED BY <1>2, <1>3, CountUp
<1> QED BY <1>4

(* One step first, then the others.                                        *)
LEMMA StepThenReach ==
  ASSUME DependencyInit, NEW n \in Nat, NEW x \in Known, NEW v \in Known
  PROVE  v \in ReachableNodes(x, n + 1) <=>
           v \in ReachableNodes(x, n) \/ \E y \in Needs(x) : v \in ReachableNodes(y, n)
<1> DEFINE F(y, k) == ReachableNodes(y, k)
           Splits(k) == \A y, w \in Known :
             w \in F(y, k + 1) <=> w \in F(y, k) \/ \E z \in Needs(y) : w \in F(z, k)
           T == {k \in Nat : Splits(k)}
<1>1. \A y : Needs(y) \subseteq Known
  BY NeedsIn
<1>2. ASSUME NEW y \in Known, NEW k \in Nat
      PROVE  F(y, 0) = {y} /\ F(y, k) \subseteq Known
             /\ \A w \in Known : w \in F(y, k + 1) <=> w \in F(y, k) \/ \E z \in F(y, k) : w \in Needs(z)
  BY ReachableIs
<1> HIDE DEF F
<1>3. 0 \in T
  <2> SUFFICES ASSUME NEW y \in Known, NEW w \in Known
               PROVE  w \in F(y, 0 + 1) <=> w \in F(y, 0) \/ \E z \in Needs(y) : w \in F(z, 0)
    OBVIOUS
  <2>1. 0 \in Nat
    OBVIOUS
  <2>2. w \in F(y, 0 + 1) <=> w \in F(y, 0) \/ \E z \in F(y, 0) : w \in Needs(z)
    BY <1>2, <2>1
  <2>3. \A z \in Known : F(z, 0) = {z}
    BY <1>2, <2>1
  <2> QED BY <1>1, <2>2, <2>3
<1>4. ASSUME NEW k \in Nat, k \in T PROVE k + 1 \in T
  <2> SUFFICES ASSUME NEW y \in Known, NEW w \in Known
               PROVE  w \in F(y, (k + 1) + 1) <=> w \in F(y, k + 1) \/ \E z \in Needs(y) : w \in F(z, k + 1)
    OBVIOUS
  <2>1. k + 1 \in Nat
    OBVIOUS
  <2>2. w \in F(y, (k + 1) + 1) <=> w \in F(y, k + 1) \/ \E z \in F(y, k + 1) : w \in Needs(z)
    BY <1>2, <2>1
  <2>3. \A a, b \in Known : b \in F(a, k + 1) <=> b \in F(a, k) \/ \E z \in Needs(a) : b \in F(z, k)
    BY <1>4
  <2>4. \A a, b \in Known : b \in F(a, k + 1) <=> b \in F(a, k) \/ \E z \in F(a, k) : b \in Needs(z)
    BY <1>2
  <2>5. F(y, k + 1) \subseteq Known /\ \A a \in Known : F(a, k) \subseteq Known
    BY <1>2, <2>1
  <2>6. ASSUME NEW z \in F(y, k + 1), w \in Needs(z)
        PROVE  w \in F(y, k + 1) \/ \E c \in Needs(y) : w \in F(c, k + 1)
    <3>1. z \in Known
      BY <2>5
    <3>2. CASE z \in F(y, k)
      BY <2>4, <2>6, <3>2
    <3>3. CASE \E c \in Needs(y) : z \in F(c, k)
      <4>1. PICK c \in Needs(y) : z \in F(c, k)
        BY <3>3
      <4>2. c \in Known
        BY <1>1
      <4> QED BY <2>4, <2>6, <4>1, <4>2
    <3> QED BY <2>3, <3>1, <3>2, <3>3
  <2>7. ASSUME NEW c \in Needs(y), w \in F(c, k + 1)
        PROVE  w \in F(y, k + 1) \/ \E z \in F(y, k + 1) : w \in Needs(z)
    <3>1. c \in Known
      BY <1>1
    <3>2. CASE w \in F(c, k)
      BY <2>3, <3>2
    <3>3. CASE \E z \in F(c, k) : w \in Needs(z)
      <4>1. PICK z \in F(c, k) : w \in Needs(z)
        BY <3>3
      <4>2. z \in Known /\ z \in F(y, k + 1)
        BY <2>3, <2>5, <3>1, <4>1
      <4> QED BY <4>1, <4>2
    <3> QED BY <2>4, <2>7, <3>1, <3>2, <3>3
  <2> QED BY <2>2, <2>6, <2>7
<1>5. Nat \subseteq T
  <2> HIDE DEF T
  <2> QED BY <1>3, <1>4, CountUp
<1> QED BY <1>5 DEF F

(* Whichever end the search starts from.                                   *)
LEMMA ReachingIsReachable ==
  ASSUME DependencyInit, NEW n \in Nat, NEW u \in Known, NEW v \in Known
  PROVE  u \in NodesReaching(v, n) <=> v \in ReachableNodes(u, n)
<1> DEFINE F(y, k) == ReachableNodes(y, k)  B(y, k) == NodesReaching(y, k)
           T == {k \in Nat : \A x, y \in Known : x \in B(y, k) <=> y \in F(x, k)}
<1>1. ASSUME NEW x \in Known, NEW y \in Known, NEW k \in Nat
      PROVE  /\ F(x, 0) = {x} /\ B(x, 0) = {x} /\ B(y, k) \subseteq Known
             /\ x \in B(y, k + 1) <=> x \in B(y, k) \/ \E w \in B(y, k) : w \in Needs(x)
             /\ y \in F(x, k + 1) <=> y \in F(x, k) \/ \E w \in Needs(x) : y \in F(w, k)
  <2>1. F(x, 0) = {x}
    BY ReachableIs
  <2>2. B(x, 0) = {x}
    BY ReachingIs
  <2>3. /\ B(y, k) \subseteq Known
        /\ x \in B(y, k + 1) <=> x \in B(y, k) \/ \E w \in B(y, k) : w \in Needs(x)
    BY ReachingIs
  <2>4. y \in F(x, k + 1) <=> y \in F(x, k) \/ \E w \in Needs(x) : y \in F(w, k)
    BY StepThenReach
  <2> QED BY <2>1, <2>2, <2>3, <2>4
<1>2. \A x : Needs(x) \subseteq Known
  BY NeedsIn
<1> HIDE DEF F, B
<1>3. 0 \in T
  <2>1. \A x \in Known : F(x, 0) = {x} /\ B(x, 0) = {x}
    BY <1>1
  <2> QED BY <2>1
<1>4. ASSUME NEW k \in Nat, k \in T PROVE k + 1 \in T
  <2> SUFFICES ASSUME NEW x \in Known, NEW y \in Known PROVE x \in B(y, k + 1) <=> y \in F(x, k + 1)
    OBVIOUS
  <2>1. \A a, b \in Known : a \in B(b, k) <=> b \in F(a, k)
    BY <1>4
  <2> QED BY <1>1, <1>2, <2>1
<1>5. Nat \subseteq T
  <2> HIDE DEF T
  <2> QED BY <1>3, <1>4, CountUp
<1> QED BY <1>5 DEF F, B

LEMMA PathsRight ==
  ASSUME DependencyInit, NEW u \in Known
  PROVE  DistancesRight(Distances(u), u, Reach) /\ PathsAgree(Distances(u), u)
<1> DEFINE d == Distances(u)
<1>1. DistOk(u, d)
  BY DistancesAre
<1> HIDE DEF d
<1>2. DOMAIN d = Around(u) /\ Around(u) = {u} \cup ReachedFrom(u, Reach)
  BY <1>1 DEF DistOk, Around, Reached
<1>3. DistancesRight(d, u, Reach)
  BY <1>1, <1>2 DEF DistOk, DistancesRight
<1>4. ASSUME NEW v \in Known
      PROVE  IF v \notin DOMAIN d THEN FindPath(u, v) = << >>
             ELSE /\ Len(FindPath(u, v)) = d[v] + 1 /\ FindPath(u, v)[1] = u /\ Last(FindPath(u, v)) = v
                  /\ \A i \in 1 .. d[v] : FindPath(u, v)[i + 1] \in Needs(FindPath(u, v)[i])
  <2> DEFINE p == FindPath(u, v)  k == d[v]
  <2>1. CASE v \in Around(u)
    <3>1. IsShortest(u, p, d) /\ Last(p) = v
      BY <1>1, <2>1, FindPathIs
    <3>2. Len(p) = k + 1 /\ p[1] = u /\ \A i \in 1 .. Len(p) - 1 : p[i + 1] \in Needs(p[i])
      BY <3>1 DEF IsShortest
    <3>3. k \in Nat
      BY <1>1, <2>1 DEF DistOk
    <3> HIDE DEF p, k
    <3>4. Len(p) - 1 = k
      BY <3>2, <3>3
    <3>5. \A i \in 1 .. k : p[i + 1] \in Needs(p[i])
      BY <3>2, <3>4
    <3> QED BY <1>2, <2>1, <3>1, <3>2, <3>5 DEF p, k
  <2>2. CASE v \notin Around(u)
    BY <1>1, <1>2, <2>2, FindPathIs
  <2> QED BY <2>1, <2>2
<1>5. ASSUME NEW n \in 0 .. Size
      PROVE  /\ ReachableNodes(u, n) = {v \in DOMAIN d : d[v] <= n}
             /\ \A v \in Known : u \in NodesReaching(v, n) <=> v \in {x \in DOMAIN d : d[x] <= n}
  <2>1. n \in Nat
    OBVIOUS
  <2>2. ReachableNodes(u, n) = {v \in DOMAIN d : d[v] <= n}
    BY <1>1, <1>2, <2>1, ReachableIsNear
  <2>3. \A v \in Known : u \in NodesReaching(v, n) <=> v \in ReachableNodes(u, n)
    BY <2>1, ReachingIsReachable
  <2> QED BY <2>2, <2>3
<1>6. PathsAgree(d, u)
  BY <1>4, <1>5 DEF PathsAgree
<1> QED BY <1>3, <1>6 DEF d

-----------------------------------------------------------------------------
(* The depth-first searches: a path, the dependencies to go to of each     *)
(* node, and the rounds there may still be.                                *)
TodoOk(todo) ==
  /\ todo \in [Known -> Seq(Known)]
  /\ \A v \in Known : Distinct(todo[v]) /\ ToSet(todo[v]) \subseteq Needs(v)

TodoTaken(todo, v, w, later) ==
  todo[v] # << >> /\ w = Head(todo[v]) /\ later = [todo EXCEPT ![v] = Tail(@)]

Pending(todo) == {e \in Known \X (1 .. Size) : e[2] <= Len(todo[e[1]])}

LEMMA TodoStarts ==
  ASSUME DependencyInit
  PROVE  /\ TodoOk([u \in Known |-> Deps(u)])
         /\ \A v \in Known : ToSet([u \in Known |-> Deps(u)][v]) = Needs(v)
<1> DEFINE todo == [u \in Known |-> Deps(u)]
<1>1. \A u \in Known : /\ todo[u] \in Seq(Known) /\ Distinct(todo[u]) /\ ToSet(todo[u]) = Needs(u)
  BY DepsIs
<1>2. todo = [u \in Known |-> todo[u]]
  OBVIOUS
<1> HIDE DEF todo
<1>3. todo \in [Known -> Seq(Known)]
  BY <1>1, <1>2
<1> QED BY <1>1, <1>3 DEF TodoOk, todo

TodoLeft(todo, v, w, later) ==
  /\ TodoOk(later) /\ w \in Known /\ w \in Needs(v)
  /\ \A u \in Known \ {v} : later[u] = todo[u]
  /\ ToSet(todo[v]) = {w} \cup ToSet(later[v])

LEMMA TodoGoesOn ==
  ASSUME DependencyInit, NEW todo, TodoOk(todo), NEW v \in Known, NEW w, NEW later,
         TodoTaken(todo, v, w, later)
  PROVE  TodoLeft(todo, v, w, later)
<1> DEFINE q == todo[v]  r == Tail(q)
<1>1. /\ q \in Seq(Known) /\ q # << >> /\ w = Head(q) /\ Distinct(q) /\ ToSet(q) \subseteq Needs(v)
      /\ todo \in [Known -> Seq(Known)]
  BY DEF TodoOk, TodoTaken
<1>2. later = [todo EXCEPT ![v] = r]
  BY DEF TodoTaken
<1> HIDE DEF q, r
<1>3. later[v] = r /\ \A u \in Known \ {v} : later[u] = todo[u]
  BY <1>1, <1>2
<1>4. r \in Seq(Known) /\ w \in Known /\ ToSet(q) = {w} \cup ToSet(r) /\ Distinct(r)
  BY <1>1, HeadAndTail DEF r
<1>5. later \in [Known -> Seq(Known)]
  BY <1>1, <1>2, <1>4
<1>6. ASSUME NEW u \in Known PROVE Distinct(later[u]) /\ ToSet(later[u]) \subseteq Needs(u)
  <2>1. CASE u = v
    BY <1>1, <1>3, <1>4, <2>1
  <2>2. CASE u # v
    <3>1. later[u] = todo[u]
      BY <1>3, <2>2
    <3>2. Distinct(todo[u]) /\ ToSet(todo[u]) \subseteq Needs(u)
      BY DEF TodoOk
    <3> QED BY <3>1, <3>2
  <2> QED BY <2>1, <2>2
<1> QED BY <1>1, <1>3, <1>4, <1>5, <1>6 DEF TodoOk, TodoLeft, q

LEMMA PendingCounts ==
  ASSUME DependencyInit, NEW todo
  PROVE  /\ IsFiniteSet(Pending(todo)) /\ Cardinality(Pending(todo)) \in Nat
         /\ Cardinality(Pending(todo)) <= Size * Size
<1> DEFINE N == 1 .. Size  P == Known \X N
<1>1. Size \in Nat /\ IsFiniteSet(Known) /\ Size = Cardinality(Known)
  BY KnownFinite DEF Size
<1>2. IsFiniteSet(N) /\ Cardinality(N) = Size
  <2>1. 1 \in Int /\ Size \in Int
    BY <1>1
  <2>2. IsFiniteSet(N) /\ Cardinality(N) = IF 1 > Size THEN 0 ELSE Size - 1 + 1
    BY <2>1, FS_Interval
  <2> QED BY <1>1, <2>2
<1>3. IsFiniteSet(P) /\ Cardinality(P) = Size * Size
  BY <1>1, <1>2, FS_Product
<1>4. Pending(todo) \subseteq P
  BY DEF Pending
<1> HIDE DEF P
<1>5. IsFiniteSet(Pending(todo)) /\ Cardinality(Pending(todo)) <= Cardinality(P)
  BY <1>3, <1>4, FS_Subset
<1>6. Cardinality(Pending(todo)) \in Nat
  BY <1>5, FS_CardinalityType
<1> QED BY <1>3, <1>5, <1>6

LEMMA PendingShrinks ==
  ASSUME DependencyInit, NEW todo, TodoOk(todo), NEW v \in Known, NEW w, NEW later,
         TodoTaken(todo, v, w, later)
  PROVE  Cardinality(Pending(later)) = Cardinality(Pending(todo)) - 1
<1> DEFINE q == todo[v]  r == later[v]  n == Len(q)  e == <<v, n>>
<1>1. q \in Seq(Known) /\ q # << >> /\ Distinct(q) /\ todo \in [Known -> Seq(Known)]
  BY DEF TodoOk, TodoTaken
<1>2. r = Tail(q) /\ \A u \in Known \ {v} : later[u] = todo[u]
  BY <1>1 DEF TodoTaken
<1> HIDE DEF q, r
<1>3. n <= Size /\ Size \in Nat
  BY <1>1, FewInside, KnownFinite
<1>4. n \in Nat \ {0} /\ Len(r) = n - 1
  BY <1>1, <1>2, HeadAndTail, FrontAndLast
<1> HIDE DEF n
<1>5. e \in Pending(todo)
  BY <1>3, <1>4 DEF Pending, n, q
<1>6. ASSUME NEW f \in Known \X (1 .. Size)
      PROVE  f[2] <= Len(later[f[1]]) <=> f[2] <= Len(todo[f[1]]) /\ f # e
  <2>1. f = <<f[1], f[2]>> /\ f[1] \in Known /\ f[2] \in 1 .. Size
    OBVIOUS
  <2> DEFINE x == f[1]  k == f[2]
  <2>2. f = e <=> x = v /\ k = n
    BY <2>1
  <2>3. x \in Known /\ k \in Int
    BY <2>1, <1>3
  <2> HIDE DEF x, k, e
  <2>4. CASE x = v
    <3>1. Len(later[x]) = n - 1 /\ Len(todo[x]) = n
      BY <1>4, <2>4 DEF r, q, n
    <3> QED BY <1>4, <2>2, <2>3, <2>4, <3>1 DEF x, k
  <2>5. CASE x # v
    <3>1. later[x] = todo[x]
      BY <1>2, <2>3, <2>5
    <3> QED BY <2>2, <2>5, <3>1 DEF x, k
  <2> QED BY <2>4, <2>5
<1> HIDE DEF e
<1>7. Pending(later) = Pending(todo) \ {e}
  BY <1>6 DEF Pending
<1>8. Cardinality(Pending(todo) \ {e}) = Cardinality(Pending(todo)) - 1
  BY <1>5, PendingCounts, FS_RemoveElement
<1> QED BY <1>7, <1>8

PathOk(path, V) ==
  /\ path \in Seq(Known) /\ Distinct(path) /\ ToSet(path) \subseteq V /\ V \subseteq Known
  /\ \A i \in 1 .. Len(path) - 1 : path[i + 1] \in Needs(path[i])

MayFollow(path, going) ==
  going \subseteq Known /\ (path # << >> => going \subseteq Needs(Last(path)))

LEMMA PathGrows ==
  ASSUME NEW path, NEW V, PathOk(path, V), NEW u, MayFollow(path, {u}), u \notin V
  PROVE  PathOk(Append(path, u), V \cup {u})
<1> DEFINE n == Len(path)  more == Append(path, u)
<1>1. /\ path \in Seq(Known) /\ Distinct(path) /\ u \in Known /\ u \notin ToSet(path)
      /\ ToSet(path) \subseteq V /\ V \subseteq Known
  BY DEF PathOk, MayFollow
<1>2. more \in Seq(Known) /\ Len(more) = n + 1 /\ more[n + 1] = u /\ \A i \in 1 .. n : more[i] = path[i]
  BY <1>1, AppendAdds
<1>3. ToSet(more) = ToSet(path) \cup {u} /\ Distinct(more)
  BY <1>1, AppendAdds
<1>4. n \in Nat /\ \A i \in 1 .. n - 1 : path[i + 1] \in Needs(path[i])
  BY <1>1, InsideIs DEF PathOk
<1>5. n > 0 => u \in Needs(path[n])
  <2>1. ASSUME n > 0 PROVE u \in Needs(path[n])
    <3>1. path # << >>
      BY <2>1
    <3>2. Last(path) = path[n]
      BY <1>1, <3>1, FrontAndLast
    <3> QED BY <3>1, <3>2 DEF MayFollow
  <2> QED BY <2>1
<1> HIDE DEF n, more
<1>6. ASSUME NEW i \in 1 .. Len(more) - 1 PROVE more[i + 1] \in Needs(more[i])
  <2>1. i \in 1 .. n /\ more[i] = path[i]
    BY <1>2, <1>4, <1>6
  <2>2. CASE i < n
    <3>1. i + 1 \in 1 .. n /\ i \in 1 .. n - 1
      BY <1>4, <2>1, <2>2
    <3> QED BY <1>2, <1>4, <2>1, <3>1
  <2>3. CASE i = n
    BY <1>2, <1>4, <1>5, <2>1, <2>3
  <2> QED BY <1>4, <2>1, <2>2, <2>3
<1> QED BY <1>1, <1>2, <1>3, <1>6 DEF PathOk, more

LEMMA PathShrinks ==
  ASSUME NEW path, NEW V, PathOk(path, V), path # << >>
  PROVE  /\ PathOk(Front(path), V) /\ Last(path) \in V /\ Last(path) \in Known
         /\ Last(path) = path[Len(path)] /\ Last(path) \notin ToSet(Front(path))
         /\ ToSet(path) = {Last(path)} \cup ToSet(Front(path))
         /\ Front(path) # << >> => Last(path) \in Needs(Last(Front(path)))
<1> DEFINE n == Len(path)  less == Front(path)
<1>1. /\ path \in Seq(Known) /\ Distinct(path) /\ ToSet(path) \subseteq V /\ V \subseteq Known
      /\ \A i \in 1 .. n - 1 : path[i + 1] \in Needs(path[i])
  BY DEF PathOk
<1>2. /\ less \in Seq(Known) /\ Len(less) = n - 1 /\ n \in Nat \ {0}
      /\ \A i \in 1 .. n - 1 : less[i] = path[i]
  BY <1>1, FrontAndLast
<1>3. /\ Last(path) \in Known /\ Last(path) = path[n] /\ ToSet(path) = {Last(path)} \cup ToSet(less)
      /\ Distinct(less) /\ Last(path) \notin ToSet(less)
  BY <1>1, FrontAndLast
<1>4. less # << >> => Last(less) = less[n - 1] /\ n - 1 \in 1 .. n - 1
  <2>1. ASSUME less # << >> PROVE Last(less) = less[n - 1] /\ n - 1 \in 1 .. n - 1
    <3> HIDE DEF less, n
    <3>1. Last(less) = less[Len(less)] /\ Len(less) \in Nat \ {0}
      BY <1>2, <2>1, FrontAndLast
    <3> QED BY <1>2, <3>1
  <2> QED BY <2>1
<1> HIDE DEF n, less
<1>5. ASSUME NEW i \in 1 .. Len(less) - 1 PROVE less[i + 1] \in Needs(less[i])
  <2>1. i \in 1 .. n - 1 /\ i + 1 \in 1 .. n - 1
    BY <1>2, <1>5
  <2> QED BY <1>1, <1>2, <2>1
<1>6. less # << >> => Last(path) \in Needs(Last(less))
  <2>1. ASSUME less # << >> PROVE Last(path) \in Needs(Last(less))
    <3>1. n - 1 \in 1 .. n - 1 /\ n - 1 + 1 = n /\ Last(less) = path[n - 1]
      BY <1>2, <1>4, <2>1
    <3> QED BY <1>1, <1>3, <3>1
  <2> QED BY <2>1
<1> QED BY <1>1, <1>2, <1>3, <1>5, <1>6 DEF PathOk, n, less

-----------------------------------------------------------------------------
(* detectCycles.  A node that is left does not reach itself, nor anything  *)
(* that is not left, as long as there is no cycle; what it depends on of   *)
(* the path is left, to be gone to, gone to next, or next on the path.     *)
IsCycle(c) ==
  c \in Seq(Known) /\ Len(c) > 1 /\ c[1] = Last(c) /\ \A i \in 1 .. Len(c) - 1 : c[i + 1] \in Needs(c[i])

Explored(path, todo, V, going) ==
  /\ \A v \in V \ ToSet(path) : Needs(v) \subseteq V \ ToSet(path) /\ v \notin Reached(v)
  /\ \A i \in 1 .. Len(path) : \A w \in Needs(path[i]) :
       \/ w \in V \ ToSet(path) \/ w \in ToSet(todo[path[i]])
       \/ (i < Len(path) /\ w = path[i + 1]) \/ (i = Len(path) /\ w \in going)

CyclesOk(roots, path, todo, V, cycles, going) ==
  /\ roots \in Seq(Known) /\ TodoOk(todo) /\ PathOk(path, V) /\ MayFollow(path, going)
  /\ cycles \in Seq(Seq(Known)) /\ \A c \in ToSet(cycles) : IsCycle(c)
  /\ \A v \in Known \ V : ToSet(todo[v]) = Needs(v)
  /\ Artifacts \subseteq ToSet(roots) \cup V \cup going
  /\ cycles = << >> => Explored(path, todo, V, going)

LEMMA CycleCloses ==
  ASSUME NEW path, NEW V, PathOk(path, V), NEW u, MayFollow(path, {u}),
         NEW i \in DOMAIN path, path[i] = u
  PROVE  IsCycle(Append(SubSeq(path, i, Len(path)), u))
<1> DEFINE n == Len(path)  s == SubSeq(path, i, n)  c == Append(s, u)
<1>1. /\ path \in Seq(Known) /\ n \in Nat /\ i \in 1 .. n /\ u \in Known
      /\ \A k \in 1 .. n - 1 : path[k + 1] \in Needs(path[k])
  BY InsideIs DEF PathOk, MayFollow
<1>2. u \in Needs(path[n])
  <2>1. path # << >>
    BY <1>1
  <2>2. Last(path) = path[n]
    BY <1>1, <2>1, FrontAndLast
  <2> QED BY <2>1, <2>2 DEF MayFollow
<1>3. s \in Seq(Known) /\ Len(s) = n - i + 1 /\ \A k \in 1 .. n - i + 1 : s[k] = path[i + k - 1]
  BY <1>1
<1> HIDE DEF s
<1>4. c \in Seq(Known) /\ Len(c) = n - i + 2 /\ c[n - i + 2] = u /\ c # << >>
  <2>1. c \in Seq(Known) /\ Len(c) = Len(s) + 1 /\ c[Len(s) + 1] = u /\ c # << >>
    BY <1>1, <1>3, AppendAdds
  <2> QED BY <1>1, <1>3, <2>1
<1>5. \A k \in 1 .. n - i + 1 : c[k] = path[i + k - 1]
  <2>1. \A k \in 1 .. Len(s) : c[k] = s[k]
    BY <1>1, <1>3, AppendAdds
  <2> QED BY <1>3, <2>1
<1> HIDE DEF c, n
<1>6. Last(c) = u
  <2>1. Last(c) = c[Len(c)]
    BY <1>4, FrontAndLast
  <2> QED BY <1>4, <2>1
<1>7. c[1] = u
  BY <1>1, <1>5
<1>8. ASSUME NEW k \in 1 .. Len(c) - 1 PROVE c[k + 1] \in Needs(c[k])
  <2>1. k \in 1 .. n - i + 1 /\ c[k] = path[i + k - 1]
    BY <1>1, <1>4, <1>5
  <2>2. CASE k = n - i + 1
    <3>1. k + 1 = n - i + 2 /\ i + k - 1 = n
      BY <1>1, <2>2
    <3> QED BY <1>2, <1>4, <2>1, <3>1
  <2>3. CASE k # n - i + 1
    <3> DEFINE j == i + k - 1
    <3>1. k + 1 \in 1 .. n - i + 1 /\ i + (k + 1) - 1 = j + 1 /\ j \in 1 .. n - 1
      <4>1. n \in Nat /\ i \in Nat \ {0} /\ k \in Nat \ {0} /\ k <= n - i + 1
        BY <1>1, <2>1
      <4> QED BY <2>3, <4>1
    <3>2. c[k + 1] = path[j + 1]
      BY <1>5, <3>1
    <3> HIDE DEF j
    <3> QED BY <1>1, <2>1, <3>1, <3>2 DEF j
  <2> QED BY <2>2, <2>3
<1>9. Len(c) > 1
  BY <1>1, <1>4
<1>10. IsCycle(c)
  BY <1>4, <1>6, <1>7, <1>8, <1>9 DEF IsCycle
<1> QED BY <1>10 DEF c, s, n

LEMMA CyclesRoot ==
  ASSUME NEW roots, NEW path, NEW todo, NEW V, NEW cycles, CyclesOk(roots, path, todo, V, cycles, {}),
         path = << >>, NEW u, NEW rest, Taken(roots, u, rest)
  PROVE  CyclesOk(rest, path, todo, V, cycles, {u}) /\ u \in Known
<1>1. roots \in Seq(Known) /\ roots # << >> /\ u = Head(roots) /\ rest = Tail(roots)
  BY DEF CyclesOk, Taken
<1>2. u \in Known /\ rest \in Seq(Known) /\ ToSet(roots) = {u} \cup ToSet(rest)
  BY <1>1, HeadAndTail
<1>3. Artifacts \subseteq ToSet(rest) \cup V \cup {u}
  BY <1>2 DEF CyclesOk
<1>4. MayFollow(path, {u})
  BY <1>2 DEF MayFollow
<1>5. Len(path) = 0
  OBVIOUS
<1>6. Explored(path, todo, V, {}) => Explored(path, todo, V, {u})
  BY <1>5 DEF Explored
<1> QED BY <1>2, <1>3, <1>4, <1>6 DEF CyclesOk

LEMMA CyclesGoOn ==
  ASSUME DependencyInit, NEW roots, NEW path, NEW todo, NEW V, NEW cycles,
         CyclesOk(roots, path, todo, V, cycles, {}), path # << >>,
         NEW v, v = Last(path), NEW w, NEW later, TodoTaken(todo, v, w, later)
  PROVE  CyclesOk(roots, path, later, V, cycles, {w}) /\ w \in Known
<1> DEFINE n == Len(path)
<1>1. TodoOk(todo) /\ PathOk(path, V)
  BY DEF CyclesOk
<1>2. v \in Known /\ v \in V /\ v = path[n]
  BY <1>1, PathShrinks
<1>3. /\ TodoOk(later) /\ w \in Known /\ w \in Needs(v)
      /\ \A u \in Known \ {v} : later[u] = todo[u]
      /\ ToSet(todo[v]) = {w} \cup ToSet(later[v])
  <2>1. TodoLeft(todo, v, w, later)
    BY <1>1, <1>2, TodoGoesOn
  <2> QED BY <2>1 DEF TodoLeft
<1>4. MayFollow(path, {w})
  BY <1>3 DEF MayFollow
<1>5. \A u \in Known \ V : ToSet(later[u]) = Needs(u)
  BY <1>2, <1>3 DEF CyclesOk
<1>6. Artifacts \subseteq ToSet(roots) \cup V \cup {w}
  BY DEF CyclesOk
<1>7. path \in Seq(Known) /\ n \in Nat /\ \A i \in 1 .. n : path[i] \in Known
  <2>1. path \in Seq(Known)
    BY <1>1 DEF PathOk
  <2> QED BY <2>1
<1>8. ASSUME Explored(path, todo, V, {}) PROVE Explored(path, later, V, {w})
  <2> HIDE DEF n
  <2>1. ASSUME NEW i \in 1 .. n, NEW x \in Needs(path[i])
        PROVE  \/ x \in V \ ToSet(path) \/ x \in ToSet(later[path[i]])
               \/ (i < n /\ x = path[i + 1]) \/ (i = n /\ x = w)
    <3>1. \/ x \in V \ ToSet(path) \/ x \in ToSet(todo[path[i]])
          \/ (i < n /\ x = path[i + 1])
      BY <1>8 DEF Explored, n
    <3>2. ASSUME x \in ToSet(todo[path[i]]) PROVE x \in ToSet(later[path[i]]) \/ (i = n /\ x = w)
      <4>1. CASE path[i] = v
        <5>1. i = n
          <6>1. Distinct(path) /\ i \in DOMAIN path /\ n \in DOMAIN path
            BY <1>1, <1>7 DEF PathOk, n
          <6> QED BY <1>2, <4>1, <6>1 DEF Distinct
        <5> QED BY <1>3, <3>2, <4>1, <5>1
      <4>2. CASE path[i] # v
        <5>1. later[path[i]] = todo[path[i]]
          BY <1>3, <1>7, <4>2
        <5> QED BY <3>2, <5>1
      <4> QED BY <4>1, <4>2
    <3> QED BY <3>1, <3>2
  <2>2. \A x \in V \ ToSet(path) : Needs(x) \subseteq V \ ToSet(path) /\ x \notin Reached(x)
    BY <1>8 DEF Explored
  <2> QED BY <2>1, <2>2 DEF Explored, n
<1> QED BY <1>1, <1>3, <1>4, <1>5, <1>6, <1>8 DEF CyclesOk

LEMMA CyclesReturn ==
  ASSUME DependencyInit, NEW roots, NEW path, NEW todo, NEW V, NEW cycles,
         CyclesOk(roots, path, todo, V, cycles, {}), path # << >>, todo[Last(path)] = << >>
  PROVE  CyclesOk(roots, Front(path), todo, V, cycles, {})
<1> DEFINE n == Len(path)  less == Front(path)  v == Last(path)
           old == V \ ToSet(path)  new == V \ ToSet(less)
<1>1. PathOk(path, V) /\ path \in Seq(Known)
  BY DEF CyclesOk, PathOk
<1>2. /\ PathOk(less, V) /\ v \in V /\ v \in Known /\ v = path[n] /\ v \notin ToSet(less)
      /\ ToSet(path) = {v} \cup ToSet(less)
  BY <1>1, PathShrinks
<1>3. /\ less \in Seq(Known) /\ Len(less) = n - 1 /\ n \in Nat \ {0}
      /\ \A i \in 1 .. n - 1 : less[i] = path[i]
  BY <1>1, FrontAndLast
<1>4. new = old \cup {v} /\ old \subseteq Known /\ v \notin old
  BY <1>2 DEF PathOk
<1>5. ToSet(todo[v]) = {}
  BY NothingInside
<1>6. MayFollow(less, {})
  BY DEF MayFollow
<1> HIDE DEF v, n, less, old, new
<1>7. ASSUME Explored(path, todo, V, {}) PROVE Explored(less, todo, V, {})
  <2>1. \A x \in old : Needs(x) \subseteq old /\ x \notin Reached(x)
    BY <1>7 DEF Explored, old
  <2>2. \A i \in 1 .. n : \A w \in Needs(path[i]) :
          w \in old \/ w \in ToSet(todo[path[i]]) \/ (i < n /\ w = path[i + 1])
    BY <1>7 DEF Explored, old, n
  <2>3. Needs(v) \subseteq old
    <3>1. n \in 1 .. n
      BY <1>3
    <3> QED BY <1>2, <1>5, <2>2, <3>1
  <2>4. v \notin Reached(v)
    BY <1>2, <1>4, <2>1, <2>3, ReachedIs
  <2>5. \A x \in new : Needs(x) \subseteq new /\ x \notin Reached(x)
    BY <1>4, <2>1, <2>3, <2>4
  <2>6. ASSUME NEW i \in 1 .. Len(less), NEW w \in Needs(less[i])
        PROVE  w \in new \/ w \in ToSet(todo[less[i]]) \/ (i < Len(less) /\ w = less[i + 1])
    <3>1. i \in 1 .. n - 1 /\ less[i] = path[i]
      BY <1>3
    <3>2. w \in old \/ w \in ToSet(todo[path[i]]) \/ (i < n /\ w = path[i + 1])
      BY <1>3, <2>2, <3>1
    <3>3. ASSUME w = path[i + 1] PROVE w \in new \/ (i < Len(less) /\ w = less[i + 1])
      <4>1. CASE i = n - 1
        BY <1>2, <1>3, <1>4, <3>1, <3>3, <4>1
      <4>2. CASE i # n - 1
        <5>1. i + 1 \in 1 .. n - 1 /\ i < n - 1
          BY <1>3, <3>1, <4>2
        <5> QED BY <1>3, <3>3, <5>1
      <4> QED BY <4>1, <4>2
    <3> QED BY <1>4, <3>1, <3>2, <3>3
  <2> QED BY <2>5, <2>6 DEF Explored, new
<1> QED BY <1>2, <1>6, <1>7 DEF CyclesOk, less

(* A call: of a node on the path, of one that was left, of a new one.      *)
LEMMA CyclesFound ==
  ASSUME NEW roots, NEW path, NEW todo, NEW V, NEW cycles, NEW u,
         CyclesOk(roots, path, todo, V, cycles, {u}), NEW i \in DOMAIN path, path[i] = u
  PROVE  CyclesOk(roots, path, todo, V, Append(cycles, Append(SubSeq(path, i, Len(path)), u)), {})
<1> DEFINE c == Append(SubSeq(path, i, Len(path)), u)  more == Append(cycles, c)  X == Seq(Known)
<1>1. PathOk(path, V) /\ MayFollow(path, {u}) /\ cycles \in Seq(X)
  BY DEF CyclesOk
<1>2. IsCycle(c)
  BY <1>1, CycleCloses
<1>3. c \in X
  BY <1>2 DEF IsCycle
<1>4. u \in V
  <2>1. u \in ToSet(path)
    BY DEF ToSet
  <2> QED BY <1>1, <2>1 DEF PathOk
<1> HIDE DEF c, X
<1>5. more \in Seq(X) /\ more # << >> /\ ToSet(more) = ToSet(cycles) \cup {c}
  BY <1>1, <1>3, AppendAdds
<1>6. MayFollow(path, {})
  BY DEF MayFollow
<1> HIDE DEF more
<1>7. \A d \in ToSet(more) : IsCycle(d)
  BY <1>2, <1>5 DEF CyclesOk
<1>8. CyclesOk(roots, path, todo, V, more, {})
  BY <1>4, <1>5, <1>6, <1>7 DEF CyclesOk, X
<1> QED BY <1>8 DEF more, c

LEMMA CyclesSkip ==
  ASSUME NEW roots, NEW path, NEW todo, NEW V, NEW cycles, NEW u,
         CyclesOk(roots, path, todo, V, cycles, {u}), u \in V, u \notin ToSet(path)
  PROVE  CyclesOk(roots, path, todo, V, cycles, {})
<1>1. MayFollow(path, {})
  BY DEF MayFollow
<1>2. Explored(path, todo, V, {u}) => Explored(path, todo, V, {})
  BY DEF Explored
<1>3. Artifacts \subseteq ToSet(roots) \cup V
  BY DEF CyclesOk
<1> QED BY <1>1, <1>2, <1>3 DEF CyclesOk

LEMMA CyclesEnter ==
  ASSUME NEW roots, NEW path, NEW todo, NEW V, NEW cycles, NEW u,
         CyclesOk(roots, path, todo, V, cycles, {u}), u \notin V
  PROVE  CyclesOk(roots, Append(path, u), todo, V \cup {u}, cycles, {})
<1> DEFINE n == Len(path)  more == Append(path, u)  W == V \cup {u}  old == V \ ToSet(path)
<1>1. PathOk(path, V) /\ MayFollow(path, {u}) /\ path \in Seq(Known) /\ u \in Known /\ ToSet(path) \subseteq V
  BY DEF CyclesOk, MayFollow, PathOk
<1>2. PathOk(more, W)
  BY <1>1, PathGrows
<1>3. more \in Seq(Known) /\ Len(more) = n + 1 /\ more[n + 1] = u /\ \A i \in 1 .. n : more[i] = path[i]
  BY <1>1, AppendAdds
<1>4. ToSet(more) = ToSet(path) \cup {u} /\ n \in Nat
  BY <1>1, AppendAdds
<1>5. W \ ToSet(more) = old
  BY <1>1, <1>4
<1>6. MayFollow(more, {})
  BY DEF MayFollow
<1>7. ToSet(todo[u]) = Needs(u)
  BY <1>1 DEF CyclesOk
<1> HIDE DEF n, more, W, old
<1>8. ASSUME Explored(path, todo, V, {u}) PROVE Explored(more, todo, W, {})
  <2>1. \A x \in old : Needs(x) \subseteq old /\ x \notin Reached(x)
    BY <1>8 DEF Explored, old
  <2>2. \A i \in 1 .. n : \A w \in Needs(path[i]) :
          w \in old \/ w \in ToSet(todo[path[i]]) \/ (i < n /\ w = path[i + 1]) \/ (i = n /\ w = u)
    BY <1>8 DEF Explored, old, n
  <2>3. ASSUME NEW i \in 1 .. n + 1, NEW w \in Needs(more[i])
        PROVE  w \in old \/ w \in ToSet(todo[more[i]]) \/ (i < n + 1 /\ w = more[i + 1])
    <3>1. CASE i = n + 1
      BY <1>3, <1>7, <3>1
    <3>2. CASE i # n + 1
      <4>1. i \in 1 .. n /\ more[i] = path[i] /\ i < n + 1
        BY <1>3, <1>4, <3>2
      <4>2. w \in old \/ w \in ToSet(todo[path[i]]) \/ (i < n /\ w = path[i + 1]) \/ (i = n /\ w = u)
        BY <2>2, <4>1
      <4>3. i < n => more[i + 1] = path[i + 1]
        <5>1. i < n => i + 1 \in 1 .. n
          BY <1>4, <4>1
        <5> QED BY <1>3, <5>1
      <4>4. i = n => more[i + 1] = u
        BY <1>3
      <4> QED BY <4>1, <4>2, <4>3, <4>4
    <3> QED BY <3>1, <3>2
  <2> QED BY <1>3, <1>5, <2>1, <2>3 DEF Explored
<1>9. Artifacts \subseteq ToSet(roots) \cup W
  BY DEF CyclesOk, W
<1>10. \A v \in Known \ W : ToSet(todo[v]) = Needs(v)
  BY DEF CyclesOk, W
<1>11. CyclesOk(roots, more, todo, W, cycles, {})
  BY <1>2, <1>6, <1>8, <1>9, <1>10 DEF CyclesOk
<1> QED BY <1>11 DEF more, W

(* A round takes a root or a dependency, and may go one node further, or    *)
(* goes one node back.                                                     *)
SearchesLeft(roots, todo, path) == 2 * (Len(roots) + Cardinality(Pending(todo))) + Len(path)

LEMMA SearchesCount ==
  ASSUME DependencyInit, NEW roots \in Seq(Known), NEW todo, NEW path \in Seq(Known)
  PROVE  SearchesLeft(roots, todo, path) \in Nat
<1>1. Len(roots) \in Nat /\ Len(path) \in Nat /\ Cardinality(Pending(todo)) \in Nat
  BY PendingCounts, InsideIs
<1> DEFINE a == Len(roots)  b == Cardinality(Pending(todo))  c == Len(path)
<1> HIDE DEF a, b, c
<1>2. a \in Nat /\ b \in Nat /\ c \in Nat => 2 * (a + b) + c \in Nat
  OBVIOUS
<1> QED BY <1>1, <1>2 DEF SearchesLeft, a, b, c

LEMMA RootLeaves ==
  ASSUME DependencyInit, NEW roots \in Seq(Known), NEW u, NEW rest, Taken(roots, u, rest),
         NEW todo, NEW path \in Seq(Known), NEW other \in Seq(Known), Len(other) <= Len(path) + 1
  PROVE  SearchesLeft(rest, todo, other) < SearchesLeft(roots, todo, path)
<1> DEFINE a == Len(roots)  b == Cardinality(Pending(todo))  c == Len(path)  d == Len(rest)  e == Len(other)
<1>1. d = a - 1 /\ a \in Nat
  <2>1. roots # << >> /\ rest = Tail(roots)
    BY DEF Taken
  <2> QED BY <2>1, HeadAndTail, InsideIs
<1>2. b \in Nat /\ c \in Nat /\ e \in Nat /\ e <= c + 1
  BY PendingCounts, InsideIs
<1> HIDE DEF a, b, c, d, e
<1>3. 2 * (d + b) + e < 2 * (a + b) + c
  BY <1>1, <1>2
<1> QED BY <1>3 DEF SearchesLeft, a, b, c, d, e

LEMMA TodoLeaves ==
  ASSUME DependencyInit, NEW roots \in Seq(Known), NEW todo, TodoOk(todo), NEW v \in Known, NEW w, NEW later,
         TodoTaken(todo, v, w, later),
         NEW path \in Seq(Known), NEW other \in Seq(Known), Len(other) <= Len(path) + 1
  PROVE  SearchesLeft(roots, later, other) < SearchesLeft(roots, todo, path)
<1> DEFINE a == Len(roots)  b == Cardinality(Pending(todo))  c == Len(path)
           d == Cardinality(Pending(later))  e == Len(other)
<1>1. d = b - 1
  BY PendingShrinks
<1>2. a \in Nat /\ b \in Nat /\ c \in Nat /\ e \in Nat /\ e <= c + 1
  BY PendingCounts, InsideIs
<1> HIDE DEF a, b, c, d, e
<1>3. 2 * (a + d) + e < 2 * (a + b) + c
  BY <1>1, <1>2
<1> QED BY <1>3 DEF SearchesLeft, a, b, c, d, e

LEMMA ReturnLeaves ==
  ASSUME DependencyInit, NEW roots \in Seq(Known), NEW todo, NEW path \in Seq(Known), path # << >>
  PROVE  SearchesLeft(roots, todo, Front(path)) < SearchesLeft(roots, todo, path)
<1> DEFINE a == Len(roots)  b == Cardinality(Pending(todo))  c == Len(path)  e == Len(Front(path))
<1>1. a \in Nat /\ b \in Nat /\ c \in Nat /\ e = c - 1
  BY PendingCounts, InsideIs, FrontAndLast
<1> HIDE DEF a, b, c, e
<1>2. 2 * (a + b) + e < 2 * (a + b) + c
  BY <1>1
<1> QED BY <1>2 DEF SearchesLeft, a, b, c, e

LEMMA SearchesStart ==
  ASSUME DependencyInit, NEW S, S \subseteq Known, NEW todo
  PROVE  /\ SearchesLeft(InOrder(S), todo, << >>) <= 2 * Size * (Size + 1)
         /\ 2 * Size * (Size + 1) \in Nat
<1> DEFINE a == Len(InOrder(S))  b == Cardinality(Pending(todo))  n == Size  m == n * n
<1>1. a \in Nat /\ a <= n
  BY InOrderIs, InsideIs, FewInside
<1>2. b \in Nat /\ b <= m /\ n \in Nat
  BY PendingCounts, KnownFinite
<1>3. Len(<< >>) = 0
  OBVIOUS
<1> HIDE DEF a, b, n
<1>4. m \in Nat /\ 2 * n * (n + 1) = 2 * (n + m)
  BY <1>2
<1> HIDE DEF m
<1>5. 2 * (a + b) + 0 <= 2 * (n + m) /\ 2 * (n + m) \in Nat
  BY <1>1, <1>2, <1>4
<1> QED BY <1>3, <1>4, <1>5 DEF SearchesLeft, a, b, n

CyclesGood(s, going) ==
  s \in CyclesState /\ CyclesOk(s.roots, s.path, s.todo, s.visited, s.cycles, going)

Further(s, t) == t.roots = s.roots /\ t.todo = s.todo /\ t.path \in Seq(Known) /\ Len(t.path) <= Len(s.path) + 1

LEMMA CyclesFromIs ==
  ASSUME NEW s \in CyclesState, NEW u \in Known
  PROVE  /\ CyclesFrom(s, u) \in CyclesState /\ Further(s, CyclesFrom(s, u))
         /\ CyclesGood(s, {u}) => CyclesGood(CyclesFrom(s, u), {})
<1> DEFINE t == CyclesFrom(s, u)  X == Seq(Known)  n == Len(s.path)
<1>1. /\ s.roots \in X /\ s.path \in X /\ s.todo \in [Known -> X]
      /\ s.visited \in SUBSET Known /\ s.cycles \in Seq(X)
      /\ s = [roots |-> s.roots, path |-> s.path, todo |-> s.todo, visited |-> s.visited,
              cycles |-> s.cycles]
  BY DEF CyclesState
<1>2. n \in Nat /\ DOMAIN s.path = 1 .. n
  BY <1>1
<1>3. CASE u \in ToSet(s.path)
  <2> DEFINE i == CHOOSE i \in DOMAIN s.path : s.path[i] = u
             c == Append(SubSeq(s.path, i, n), u)  more == Append(s.cycles, c)
  <2>1. \E k \in DOMAIN s.path : s.path[k] = u
    BY <1>3 DEF ToSet
  <2>2. i \in DOMAIN s.path /\ s.path[i] = u
    BY <2>1
  <2>3. t = [s EXCEPT !.cycles = more]
    BY <1>3 DEF CyclesFrom
  <2> HIDE DEF i, t
  <2>4. SubSeq(s.path, i, n) \in X
    BY <1>1, <1>2, <2>2
  <2>5. c \in X
    BY <2>4
  <2> HIDE DEF c, X
  <2>6. more \in Seq(X)
    BY <1>1, <2>5
  <2> HIDE DEF more
  <2>7. /\ t \in CyclesState /\ t.roots = s.roots /\ t.path = s.path /\ t.todo = s.todo
        /\ t.visited = s.visited /\ t.cycles = more
    BY <1>1, <2>3, <2>6 DEF CyclesState, X
  <2>8. ASSUME CyclesGood(s, {u}) PROVE CyclesGood(t, {})
    <3>1. CyclesOk(s.roots, s.path, s.todo, s.visited, more, {})
      BY <2>2, <2>8, CyclesFound DEF CyclesGood, more, c, n
    <3> QED BY <2>7, <3>1 DEF CyclesGood
  <2>9. Further(s, t)
    BY <1>1, <1>2, <2>7 DEF Further, X
  <2> QED BY <2>7, <2>8, <2>9 DEF t
<1>4. CASE u \notin ToSet(s.path) /\ u \in s.visited
  <2>1. t = s
    BY <1>4 DEF CyclesFrom
  <2>2. Further(s, s)
    BY <1>1, <1>2 DEF Further
  <2>3. CyclesGood(s, {u}) => CyclesGood(s, {})
    BY <1>4, CyclesSkip DEF CyclesGood
  <2> QED BY <2>1, <2>2, <2>3
<1>5. CASE u \notin ToSet(s.path) /\ u \notin s.visited
  <2> DEFINE more == Append(s.path, u)  W == s.visited \cup {u}
  <2>1. t = [s EXCEPT !.visited = W, !.path = more]
    BY <1>5 DEF CyclesFrom
  <2>2. more \in X /\ Len(more) = n + 1 /\ W \in SUBSET Known
    BY <1>1, AppendAdds
  <2> HIDE DEF more, W, t, X
  <2>3. /\ t \in CyclesState /\ t.roots = s.roots /\ t.path = more /\ t.todo = s.todo
        /\ t.visited = W /\ t.cycles = s.cycles
    BY <1>1, <2>1, <2>2 DEF CyclesState, X
  <2>4. ASSUME CyclesGood(s, {u}) PROVE CyclesGood(t, {})
    <3>1. CyclesOk(s.roots, more, s.todo, W, s.cycles, {})
      BY <1>5, <2>4, CyclesEnter DEF CyclesGood, more, W
    <3> QED BY <2>3, <3>1 DEF CyclesGood
  <2>5. Further(s, t)
    BY <1>2, <2>2, <2>3 DEF Further, X
  <2> QED BY <2>3, <2>4, <2>5 DEF t
<1> QED BY <1>3, <1>4, <1>5

(* A round: nothing is left, a root, a return, a dependency.               *)
LEMMA FindCyclesIs ==
  ASSUME DependencyInit, NEW s \in CyclesState
  PROVE  /\ FindCycles[s] \in CyclesState
         /\ CyclesGood(s, {}) =>
              /\ CyclesGood(FindCycles[s], {})
              /\ \/ s.path = << >> /\ s.roots = << >> /\ FindCycles[s] = s
                 \/ SearchesLeft(FindCycles[s].roots, FindCycles[s].todo, FindCycles[s].path)
                      < SearchesLeft(s.roots, s.todo, s.path)
<1> DEFINE t == FindCycles[s]  X == Seq(Known)
<1>1. /\ s.roots \in X /\ s.path \in X /\ s.todo \in [Known -> X]
      /\ s.visited \in SUBSET Known /\ s.cycles \in Seq(X)
      /\ s = [roots |-> s.roots, path |-> s.path, todo |-> s.todo, visited |-> s.visited,
              cycles |-> s.cycles]
  BY DEF CyclesState
<1>2. CASE s.path = << >> /\ s.roots = << >>
  BY <1>2 DEF FindCycles
<1>3. CASE s.path = << >> /\ s.roots # << >>
  <2> DEFINE u == Head(s.roots)  rest == Tail(s.roots)  r == [s EXCEPT !.roots = rest]
  <2>1. t = CyclesFrom(r, u)
    BY <1>3 DEF FindCycles
  <2>2. u \in Known /\ rest \in X
    BY <1>1, <1>3, HeadAndTail
  <2>3. Taken(s.roots, u, rest)
    BY <1>3 DEF Taken
  <2> HIDE DEF u, rest, t
  <2>4. /\ r \in CyclesState /\ r.roots = rest /\ r.path = s.path /\ r.todo = s.todo
        /\ r.visited = s.visited /\ r.cycles = s.cycles
    BY <1>1, <2>2 DEF CyclesState
  <2> HIDE DEF r
  <2>5. /\ t \in CyclesState /\ Further(r, t)
        /\ CyclesGood(r, {u}) => CyclesGood(t, {})
    BY <2>1, <2>2, <2>4, CyclesFromIs
  <2>6. ASSUME CyclesGood(s, {}) PROVE CyclesGood(t, {})
    <3>1. CyclesOk(rest, s.path, s.todo, s.visited, s.cycles, {u})
      BY <1>3, <2>3, <2>6, CyclesRoot DEF CyclesGood
    <3> QED BY <2>4, <2>5, <3>1 DEF CyclesGood
  <2>7. t.roots = rest /\ t.todo = s.todo /\ t.path \in X /\ Len(t.path) <= Len(s.path) + 1
    BY <2>4, <2>5 DEF Further
  <2>8. SearchesLeft(rest, s.todo, t.path) < SearchesLeft(s.roots, s.todo, s.path)
    BY <1>1, <2>3, <2>7, RootLeaves
  <2> QED BY <2>5, <2>6, <2>7, <2>8 DEF t
<1>4. CASE s.path # << >> /\ s.todo[Last(s.path)] = << >>
  <2> DEFINE less == Front(s.path)
  <2>1. t = [s EXCEPT !.path = less]
    BY <1>4 DEF FindCycles
  <2>2. less \in X
    BY <1>1, <1>4, FrontAndLast
  <2> HIDE DEF less, t
  <2>3. /\ t \in CyclesState /\ t.roots = s.roots /\ t.path = less /\ t.todo = s.todo
        /\ t.visited = s.visited /\ t.cycles = s.cycles
    BY <1>1, <2>1, <2>2 DEF CyclesState
  <2>4. ASSUME CyclesGood(s, {}) PROVE CyclesGood(t, {})
    <3>1. CyclesOk(s.roots, less, s.todo, s.visited, s.cycles, {})
      BY <1>4, <2>4, CyclesReturn DEF CyclesGood, less
    <3> QED BY <2>3, <3>1 DEF CyclesGood
  <2>5. SearchesLeft(s.roots, s.todo, less) < SearchesLeft(s.roots, s.todo, s.path)
    BY <1>1, <1>4, ReturnLeaves DEF less
  <2> QED BY <2>3, <2>4, <2>5 DEF t
<1>5. CASE s.path # << >> /\ s.todo[Last(s.path)] # << >>
  <2> DEFINE v == Last(s.path)  q == s.todo[v]  w == Head(q)  later == [s.todo EXCEPT ![v] = Tail(@)]
             r == [s EXCEPT !.todo = later]
  <2>1. t = CyclesFrom(r, w)
    BY <1>5 DEF FindCycles
  <2>2. v \in Known
    BY <1>1, <1>5, FrontAndLast
  <2>3. TodoTaken(s.todo, v, w, later)
    BY <1>5 DEF TodoTaken
  <2> HIDE DEF v
  <2>4. q \in X /\ q # << >>
    BY <1>1, <1>5, <2>2 DEF v
  <2> HIDE DEF q
  <2>5. w \in Known /\ Tail(q) \in X
    BY <2>4, HeadAndTail
  <2>6. later = [s.todo EXCEPT ![v] = Tail(q)]
    BY DEF q
  <2> HIDE DEF w, later, t
  <2>7. later \in [Known -> X]
    BY <1>1, <2>5, <2>6
  <2>8. /\ r \in CyclesState /\ r.roots = s.roots /\ r.path = s.path /\ r.todo = later
        /\ r.visited = s.visited /\ r.cycles = s.cycles
    BY <1>1, <2>7 DEF CyclesState
  <2> HIDE DEF r
  <2>9. /\ t \in CyclesState /\ Further(r, t)
        /\ CyclesGood(r, {w}) => CyclesGood(t, {})
    BY <2>1, <2>5, <2>8, CyclesFromIs
  <2>10. ASSUME CyclesGood(s, {}) PROVE CyclesGood(t, {})
    <3>1. CyclesOk(s.roots, s.path, later, s.visited, s.cycles, {w})
      BY <1>5, <2>3, <2>10, CyclesGoOn DEF CyclesGood, v
    <3> QED BY <2>8, <2>9, <3>1 DEF CyclesGood
  <2>11. t.roots = s.roots /\ t.todo = later /\ t.path \in X /\ Len(t.path) <= Len(s.path) + 1
    BY <2>8, <2>9 DEF Further
  <2>12. ASSUME CyclesGood(s, {})
         PROVE  SearchesLeft(s.roots, later, t.path) < SearchesLeft(s.roots, s.todo, s.path)
    <3>1. TodoOk(s.todo)
      BY <2>12 DEF CyclesGood, CyclesOk
    <3> QED BY <1>1, <2>2, <2>3, <2>11, <3>1, TodoLeaves
  <2> QED BY <2>9, <2>10, <2>11, <2>12 DEF t
<1> QED BY <1>2, <1>3, <1>4, <1>5

LEMMA FindCyclesIsLoop ==
  ASSUME DependencyInit
  PROVE  IsLoop(FindCycles, CyclesState)
<1>1. \A s \in CyclesState : FindCycles[s] \in CyclesState
  BY FindCyclesIs
<1> DEFINE f == FindCycles
<1>2. f = [s \in CyclesState |-> f[s]]
  BY DEF FindCycles
<1> HIDE DEF f
<1>3. \A s \in CyclesState : f[s] \in CyclesState
  BY <1>1 DEF f
<1>4. f \in [CyclesState -> CyclesState]
  BY <1>2, <1>3
<1> QED BY <1>4 DEF IsLoop, f

CyclesInv == {s \in CyclesState : CyclesGood(s, {})}
CyclesLeft == [s \in CyclesState |-> SearchesLeft(s.roots, s.todo, s.path)]

LEMMA FindCyclesProgresses ==
  ASSUME DependencyInit
  PROVE  /\ Progresses(FindCycles, CyclesInv, CyclesLeft)
         /\ \A s \in CyclesInv : FindCycles[s] = s => s.path = << >> /\ s.roots = << >>
<1> SUFFICES ASSUME NEW s \in CyclesInv
             PROVE  /\ FindCycles[s] \in CyclesInv /\ CyclesLeft[s] \in Nat
                    /\ FindCycles[s] = s \/ CyclesLeft[FindCycles[s]] < CyclesLeft[s]
                    /\ FindCycles[s] = s => s.path = << >> /\ s.roots = << >>
  BY DEF Progresses
<1> DEFINE t == FindCycles[s]
<1>1. s \in CyclesState /\ CyclesGood(s, {}) /\ s.roots \in Seq(Known) /\ s.path \in Seq(Known)
  BY DEF CyclesInv, CyclesState
<1>2. /\ t \in CyclesState /\ CyclesGood(t, {})
      /\ \/ s.path = << >> /\ s.roots = << >> /\ t = s
         \/ SearchesLeft(t.roots, t.todo, t.path) < SearchesLeft(s.roots, s.todo, s.path)
  BY <1>1, FindCyclesIs
<1> HIDE DEF t
<1>3. t \in CyclesInv
  BY <1>2 DEF CyclesInv
<1>4. /\ CyclesLeft[s] = SearchesLeft(s.roots, s.todo, s.path)
      /\ CyclesLeft[t] = SearchesLeft(t.roots, t.todo, t.path)
  BY <1>1, <1>2 DEF CyclesLeft
<1>5. CyclesLeft[s] \in Nat
  BY <1>1, <1>4, SearchesCount
<1>6. CASE s.path = << >> /\ s.roots = << >> /\ t = s
  BY <1>3, <1>5, <1>6 DEF t
<1>7. CASE SearchesLeft(t.roots, t.todo, t.path) < SearchesLeft(s.roots, s.todo, s.path)
  <2>1. CyclesLeft[t] < CyclesLeft[s]
    BY <1>4, <1>7
  <2>2. t # s
    BY <1>5, <2>1
  <2> QED BY <1>3, <1>5, <2>1, <2>2 DEF t
<1> QED BY <1>2, <1>6, <1>7

LEMMA CycleReaches ==
  ASSUME DependencyInit, NEW c, IsCycle(c)
  PROVE  c[1] \in Artifacts /\ c[1] \in Reached(c[1]) /\ \A i \in 1 .. Len(c) - 1 : c[i] \in Artifacts
<1> DEFINE n == Len(c)  u == c[1]  T == {k \in Nat : k + 2 <= n => c[k + 2] \in Reached(u)}
<1>1. /\ c \in Seq(Known) /\ n \in Nat /\ n > 1 /\ u = c[n]
      /\ \A i \in 1 .. n - 1 : c[i + 1] \in Needs(c[i])
  <2>1. c \in Seq(Known) /\ n \in Nat /\ n > 1 /\ u = Last(c)
    BY DEF IsCycle
  <2>2. Last(c) = c[n]
    BY <2>1, FrontAndLast
  <2> QED BY <2>1, <2>2 DEF IsCycle
<1>2. u \in Known
  BY <1>1
<1>3. /\ Needs(u) \subseteq Reached(u)
      /\ \A v \in Reached(u) : Needs(v) \subseteq Reached(u)
  BY <1>2, ReachedIs
<1> HIDE DEF n, u
<1>4. 0 \in T
  <2>1. 1 \in 1 .. n - 1
    BY <1>1
  <2>2. c[1 + 1] \in Needs(c[1])
    BY <1>1, <2>1
  <2>3. c[0 + 2] \in Reached(u)
    BY <1>3, <2>2 DEF u
  <2> QED BY <2>3
<1>5. ASSUME NEW k \in Nat, k \in T PROVE k + 1 \in T
  <2>1. ASSUME (k + 1) + 2 <= n PROVE c[(k + 1) + 2] \in Reached(u)
    <3> DEFINE j == k + 2
    <3>1. j \in 1 .. n - 1 /\ (k + 1) + 2 = j + 1 /\ j <= n
      BY <1>1, <2>1
    <3>2. c[j] \in Reached(u)
      BY <1>5, <3>1
    <3>3. c[j + 1] \in Needs(c[j])
      BY <1>1, <3>1
    <3> QED BY <1>3, <3>1, <3>2, <3>3
  <2> QED BY <2>1
<1>6. Nat \subseteq T
  <2> HIDE DEF T
  <2> QED BY <1>4, <1>5, CountUp
<1>7. u \in Reached(u)
  <2> DEFINE k == n - 2
  <2>1. k \in Nat /\ k + 2 = n
    BY <1>1
  <2>2. k \in T
    BY <1>6, <2>1
  <2>3. c[n] \in Reached(u)
    BY <2>1, <2>2
  <2> QED BY <1>1, <2>3
<1>8. ASSUME NEW i \in 1 .. n - 1 PROVE c[i] \in Artifacts
  <2>1. Needs(c[i]) # {}
    BY <1>1
  <2> QED BY <2>1 DEF Needs
<1>9. u \in Artifacts
  <2>1. 1 \in 1 .. n - 1
    BY <1>1
  <2> QED BY <1>8, <2>1 DEF u
<1> QED BY <1>7, <1>8, <1>9 DEF n, u

LEMMA DetectCyclesIs ==
  ASSUME DependencyInit
  PROVE  /\ DetectCycles \in Seq(Seq(Known)) /\ \A c \in ToSet(DetectCycles) : IsCycle(c)
         /\ DetectCycles = << >> <=> \A v \in Artifacts : v \notin Reached(v)
<1> DEFINE n == 2 * Size * (Size + 1)  X == Seq(Known)  todo == [u \in Known |-> Deps(u)]
           s0 == [roots |-> InOrder(Artifacts), path |-> << >>, todo |-> todo,
                  visited |-> {}, cycles |-> << >>]
           I == CyclesInv  left == CyclesLeft  s == Repeat(FindCycles, s0, n)
<1>1. TodoOk(todo) /\ todo \in [Known -> X] /\ \A v \in Known : ToSet(todo[v]) = Needs(v)
  BY TodoStarts DEF TodoOk
<1> HIDE DEF todo
<1>2. InOrder(Artifacts) \in X /\ ToSet(InOrder(Artifacts)) = Artifacts
  BY InOrderIs, KnownFinite
<1>3. << >> \in X /\ << >> \in Seq(X) /\ Len(<< >>) = 0 /\ ToSet(<< >>) = {} /\ Distinct(<< >>)
  BY NothingInside
<1>4. s0 \in CyclesState
  <2> HIDE DEF X
  <2> QED BY <1>1, <1>2, <1>3 DEF CyclesState, X
<1>5. CyclesOk(InOrder(Artifacts), << >>, todo, {}, << >>, {})
  <2>1. PathOk(<< >>, {})
    BY <1>3 DEF PathOk
  <2>2. MayFollow(<< >>, {})
    BY DEF MayFollow
  <2>3. Explored(<< >>, todo, {}, {})
    BY <1>3 DEF Explored
  <2> QED BY <1>1, <1>2, <1>3, <2>1, <2>2, <2>3 DEF CyclesOk
<1>6. s0 \in I
  <2>1. CyclesGood(s0, {})
    BY <1>4, <1>5 DEF CyclesGood
  <2> QED BY <1>4, <2>1 DEF CyclesInv
<1>7. left[s0] <= n /\ n \in Nat
  <2>1. left[s0] = SearchesLeft(InOrder(Artifacts), todo, << >>)
    BY <1>4 DEF CyclesLeft
  <2> QED BY <2>1, SearchesStart, KnownFinite
<1>8. I \subseteq CyclesState
  BY DEF CyclesInv
<1>9. IsLoop(FindCycles, CyclesState) /\ Progresses(FindCycles, I, left)
  BY FindCyclesIsLoop, FindCyclesProgresses
<1> HIDE DEF I, left, s0, n
<1>10. Ended(FindCycles, I, s)
  BY <1>6, <1>7, <1>8, <1>9, RepeatEnds
<1>11. DetectCycles = s.cycles
  BY DEF DetectCycles, s0, n, todo
<1> HIDE DEF s
<1>12. s \in I /\ FindCycles[s] = s
  BY <1>10 DEF Ended
<1>13. s.path = << >> /\ s.roots = << >>
  BY <1>12, FindCyclesProgresses DEF I
<1>14. CyclesOk(<< >>, << >>, s.todo, s.visited, s.cycles, {})
  BY <1>12, <1>13 DEF I, CyclesInv, CyclesGood
<1> DEFINE found == s.cycles
<1>15. found \in Seq(X) /\ \A c \in ToSet(found) : IsCycle(c)
  BY <1>14 DEF CyclesOk
<1>16. ASSUME found = << >>, NEW v \in Artifacts PROVE v \notin Reached(v)
  <2>1. v \in s.visited
    BY <1>3, <1>14 DEF CyclesOk
  <2> QED BY <1>3, <1>14, <1>16, <2>1 DEF CyclesOk, Explored
<1> HIDE DEF found
<1>17. ASSUME found # << >> PROVE \E v \in Artifacts : v \in Reached(v)
  <2> HIDE DEF X
  <2>1. \E c : c \in ToSet(found)
    BY <1>15, <1>17, NothingInside
  <2>2. PICK c : c \in ToSet(found)
    BY <2>1
  <2>3. IsCycle(c)
    BY <1>15, <2>2
  <2> QED BY <2>3, CycleReaches
<1> QED BY <1>11, <1>15, <1>16, <1>17 DEF found

-----------------------------------------------------------------------------
(* Tarjan's algorithm.  The nodes on the path, P, and on the stack, S: a    *)
(* node on the path reaches what is above it on the stack, and from each on *)
(* the stack one on the path is reached that is not above it; the low link  *)
(* of a node on the path is the index of one on the stack that it reaches;  *)
(* and no edge from what is above it, up to the next on the path, leads     *)
(* lower on the stack, but for those of its own that it has not seen.       *)
Below(P, S, index) ==
  \A p \in P : \A x \in S : index[p] <= index[x] => x \in Around(p)

Leads(P, S, index) ==
  \A x \in S : \E p \in P : index[p] <= index[x] /\ p \in Around(x)

LowLinks(P, S, index, low) ==
  \A p \in P : low[p] <= index[p] /\ \E x \in S : low[p] = index[x] /\ x \in Around(p)

Region(p, P, S, index) ==
  {x \in S : index[p] <= index[x] /\ \A q \in P : index[p] < index[q] => index[x] < index[q]}

Lowest(P, S, todo, index, low, v, going) ==
  \A p \in P : \A x \in Region(p, P, S, index) : \A w \in Needs(x) \cap S :
    \/ (x = p /\ w \in ToSet(todo[p]))
    \/ (x = p /\ p = v /\ w \in going)
    \/ low[p] <= index[w]

Numbered(P, S, index) ==
  P \subseteq S /\ S \subseteq Known /\ \A x \in S : index[x] \in Nat \ {0}

Top(P, index, v) == v \in P /\ \A q \in P \ {v} : index[q] < index[v]

LowOk(P, S, todo, index, low, v, going) ==
  /\ Numbered(P, S, index) /\ \A p \in P : low[p] \in Nat
  /\ Below(P, S, index) /\ Leads(P, S, index) /\ LowLinks(P, S, index, low)
  /\ Lowest(P, S, todo, index, low, v, going)

LEMMA AroundOnwards ==
  ASSUME DependencyInit, NEW u \in Known, NEW v \in Around(u)
  PROVE  v \in Known /\ Around(v) \subseteq Around(u) /\ Needs(v) \subseteq Around(u)
<1>1. /\ Around(u) \subseteq Known /\ u \in Around(u)
      /\ \A x \in Around(u) : Needs(x) \subseteq Around(u)
  BY AroundIs
<1>2. v \in Known
  BY <1>1
<1>3. \A S \in SUBSET Known :
        v \in S /\ (\A x \in S : Needs(x) \subseteq S) => Around(v) \subseteq S
  BY <1>2, AroundIs
<1> QED BY <1>1, <1>2, <1>3

LEMMA LowGoesOn ==
  ASSUME NEW P, NEW S, NEW todo, NEW index, NEW low, NEW v, LowOk(P, S, todo, index, low, v, {}),
         NEW w, NEW later, TodoLeft(todo, v, w, later)
  PROVE  LowOk(P, S, later, index, low, v, {w})
<1>1. ASSUME NEW p \in P, NEW x \in Region(p, P, S, index), NEW y \in Needs(x) \cap S
      PROVE  \/ (x = p /\ y \in ToSet(later[p])) \/ (x = p /\ p = v /\ y \in {w}) \/ low[p] <= index[y]
  <2>1. (x = p /\ y \in ToSet(todo[p])) \/ low[p] <= index[y]
    BY DEF LowOk, Lowest
  <2>2. CASE p = v
    BY <2>1, <2>2 DEF TodoLeft
  <2>3. CASE p # v
    <3>1. p \in Known
      BY DEF LowOk, Numbered
    <3>2. later[p] = todo[p]
      BY <2>3, <3>1 DEF TodoLeft
    <3> QED BY <2>1, <3>2
  <2> QED BY <2>2, <2>3
<1> QED BY <1>1 DEF LowOk, Lowest

LEMMA LowSkip ==
  ASSUME NEW P, NEW S, NEW todo, NEW index, NEW low, NEW v, NEW w,
         LowOk(P, S, todo, index, low, v, {w}), w \notin S
  PROVE  LowOk(P, S, todo, index, low, v, {})
<1>1. ASSUME NEW p \in P, NEW x \in Region(p, P, S, index), NEW y \in Needs(x) \cap S
      PROVE  (x = p /\ y \in ToSet(todo[p])) \/ low[p] <= index[y]
  BY DEF LowOk, Lowest
<1> QED BY <1>1 DEF LowOk, Lowest

(* A successor that is on the stack.                                       *)
LEMMA LowSees ==
  ASSUME DependencyInit,
         NEW P, NEW S, NEW todo, NEW index, NEW low, NEW v \in P, NEW w,
         LowOk(P, S, todo, index, low, v, {w}), w \in S, w \in Needs(v),
         NEW low2, \A p \in P \ {v} : low2[p] = low[p], low2[v] = Least(low[v], index[w])
  PROVE  LowOk(P, S, todo, index, low2, v, {})
<1>1. /\ v \in Known /\ index[w] \in Nat /\ \A p \in P : low[p] \in Nat
      /\ low[v] \in Nat /\ index[v] \in Nat /\ \A x \in S : index[x] \in Nat
  BY DEF LowOk, Numbered
<1>2. low2[v] \in Nat /\ low2[v] <= low[v] /\ low2[v] <= index[w] /\ low2[v] \in {low[v], index[w]}
  <2> DEFINE a == low[v]  b == index[w]
  <2> HIDE DEF a, b
  <2>1. a \in Nat /\ b \in Nat => Least(a, b) \in Nat /\ Least(a, b) <= a /\ Least(a, b) <= b /\ Least(a, b) \in {a, b}
    BY DEF Least
  <2> QED BY <1>1, <2>1 DEF a, b
<1>3. \A p \in P : low2[p] \in Nat
  BY <1>1, <1>2
<1>4. ASSUME NEW p \in P PROVE low2[p] <= index[p] /\ \E x \in S : low2[p] = index[x] /\ x \in Around(p)
  <2>1. low[p] <= index[p] /\ \E x \in S : low[p] = index[x] /\ x \in Around(p)
    BY DEF LowOk, LowLinks
  <2>2. CASE p = v /\ low2[v] = index[w]
    <3>1. w \in Around(v)
      BY <1>1, AroundIs
    <3>2. low2[v] <= index[v]
      <4> DEFINE a == low2[v]  b == low[v]  c == index[v]
      <4>1. a \in Nat /\ b \in Nat /\ c \in Nat /\ a <= b /\ b <= c
        BY <1>1, <1>2, <2>1, <2>2
      <4> HIDE DEF a, b, c
      <4>2. a <= c
        BY <4>1
      <4> QED BY <4>2 DEF a, c
    <3> QED BY <2>2, <3>1, <3>2
  <2>3. CASE ~(p = v /\ low2[v] = index[w])
    <3>1. low2[p] = low[p]
      BY <1>2, <2>3
    <3> QED BY <2>1, <3>1
  <2> QED BY <2>2, <2>3
<1>5. ASSUME NEW p \in P, NEW x \in Region(p, P, S, index), NEW y \in Needs(x) \cap S
      PROVE  (x = p /\ y \in ToSet(todo[p])) \/ low2[p] <= index[y]
  <2>1. \/ (x = p /\ y \in ToSet(todo[p])) \/ (x = p /\ p = v /\ y = w) \/ low[p] <= index[y]
    BY DEF LowOk, Lowest
  <2>2. CASE p = v /\ y = w
    BY <1>2, <2>2
  <2>3. CASE low[p] <= index[y]
    <3> DEFINE a == low2[p]  b == low[p]  c == index[y]
    <3>1. a \in Nat /\ b \in Nat /\ c \in Nat /\ a <= b /\ b <= c
      <4>1. a <= b
        <5>1. CASE p = v
          BY <1>2, <5>1
        <5>2. CASE p # v
          BY <1>1, <5>2
        <5> QED BY <5>1, <5>2
      <4> QED BY <1>1, <1>3, <2>3, <4>1
    <3> HIDE DEF a, b, c
    <3>2. a <= c
      BY <3>1
    <3> QED BY <3>2 DEF a, c
  <2> QED BY <2>1, <2>2, <2>3
<1> QED BY <1>3, <1>4, <1>5 DEF LowOk, LowLinks, Lowest

(* A node is entered: it is above all others.                              *)
AllUnder(f, S, n) == n \in Nat \ {0} /\ \A x \in S : f[x] < n
Adds(f, f2, S, u, n) == f2[u] = n /\ \A x \in S : f2[x] = f[x]

LEMMA LowEnter ==
  ASSUME DependencyInit,
         NEW P, NEW S, NEW todo, NEW index, NEW low, NEW v, NEW u \in Known,
         LowOk(P, S, todo, index, low, v, {u}), u \notin S, ToSet(todo[u]) = Needs(u),
         P = {} \/ (Top(P, index, v) /\ u \in Needs(v)),
         NEW n, AllUnder(index, S, n), NEW index2, Adds(index, index2, S, u, n),
         NEW low2, Adds(low, low2, P, u, n)
  PROVE  /\ LowOk(P \cup {u}, S \cup {u}, todo, index2, low2, u, {})
         /\ Top(P \cup {u}, index2, u)
<1> DEFINE Q == P \cup {u}  R == S \cup {u}
<1>0. /\ n \in Nat \ {0} /\ \A x \in S : index[x] < n
      /\ index2[u] = n /\ low2[u] = n
      /\ (\A x \in S : index2[x] = index[x]) /\ \A p \in P : low2[p] = low[p]
  BY DEF AllUnder, Adds
<1>1. /\ P \subseteq S /\ S \subseteq Known /\ \A x \in S : index[x] \in Nat \ {0}
      /\ \A p \in P : low[p] \in Nat /\ low[p] <= index[p]
  BY DEF LowOk, Numbered, LowLinks
<1>2. Numbered(Q, R, index2) /\ \A p \in Q : low2[p] \in Nat
  BY <1>0, <1>1 DEF Numbered
<1>3. Top(Q, index2, u)
  BY <1>0, <1>1 DEF Top
<1>4. \A p \in P : u \in Around(p)
  <2>1. CASE P = {}
    BY <2>1
  <2>2. CASE Top(P, index, v) /\ u \in Needs(v)
    <3>1. ASSUME NEW p \in P PROVE u \in Around(p)
      <4>1. index[p] <= index[v] /\ v \in S
        <5>1. CASE p = v
          BY <1>0, <1>1, <2>2, <5>1 DEF Top
        <5>2. CASE p # v
          <6> DEFINE a == index[p]  b == index[v]
          <6>1. a \in Nat /\ b \in Nat /\ a < b
            BY <1>0, <1>1, <2>2, <5>2 DEF Top
          <6> HIDE DEF a, b
          <6>2. a <= b
            BY <6>1
          <6> QED BY <1>0, <1>1, <2>2, <6>2 DEF Top, a, b
        <5> QED BY <5>1, <5>2
      <4>2. v \in Around(p)
        BY <4>1 DEF LowOk, Below
      <4> QED BY <1>0, <1>1, <2>2, <4>2, AroundOnwards
    <3> QED BY <3>1
  <2> QED BY <2>1, <2>2
<1>5. u \in Around(u)
  BY AroundIs
<1>6. ASSUME NEW p \in Q, NEW x \in R, index2[p] <= index2[x] PROVE x \in Around(p)
  <2>1. CASE p = u
    <3>1. x = u
      BY <1>0, <1>1, <1>6, <2>1
    <3> QED BY <1>5, <2>1, <3>1
  <2>2. CASE p # u /\ x = u
    BY <1>4, <2>2
  <2>3. CASE p # u /\ x # u
    <3>1. p \in P /\ x \in S /\ index[p] <= index[x]
      BY <1>0, <1>1, <1>6, <2>3
    <3> QED BY <3>1 DEF LowOk, Below
  <2> QED BY <2>1, <2>2, <2>3
<1>7. ASSUME NEW x \in R PROVE \E p \in Q : index2[p] <= index2[x] /\ p \in Around(x)
  <2>1. CASE x = u
    BY <1>0, <1>5, <2>1
  <2>2. CASE x # u
    <3>1. PICK p \in P : index[p] <= index[x] /\ p \in Around(x)
      BY <2>2 DEF LowOk, Leads
    <3>2. index2[p] <= index2[x]
      BY <1>0, <1>1, <2>2, <3>1
    <3> QED BY <3>1, <3>2
  <2> QED BY <2>1, <2>2
<1>8. ASSUME NEW p \in Q PROVE low2[p] <= index2[p] /\ \E x \in R : low2[p] = index2[x] /\ x \in Around(p)
  <2>1. CASE p = u
    BY <1>0, <1>5, <2>1
  <2>2. CASE p # u
    <3>1. PICK x \in S : low[p] = index[x] /\ x \in Around(p)
      BY <2>2 DEF LowOk, LowLinks
    <3>2. low2[p] = low[p] /\ index2[p] = index[p] /\ index2[x] = index[x]
      BY <1>0, <1>1, <2>2
    <3> QED BY <1>0, <1>1, <2>2, <3>1, <3>2
  <2> QED BY <2>1, <2>2
<1>9. ASSUME NEW p \in Q, NEW x \in Region(p, Q, R, index2), NEW w \in Needs(x) \cap R
      PROVE  (x = p /\ w \in ToSet(todo[p])) \/ low2[p] <= index2[w]
  <2>1. x \in R /\ index2[p] <= index2[x] /\ \A q \in Q : index2[p] < index2[q] => index2[x] < index2[q]
    BY DEF Region
  <2>2. CASE p = u
    <3>1. x = u
      BY <1>0, <1>1, <2>1, <2>2
    <3> QED BY <2>2, <3>1
  <2>3. CASE p # u
    <3>1. p \in P /\ index2[p] = index[p] /\ index[p] \in Nat /\ index[p] < n /\ low2[p] = low[p]
          /\ low[p] \in Nat /\ low[p] <= index[p]
      BY <1>0, <1>1, <2>3
    <3>2. x # u
      BY <1>0, <2>1, <3>1
    <3>3. x \in S /\ index2[x] = index[x]
      BY <1>0, <2>1, <3>2
    <3>4. x \in Region(p, P, S, index)
      <4>1. ASSUME NEW q \in P, index[p] < index[q] PROVE index[x] < index[q]
        <5>1. index2[q] = index[q]
          BY <1>0, <1>1
        <5> QED BY <2>1, <3>1, <3>3, <4>1, <5>1
      <4> QED BY <2>1, <3>1, <3>3, <4>1 DEF Region
    <3>5. CASE w = u
      <4> DEFINE a == low[p]  b == index[p]
      <4>1. a \in Nat /\ b \in Nat /\ a <= b /\ b < n
        BY <3>1
      <4> HIDE DEF a, b
      <4>2. a <= n
        BY <1>0, <4>1
      <4> QED BY <1>0, <3>1, <3>5, <4>2 DEF a
    <3>6. CASE w # u
      <4>1. w \in Needs(x) \cap S /\ index2[w] = index[w]
        BY <1>0, <3>6
      <4>2. (x = p /\ w \in ToSet(todo[p])) \/ low[p] <= index[w]
        BY <3>1, <3>4, <3>6, <4>1 DEF LowOk, Lowest
      <4> QED BY <3>1, <4>1, <4>2
    <3> QED BY <3>5, <3>6
  <2> QED BY <2>2, <2>3
<1>10. LowOk(Q, R, todo, index2, low2, u, {})
  BY <1>2, <1>6, <1>7, <1>8, <1>9 DEF LowOk, Below, Leads, LowLinks, Lowest
<1> QED BY <1>3, <1>10

(* A node is left that reaches one below it on the stack: another is still  *)
(* on the path, and gets its low link.                                     *)
LEMMA LowReaches ==
  ASSUME DependencyInit,
         NEW P, NEW S, NEW todo, NEW index, NEW low, NEW v,
         LowOk(P, S, todo, index, low, v, {}), Top(P, index, v), low[v] # index[v]
  PROVE  \E r \in P \ {v} : index[r] < index[v] /\ r \in Around(v)
<1>1. P \subseteq S /\ S \subseteq Known /\ v \in P /\ \A x \in S : index[x] \in Nat
  BY DEF LowOk, Numbered, Top
<1>2. low[v] <= index[v] /\ low[v] \in Nat
  BY <1>1 DEF LowOk, LowLinks
<1>3. PICK x \in S : low[v] = index[x] /\ x \in Around(v)
  BY <1>1 DEF LowOk, LowLinks
<1>4. PICK r \in P : index[r] <= index[x] /\ r \in Around(x)
  BY DEF LowOk, Leads
<1>5. index[r] < index[v]
  <2> DEFINE a == index[r]  b == index[x]  c == index[v]
  <2>1. a \in Nat /\ b \in Nat /\ c \in Nat /\ a <= b /\ b <= c /\ b # c
    BY <1>1, <1>2, <1>3, <1>4
  <2> HIDE DEF a, b, c
  <2>2. a < c
    BY <2>1
  <2> QED BY <2>2 DEF a, c
<1>6. r # v
  BY <1>1, <1>5
<1>7. r \in Around(v)
  BY <1>1, <1>3, <1>4, AroundOnwards
<1> QED BY <1>5, <1>6, <1>7

LEMMA LowReturn ==
  ASSUME DependencyInit,
         NEW P, NEW S, NEW todo, NEW index, NEW low, NEW v,
         LowOk(P, S, todo, index, low, v, {}), Top(P, index, v), low[v] # index[v],
         ToSet(todo[v]) = {}, NEW q, Top(P \ {v}, index, q), v \in Needs(q),
         NEW low2, \A p \in P \ {v, q} : low2[p] = low[p], low2[q] = Least(low[q], low[v])
  PROVE  LowOk(P \ {v}, S, todo, index, low2, q, {})
<1> DEFINE Q == P \ {v}
<1>1. /\ P \subseteq S /\ S \subseteq Known /\ \A x \in S : index[x] \in Nat \ {0}
      /\ \A p \in P : low[p] \in Nat /\ low[p] <= index[p]
  BY DEF LowOk, Numbered, LowLinks
<1>2. v \in P /\ q \in Q /\ q \in Known /\ v \in Known /\ \A p \in Q : index[p] < index[v]
  BY <1>1 DEF Top
<1>3. \A p \in Q \ {q} : index[p] < index[q]
  BY DEF Top
<1>4. low2[q] \in Nat /\ low2[q] <= low[q] /\ low2[q] <= low[v] /\ low2[q] \in {low[q], low[v]}
  <2> DEFINE a == low[q]  b == low[v]
  <2> HIDE DEF a, b
  <2>1. a \in Nat /\ b \in Nat => Least(a, b) \in Nat /\ Least(a, b) <= a /\ Least(a, b) <= b /\ Least(a, b) \in {a, b}
    BY DEF Least
  <2> QED BY <1>1, <1>2, <2>1 DEF a, b
<1>5. Numbered(Q, S, index) /\ \A p \in Q : low2[p] \in Nat
  BY <1>1, <1>2, <1>4 DEF Numbered
<1>6. Below(Q, S, index)
  BY DEF LowOk, Below
<1>7. PICK r \in Q : index[r] < index[v] /\ r \in Around(v)
  BY LowReaches
<1>8. ASSUME NEW x \in S PROVE \E p \in Q : index[p] <= index[x] /\ p \in Around(x)
  <2>1. PICK p \in P : index[p] <= index[x] /\ p \in Around(x)
    BY DEF LowOk, Leads
  <2>2. CASE p = v
    <3>1. index[r] <= index[x]
      <4> DEFINE a == index[r]  b == index[v]  c == index[x]
      <4>1. a \in Nat /\ b \in Nat /\ c \in Nat /\ a < b /\ b <= c
        BY <1>1, <1>2, <1>7, <2>1, <2>2
      <4> HIDE DEF a, b, c
      <4>2. a <= c
        BY <4>1
      <4> QED BY <4>2 DEF a, c
    <3>2. r \in Around(x)
      BY <1>1, <1>7, <2>1, <2>2, AroundOnwards
    <3> QED BY <3>1, <3>2
  <2>3. CASE p # v
    BY <2>1, <2>3
  <2> QED BY <2>2, <2>3
<1>9. ASSUME NEW p \in Q PROVE low2[p] <= index[p] /\ \E x \in S : low2[p] = index[x] /\ x \in Around(p)
  <2>1. low[p] <= index[p] /\ \E x \in S : low[p] = index[x] /\ x \in Around(p)
    BY DEF LowOk, LowLinks
  <2>2. CASE p = q /\ low2[q] = low[v]
    <3>1. PICK x \in S : low[v] = index[x] /\ x \in Around(v)
      BY <1>2 DEF LowOk, LowLinks
    <3>2. v \in Around(q)
      BY <1>2, AroundIs
    <3>3. x \in Around(q)
      BY <1>2, <3>1, <3>2, AroundOnwards
    <3>4. low2[q] <= index[q]
      <4> DEFINE a == low2[q]  b == low[q]  c == index[q]
      <4>1. a \in Nat /\ b \in Nat /\ c \in Nat /\ a <= b /\ b <= c
        BY <1>1, <1>2, <1>4, <2>1, <2>2
      <4> HIDE DEF a, b, c
      <4>2. a <= c
        BY <4>1
      <4> QED BY <4>2 DEF a, c
    <3> QED BY <2>2, <3>1, <3>3, <3>4
  <2>3. CASE ~(p = q /\ low2[q] = low[v])
    <3>1. low2[p] = low[p]
      BY <1>4, <2>3
    <3> QED BY <2>1, <3>1
  <2> QED BY <2>2, <2>3
<1>10. ASSUME NEW p \in Q, NEW x \in Region(p, Q, S, index), NEW w \in Needs(x) \cap S
       PROVE  (x = p /\ w \in ToSet(todo[p])) \/ low2[p] <= index[w]
  <2>1. x \in S /\ index[p] <= index[x] /\ \A y \in Q : index[p] < index[y] => index[x] < index[y]
    BY DEF Region
  <2>2. p \in P /\ low2[p] <= low[p] /\ low[p] \in Nat /\ low2[p] \in Nat /\ index[w] \in Nat
    <3>1. CASE p = q
      BY <1>1, <1>2, <1>4, <3>1
    <3>2. CASE p # q
      <4>1. low2[p] = low[p] /\ low[p] \in Nat
        BY <1>1, <3>2
      <4> QED BY <1>1, <4>1
    <3> QED BY <3>1, <3>2
  <2>3. CASE index[x] < index[v]
    <3>1. x \in Region(p, P, S, index)
      BY <2>1, <2>3 DEF Region
    <3>2. (x = p /\ w \in ToSet(todo[p])) \/ low[p] <= index[w]
      BY <2>2, <3>1 DEF LowOk, Lowest
    <3>3. low[p] <= index[w] => low2[p] <= index[w]
      <4> DEFINE a == low2[p]  b == low[p]  c == index[w]
      <4> HIDE DEF a, b, c
      <4>1. a \in Nat /\ b \in Nat /\ c \in Nat /\ a <= b => (b <= c => a <= c)
        OBVIOUS
      <4> QED BY <2>2, <4>1 DEF a, b, c
    <3> QED BY <3>2, <3>3
  <2>4. CASE ~(index[x] < index[v])
    <3>1. index[v] <= index[x] /\ index[x] \in Nat /\ index[v] \in Nat
      BY <1>1, <1>2, <2>1, <2>4
    <3>2. p = q
      <4>1. ASSUME p # q PROVE FALSE
        <5>1. index[p] < index[q] /\ index[x] < index[q] /\ index[q] < index[v] /\ index[q] \in Nat
          BY <1>1, <1>2, <1>3, <2>1, <4>1
        <5> DEFINE a == index[x]  b == index[q]  c == index[v]
        <5>2. a \in Nat /\ b \in Nat /\ c \in Nat /\ a < b /\ b < c /\ c <= a
          BY <3>1, <5>1
        <5> HIDE DEF a, b, c
        <5> QED BY <5>2
      <4> QED BY <4>1
    <3>3. x \in Region(v, P, S, index)
      <4>1. ASSUME NEW y \in P, index[v] < index[y] PROVE index[x] < index[y]
        <5>1. y = v \/ index[y] < index[v]
          BY <1>2
        <5>2. index[y] \in Nat /\ index[v] \in Nat
          BY <1>1, <1>2
        <5> QED BY <4>1, <5>1, <5>2
      <4> QED BY <2>1, <3>1, <4>1 DEF Region
    <3>4. low[v] <= index[w]
      BY <1>2, <3>3 DEF LowOk, Lowest
    <3>5. low2[p] <= index[w]
      <4> DEFINE a == low2[q]  b == low[v]  c == index[w]
      <4>1. a \in Nat /\ b \in Nat /\ c \in Nat /\ a <= b /\ b <= c
        BY <1>1, <1>2, <1>4, <2>2, <3>4
      <4> HIDE DEF a, b, c
      <4>2. a <= c
        BY <4>1
      <4> QED BY <3>2, <4>2 DEF a, c
    <3> QED BY <3>5
  <2> QED BY <2>3, <2>4
<1> QED BY <1>5, <1>6, <1>8, <1>9, <1>10 DEF LowOk, Leads, LowLinks, Lowest

(* The root of a component is left: what is from it upwards on the stack    *)
(* is all that reaches it and that it reaches.                             *)
Class(v) == {w \in Around(v) : v \in Around(w)}

Segment(S, index, v) == {x \in S : index[v] <= index[x]}
Under(S, index, v) == {x \in S : index[x] < index[v]}

LEMMA LowPop ==
  ASSUME DependencyInit,
         NEW P, NEW S, NEW todo, NEW index, NEW low, NEW v,
         LowOk(P, S, todo, index, low, v, {}), Top(P, index, v), low[v] = index[v], NEW q
  PROVE  LowOk(P \ {v}, Under(S, index, v), todo, index, low, q, {})
<1> DEFINE Q == P \ {v}  U == Under(S, index, v)
<1>1. /\ P \subseteq S /\ S \subseteq Known /\ \A x \in S : index[x] \in Nat \ {0}
      /\ \A p \in P : low[p] \in Nat /\ low[p] <= index[p]
  BY DEF LowOk, Numbered, LowLinks
<1>2. v \in P /\ \A p \in Q : index[p] < index[v]
  BY DEF Top
<1>3. U \subseteq S /\ Q \subseteq U
  BY <1>1, <1>2 DEF Under
<1>4. Numbered(Q, U, index) /\ \A p \in Q : low[p] \in Nat
  BY <1>1, <1>3 DEF Numbered
<1>5. Below(Q, U, index)
  BY <1>3 DEF LowOk, Below
<1>6. ASSUME NEW x \in U PROVE \E p \in Q : index[p] <= index[x] /\ p \in Around(x)
  <2>1. PICK p \in P : index[p] <= index[x] /\ p \in Around(x)
    BY <1>3 DEF LowOk, Leads
  <2>2. p # v
    <3>1. index[x] < index[v] /\ index[x] \in Nat /\ index[v] \in Nat
      BY <1>1, <1>2, <1>3 DEF Under
    <3> QED BY <2>1, <3>1
  <2> QED BY <2>1, <2>2
<1>7. ASSUME NEW p \in Q PROVE low[p] <= index[p] /\ \E x \in U : low[p] = index[x] /\ x \in Around(p)
  <2>1. PICK x \in S : low[p] = index[x] /\ x \in Around(p)
    BY DEF LowOk, LowLinks
  <2>2. index[x] < index[v]
    <3> DEFINE a == index[x]  b == index[p]  c == index[v]
    <3>1. a \in Nat /\ b \in Nat /\ c \in Nat /\ a <= b /\ b < c
      BY <1>1, <1>2, <2>1
    <3> HIDE DEF a, b, c
    <3>2. a < c
      BY <3>1
    <3> QED BY <3>2 DEF a, c
  <2> QED BY <1>1, <2>1, <2>2 DEF Under
<1>8. ASSUME NEW p \in Q, NEW x \in Region(p, Q, U, index), NEW w \in Needs(x) \cap U
      PROVE  (x = p /\ w \in ToSet(todo[p])) \/ low[p] <= index[w]
  <2>1. x \in S /\ index[x] < index[v] /\ x \in U
    BY <1>3 DEF Region, Under
  <2>2. x \in Region(p, P, S, index)
    BY <2>1 DEF Region
  <2>3. w \in Needs(x) \cap S
    BY <1>3
  <2> QED BY <2>2, <2>3 DEF LowOk, Lowest
<1> QED BY <1>4, <1>5, <1>6, <1>7, <1>8 DEF LowOk, Leads, LowLinks, Lowest

(* D is closed, and all that is above it stays above it but for D.         *)
Surrounds(D, P, S, v) ==
  /\ D \subseteq Known /\ D \cap S = {} /\ \A x \in D : Needs(x) \subseteq D
  /\ Needs(v) \subseteq S \cup D /\ \A x \in S \ P : Needs(x) \subseteq S \cup D

IsClass(G, D) == \A x \in G : Class(x) = G /\ Needs(x) \subseteq G \cup D

LEMMA LowClass ==
  ASSUME DependencyInit,
         NEW P, NEW S, NEW todo, NEW index, NEW low, NEW v,
         LowOk(P, S, todo, index, low, v, {}), Top(P, index, v), low[v] = index[v],
         ToSet(todo[v]) = {},
         NEW D, Surrounds(D, P, S, v)
  PROVE  v \in Segment(S, index, v) /\ IsClass(Segment(S, index, v), D)
<1> DEFINE G == Segment(S, index, v)
<1>0. /\ D \subseteq Known /\ D \cap S = {} /\ \A x \in D : Needs(x) \subseteq D
      /\ Needs(v) \subseteq S \cup D /\ \A x \in S \ P : Needs(x) \subseteq S \cup D
  BY DEF Surrounds
<1>1. P \subseteq S /\ S \subseteq Known /\ \A x \in S : index[x] \in Nat \ {0}
  BY DEF LowOk, Numbered
<1>2. v \in P /\ \A p \in P \ {v} : index[p] < index[v]
  BY DEF Top
<1>3. v \in G /\ G \subseteq S /\ v \in Known /\ G \subseteq Known
  BY <1>1, <1>2 DEF Segment
<1>4. \A x \in G : x \in Around(v)
  BY <1>2 DEF LowOk, Below, Segment
<1>5. ASSUME NEW p \in P PROVE v \in Around(p)
  <2>1. index[p] <= index[v]
    BY <1>1, <1>2
  <2> QED BY <1>1, <1>2, <2>1 DEF LowOk, Below
<1>6. ASSUME NEW x \in G PROVE v \in Around(x)
  <2>1. PICK p \in P : p \in Around(x)
    BY <1>3 DEF LowOk, Leads
  <2> QED BY <1>3, <1>5, <2>1, AroundOnwards
<1>7. ASSUME NEW x \in G, NEW y \in G PROVE y \in Around(x)
  BY <1>3, <1>4, <1>6, AroundOnwards
<1>8. ASSUME NEW x \in G PROVE Needs(x) \subseteq G \cup D
  <2>1. Needs(x) \subseteq S \cup D
    <3>1. CASE x \in P
      <4>1. x = v
        BY <1>1, <1>2, <3>1 DEF Segment
      <4> QED BY <1>0, <4>1
    <3>2. CASE x \notin P
      BY <1>0, <1>3, <3>2
    <3> QED BY <3>1, <3>2
  <2>2. x \in Region(v, P, S, index)
    <3>1. ASSUME NEW y \in P, index[v] < index[y] PROVE index[x] < index[y]
      <4>1. y = v \/ index[y] < index[v]
        BY <1>2
      <4>2. index[y] \in Nat /\ index[v] \in Nat
        BY <1>1, <1>2
      <4> QED BY <3>1, <4>1, <4>2
    <3> QED BY <3>1 DEF Region, Segment
  <2>3. ASSUME NEW w \in Needs(x), w \in S PROVE w \in G
    <3>1. low[v] <= index[w]
      BY <1>2, <2>2, <2>3 DEF LowOk, Lowest
    <3> QED BY <2>3, <3>1 DEF Segment
  <2> QED BY <2>1, <2>3
<1>9. ASSUME NEW x \in G PROVE Around(x) \subseteq G \cup D
  <2>1. G \cup D \in SUBSET Known /\ x \in G \cup D
    BY <1>0, <1>3
  <2>2. \A y \in G \cup D : Needs(y) \subseteq G \cup D
    BY <1>0, <1>8
  <2> HIDE DEF G
  <2> QED BY <1>3, <2>1, <2>2, AroundIs
<1>10. ASSUME NEW y \in D PROVE Around(y) \subseteq D
  BY <1>0, AroundIs
<1>11. ASSUME NEW x \in G PROVE Class(x) = G
  <2>1. \A y \in G : y \in Class(x)
    BY <1>7 DEF Class
  <2>2. ASSUME NEW y \in Class(x) PROVE y \in G
    <3>1. y \in Around(x) /\ x \in Around(y)
      BY DEF Class
    <3>2. y \notin D
      BY <1>0, <1>3, <1>10, <3>1
    <3> QED BY <1>9, <3>1, <3>2
  <2> QED BY <2>1, <2>2
<1> QED BY <1>3, <1>8, <1>11 DEF IsClass

Rising(s, index) == \A i, j \in DOMAIN s : i < j => index[s[i]] < index[s[j]]

LEMMA RisingGrows ==
  ASSUME NEW s \in Seq(Known), NEW index, Rising(s, index), NEW u \in Known,
         NEW n, AllUnder(index, ToSet(s), n), NEW index2, Adds(index, index2, ToSet(s), u, n)
  PROVE  Rising(Append(s, u), index2)
<1> DEFINE m == Len(s)  t == Append(s, u)
<1>0. index2[u] = n /\ \A x \in ToSet(s) : index2[x] = index[x] /\ index[x] < n
  BY DEF AllUnder, Adds
<1>1. /\ t \in Seq(Known) /\ Len(t) = m + 1 /\ t[m + 1] = u
      /\ \A i \in 1 .. m : t[i] = s[i]
  BY AppendAdds
<1>2. m \in Nat /\ DOMAIN s = 1 .. m /\ \A i \in 1 .. m : s[i] \in ToSet(s)
  BY InsideIs
<1> HIDE DEF t, m
<1>3. DOMAIN t = 1 .. m + 1
  BY <1>1, InsideIs
<1>4. ASSUME NEW i \in 1 .. m + 1, NEW j \in 1 .. m + 1, i < j PROVE index2[t[i]] < index2[t[j]]
  <2>1. i \in 1 .. m /\ t[i] = s[i] /\ index2[s[i]] = index[s[i]] /\ index[s[i]] < n
    <3>1. i \in 1 .. m
      BY <1>2, <1>4
    <3> QED BY <1>0, <1>1, <1>2, <3>1
  <2>2. CASE j = m + 1
    BY <1>0, <1>1, <2>1, <2>2
  <2>3. CASE j # m + 1
    <3>1. j \in 1 .. m
      BY <1>2, <2>3
    <3>2. t[j] = s[j] /\ index2[s[j]] = index[s[j]]
      BY <1>0, <1>1, <1>2, <3>1
    <3>3. index[s[i]] < index[s[j]]
      BY <1>2, <1>4, <2>1, <3>1 DEF Rising
    <3> QED BY <2>1, <3>2, <3>3
  <2> QED BY <2>2, <2>3
<1> QED BY <1>3, <1>4 DEF Rising, t

LEMMA TopIs ==
  ASSUME NEW path \in Seq(Known), NEW index, Rising(path, index), path # << >>
  PROVE  Top(ToSet(path), index, Last(path)) /\ Rising(Front(path), index)
<1> DEFINE n == Len(path)  less == Front(path)
<1>1. /\ n \in Nat \ {0} /\ Last(path) = path[n] /\ less \in Seq(Known) /\ Len(less) = n - 1
      /\ \A i \in 1 .. n - 1 : less[i] = path[i]
  BY FrontAndLast
<1>2. DOMAIN path = 1 .. n /\ (\A i \in 1 .. n : path[i] \in ToSet(path))
      /\ \A x \in ToSet(path) : \E i \in 1 .. n : x = path[i]
  BY InsideIs
<1> HIDE DEF n, less
<1>3. DOMAIN less = 1 .. n - 1
  BY <1>1, InsideIs
<1>4. Top(ToSet(path), index, path[n])
  <2>1. path[n] \in ToSet(path)
    BY <1>1, <1>2
  <2>2. ASSUME NEW q \in ToSet(path) \ {path[n]} PROVE index[q] < index[path[n]]
    <3>1. PICK i \in 1 .. n : q = path[i]
      BY <1>2
    <3>2. i < n
      BY <1>1, <3>1
    <3> QED BY <1>1, <1>2, <3>1, <3>2 DEF Rising
  <2> QED BY <2>1, <2>2 DEF Top
<1>5. Rising(less, index)
  <2>1. ASSUME NEW i \in 1 .. n - 1, NEW j \in 1 .. n - 1, i < j PROVE index[less[i]] < index[less[j]]
    <3>1. i \in 1 .. n /\ j \in 1 .. n
      BY <1>1
    <3> QED BY <1>1, <1>2, <2>1, <3>1 DEF Rising
  <2> QED BY <1>3, <2>1 DEF Rising
<1> QED BY <1>1, <1>4, <1>5 DEF less

LEMMA StackSplits ==
  ASSUME NEW stack \in Seq(Known), NEW index, index \in [Known -> Nat], Rising(stack, index),
         NEW i \in DOMAIN stack, NEW v, v = stack[i]
  PROVE  /\ ToSet(SubSeq(stack, i, Len(stack))) = Segment(ToSet(stack), index, v)
         /\ ToSet(SubSeq(stack, 1, i - 1)) = Under(ToSet(stack), index, v)
         /\ SubSeq(stack, 1, i - 1) \in Seq(Known) /\ Rising(SubSeq(stack, 1, i - 1), index)
<1> DEFINE n == Len(stack)  s == SubSeq(stack, i, n)  t == SubSeq(stack, 1, i - 1)
           G == Segment(ToSet(stack), index, v)  U == Under(ToSet(stack), index, v)
<1>1. /\ n \in Nat /\ i \in 1 .. n /\ DOMAIN stack = 1 .. n
      /\ (\A k \in 1 .. n : stack[k] \in ToSet(stack) /\ stack[k] \in Known)
      /\ \A x \in ToSet(stack) : \E k \in 1 .. n : x = stack[k]
  BY InsideIs
<1>2. s \in Seq(Known) /\ Len(s) = n - i + 1 /\ \A k \in 1 .. n - i + 1 : s[k] = stack[i + k - 1]
  BY <1>1
<1>3. t \in Seq(Known) /\ Len(t) = i - 1 /\ \A k \in 1 .. i - 1 : t[k] = stack[k]
  BY <1>1
<1>4. \A k \in 1 .. n : index[stack[k]] \in Nat
  BY <1>1
<1>5. \A k, j \in 1 .. n : k < j => index[stack[k]] < index[stack[j]]
  BY <1>1 DEF Rising
<1>6. \A k \in 1 .. n : index[v] <= index[stack[k]] <=> i <= k
  <2> SUFFICES ASSUME NEW k \in 1 .. n PROVE index[v] <= index[stack[k]] <=> i <= k
    OBVIOUS
  <2>1. CASE k < i
    <3>1. index[stack[k]] < index[v]
      BY <1>1, <1>5, <2>1
    <3> QED BY <1>1, <1>4, <2>1, <3>1
  <2>2. CASE k = i
    BY <1>1, <1>4, <2>2
  <2>3. CASE i < k
    <3>1. index[v] < index[stack[k]]
      BY <1>1, <1>5, <2>3
    <3> QED BY <1>1, <1>4, <2>3, <3>1
  <2> QED BY <1>1, <2>1, <2>2, <2>3
<1>7. \A k \in 1 .. n : stack[k] \in G <=> i <= k
  BY <1>1, <1>6 DEF Segment
<1>8. \A k \in 1 .. n : stack[k] \in U <=> k < i
  BY <1>1, <1>4, <1>6 DEF Under
<1>9. G \subseteq ToSet(stack) /\ U \subseteq ToSet(stack)
  BY DEF Segment, Under
<1> HIDE DEF s, t, n, G, U
<1>10. /\ \A k \in 1 .. n - i + 1 : s[k] \in ToSet(s)
       /\ \A x \in ToSet(s) : \E k \in 1 .. n - i + 1 : x = s[k]
  BY <1>2, InsideIs
<1>11. /\ DOMAIN t = 1 .. i - 1 /\ \A k \in 1 .. i - 1 : t[k] \in ToSet(t)
       /\ \A x \in ToSet(t) : \E k \in 1 .. i - 1 : x = t[k]
  BY <1>3, InsideIs
<1>12. ToSet(s) = G
  <2>1. ASSUME NEW x \in ToSet(s) PROVE x \in G
    <3>1. PICK k \in 1 .. n - i + 1 : x = s[k]
      BY <1>10
    <3>2. i + k - 1 \in 1 .. n /\ i <= i + k - 1
      BY <1>1
    <3> QED BY <1>2, <1>7, <3>1, <3>2
  <2>2. ASSUME NEW x \in G PROVE x \in ToSet(s)
    <3>1. PICK k \in 1 .. n : x = stack[k]
      BY <1>1, <1>9
    <3>2. i <= k
      BY <1>7, <3>1
    <3> DEFINE j == k - i + 1
    <3>3. j \in 1 .. n - i + 1 /\ i + j - 1 = k
      BY <1>1, <3>2
    <3>4. s[j] = stack[k]
      BY <1>2, <3>3
    <3> HIDE DEF j
    <3> QED BY <1>10, <3>1, <3>3, <3>4
  <2> QED BY <2>1, <2>2
<1>13. ToSet(t) = U
  <2>1. ASSUME NEW x \in ToSet(t) PROVE x \in U
    <3>1. PICK k \in 1 .. i - 1 : x = t[k]
      BY <1>11
    <3>2. k \in 1 .. n /\ k < i
      BY <1>1
    <3> QED BY <1>3, <1>8, <3>1, <3>2
  <2>2. ASSUME NEW x \in U PROVE x \in ToSet(t)
    <3>1. PICK k \in 1 .. n : x = stack[k]
      BY <1>1, <1>9
    <3>2. k < i
      BY <1>8, <3>1
    <3>3. k \in 1 .. i - 1
      BY <1>1, <3>2
    <3> QED BY <1>3, <1>11, <3>1, <3>3
  <2> QED BY <2>1, <2>2
<1>14. Rising(t, index)
  <2>1. ASSUME NEW k \in 1 .. i - 1, NEW j \in 1 .. i - 1, k < j PROVE index[t[k]] < index[t[j]]
    <3>1. k \in 1 .. n /\ j \in 1 .. n
      BY <1>1
    <3> QED BY <1>3, <1>5, <2>1, <3>1
  <2> QED BY <1>11, <2>1 DEF Rising
<1> QED BY <1>3, <1>12, <1>13, <1>14 DEF s, t, n, G, U

Visited(index) == {v \in Known : index[v] > 0}

(* What is found: of nodes that are visited and no longer on the stack.    *)
Found(sccs, D) ==
  /\ UNION sccs = D /\ D \subseteq Known /\ \A x \in D : Needs(x) \subseteq D
  /\ \A C \in sccs : C # {} /\ \A x \in C : Class(x) = C

TarjanShape(roots, path, todo, next, index, low, stack, going) ==
  /\ roots \in Seq(Known) /\ TodoOk(todo) /\ stack \in Seq(Known) /\ path \in Seq(Known)
  /\ PathOk(path, ToSet(stack)) /\ MayFollow(path, going)
  /\ next \in Nat \ {0} /\ index \in [Known -> Nat] /\ low \in [Known -> Nat]
  /\ (\A v \in Known : index[v] < next) /\ Rising(stack, index) /\ Rising(path, index)

TarjanVisits(roots, path, todo, index, going) ==
  /\ \A v \in Known : v \in ToSet(roots) \/ index[v] > 0 \/ v \in going
  /\ \A v \in Known : index[v] = 0 => ToSet(todo[v]) = Needs(v)
  /\ \A v \in Visited(index) \ ToSet(path) : Needs(v) \subseteq Visited(index)
  /\ \A v \in ToSet(path) : Needs(v) \subseteq Visited(index) \cup ToSet(todo[v]) \cup going

TarjanOk(roots, path, todo, next, index, low, stack, sccs, going) ==
  /\ TarjanShape(roots, path, todo, next, index, low, stack, going)
  /\ TarjanVisits(roots, path, todo, index, going)
  /\ Found(sccs, Visited(index) \ ToSet(stack))
  /\ LowOk(ToSet(path), ToSet(stack), todo, index, low, Last(path), going)

LEMMA StackIs ==
  ASSUME NEW roots, NEW path, NEW todo, NEW next, NEW index, NEW low, NEW stack, NEW sccs, NEW going,
         TarjanOk(roots, path, todo, next, index, low, stack, sccs, going)
  PROVE  /\ ToSet(path) \subseteq ToSet(stack) /\ ToSet(stack) \subseteq Visited(index)
         /\ Visited(index) \subseteq Known
         /\ path = << >> => ToSet(stack) = {}
         /\ path # << >> => Last(path) \in ToSet(path) /\ Top(ToSet(path), index, Last(path))
<1>1. /\ ToSet(path) \subseteq ToSet(stack) /\ ToSet(stack) \subseteq Known
      /\ \A x \in ToSet(stack) : index[x] \in Nat \ {0}
  BY DEF TarjanOk, LowOk, Numbered
<1>2. ToSet(stack) \subseteq Visited(index)
  BY <1>1 DEF Visited
<1>3. path = << >> => ToSet(stack) = {}
  <2>1. \A x \in ToSet(stack) : \E p \in ToSet(path) : TRUE
    BY DEF TarjanOk, LowOk, Leads
  <2>2. path = << >> => ToSet(path) = {}
    BY NothingInside
  <2> QED BY <2>1, <2>2
<1>4. path # << >> => Last(path) \in ToSet(path) /\ Top(ToSet(path), index, Last(path))
  <2>1. path \in Seq(Known) /\ Rising(path, index)
    BY DEF TarjanOk, TarjanShape
  <2>2. ASSUME path # << >> PROVE Last(path) \in ToSet(path) /\ Top(ToSet(path), index, Last(path))
    BY <2>1, <2>2, TopIs DEF Top
  <2> QED BY <2>2
<1> QED BY <1>1, <1>2, <1>3, <1>4 DEF Visited

LEMMA TarjanRoot ==
  ASSUME NEW roots, NEW path, NEW todo, NEW next, NEW index, NEW low, NEW stack, NEW sccs,
         TarjanOk(roots, path, todo, next, index, low, stack, sccs, {}),
         path = << >>, NEW u, NEW rest, Taken(roots, u, rest)
  PROVE  TarjanOk(rest, path, todo, next, index, low, stack, sccs, {u}) /\ u \in Known
<1>1. roots \in Seq(Known) /\ roots # << >> /\ u = Head(roots) /\ rest = Tail(roots)
  BY DEF TarjanOk, TarjanShape, Taken
<1>2. u \in Known /\ rest \in Seq(Known) /\ ToSet(roots) = {u} \cup ToSet(rest)
  BY <1>1, HeadAndTail
<1>3. MayFollow(path, {u})
  BY <1>2 DEF MayFollow
<1>4. ToSet(path) = {}
  BY NothingInside
<1>5. TarjanShape(rest, path, todo, next, index, low, stack, {u})
  BY <1>2, <1>3 DEF TarjanOk, TarjanShape
<1>6. TarjanVisits(rest, path, todo, index, {u})
  BY <1>2, <1>4 DEF TarjanOk, TarjanVisits
<1>7. LowOk(ToSet(path), ToSet(stack), todo, index, low, Last(path), {u})
  BY <1>4 DEF TarjanOk, LowOk, Lowest
<1> QED BY <1>2, <1>5, <1>6, <1>7 DEF TarjanOk

LEMMA TarjanGoesOn ==
  ASSUME DependencyInit,
         NEW roots, NEW path, NEW todo, NEW next, NEW index, NEW low, NEW stack, NEW sccs,
         TarjanOk(roots, path, todo, next, index, low, stack, sccs, {}),
         path # << >>, NEW w, NEW later, TodoTaken(todo, Last(path), w, later)
  PROVE  TarjanOk(roots, path, later, next, index, low, stack, sccs, {w}) /\ w \in Known
<1> DEFINE v == Last(path)
<1>1. v \in ToSet(path) /\ v \in ToSet(stack) /\ v \in Visited(index) /\ v \in Known
  BY StackIs
<1>2. TodoOk(todo)
  BY DEF TarjanOk, TarjanShape
<1>3. TodoLeft(todo, v, w, later)
  BY <1>1, <1>2, TodoGoesOn
<1>4. LowOk(ToSet(path), ToSet(stack), todo, index, low, v, {})
  BY DEF TarjanOk
<1> HIDE DEF v
<1>5. LowOk(ToSet(path), ToSet(stack), later, index, low, v, {w})
  BY <1>3, <1>4, LowGoesOn
<1>6. MayFollow(path, {w})
  BY <1>3 DEF MayFollow, TodoLeft, v
<1>7. TarjanShape(roots, path, later, next, index, low, stack, {w})
  BY <1>3, <1>6 DEF TarjanOk, TarjanShape, TodoLeft
<1>8. ASSUME NEW x \in Known, index[x] = 0 PROVE ToSet(later[x]) = Needs(x)
  <2>1. x # v
    BY <1>1, <1>8 DEF Visited
  <2>2. later[x] = todo[x]
    BY <1>3, <2>1 DEF TodoLeft
  <2>3. ToSet(todo[x]) = Needs(x)
    BY <1>8 DEF TarjanOk, TarjanVisits
  <2> QED BY <2>2, <2>3
<1>9. ASSUME NEW x \in ToSet(path) PROVE Needs(x) \subseteq Visited(index) \cup ToSet(later[x]) \cup {w}
  <2>1. Needs(x) \subseteq Visited(index) \cup ToSet(todo[x])
    BY DEF TarjanOk, TarjanVisits
  <2>2. CASE x = v
    BY <1>3, <2>1, <2>2 DEF TodoLeft
  <2>3. CASE x # v
    <3>1. x \in Known
      BY StackIs
    <3>2. later[x] = todo[x]
      BY <1>3, <2>3, <3>1 DEF TodoLeft
    <3> QED BY <2>1, <3>2
  <2> QED BY <2>2, <2>3
<1>10. TarjanVisits(roots, path, later, index, {w})
  BY <1>8, <1>9 DEF TarjanOk, TarjanVisits
<1>11. w \in Known
  BY <1>3 DEF TodoLeft
<1> QED BY <1>5, <1>7, <1>10, <1>11 DEF TarjanOk, v

LEMMA TarjanEnters ==
  ASSUME DependencyInit,
         NEW roots, NEW path, NEW todo, NEW next, NEW index, NEW low, NEW stack, NEW sccs, NEW u \in Known,
         TarjanOk(roots, path, todo, next, index, low, stack, sccs, {u}), index[u] = 0
  PROVE  TarjanOk(roots, Append(path, u), todo, next + 1, [index EXCEPT ![u] = next],
                  [low EXCEPT ![u] = next], Append(stack, u), sccs, {})
<1> DEFINE index2 == [index EXCEPT ![u] = next]  low2 == [low EXCEPT ![u] = next]
           P == ToSet(path)  S == ToSet(stack)  path2 == Append(path, u)  stack2 == Append(stack, u)
           v == Last(path)  V == Visited(index)
<1>1. /\ roots \in Seq(Known) /\ TodoOk(todo) /\ stack \in Seq(Known) /\ path \in Seq(Known)
      /\ PathOk(path, S) /\ MayFollow(path, {u})
      /\ next \in Nat \ {0} /\ index \in [Known -> Nat] /\ low \in [Known -> Nat]
      /\ (\A x \in Known : index[x] < next) /\ Rising(stack, index) /\ Rising(path, index)
  BY DEF TarjanOk, TarjanShape
<1>2. /\ P \subseteq S /\ S \subseteq V /\ V \subseteq Known /\ u \notin V
      /\ path = << >> => S = {}
      /\ path # << >> => v \in P /\ Top(P, index, v)
  BY StackIs DEF Visited
<1>3. /\ index2 \in [Known -> Nat] /\ low2 \in [Known -> Nat] /\ index2[u] = next /\ low2[u] = next
      /\ \A x \in Known \ {u} : index2[x] = index[x] /\ low2[x] = low[x]
  BY <1>1
<1>4. path2 \in Seq(Known) /\ ToSet(path2) = P \cup {u}
  BY <1>1, AppendAdds
<1>5. stack2 \in Seq(Known) /\ ToSet(stack2) = S \cup {u}
  BY <1>1, AppendAdds
<1>6. Last(path2) = u
  <2>1. Len(path2) = Len(path) + 1 /\ path2[Len(path) + 1] = u
    BY <1>1, AppendAdds
  <2>0. path2 # << >>
    <3>1. path \in Seq(Known)
      BY <1>1
    <3>2. Len(path2) = Len(path) + 1 /\ Len(path) \in Nat
      BY <3>1
    <3> HIDE DEF path2
    <3>3. Len(path2) # 0
      BY <3>2
    <3> QED BY <3>3
  <2> HIDE DEF path2
  <2>2. Last(path2) = path2[Len(path2)]
    BY <1>4, <2>0, FrontAndLast
  <2> QED BY <2>1, <2>2
<1>7. PathOk(path2, ToSet(stack2))
  <2>1. PathOk(path2, S \cup {u})
    BY <1>1, <1>2, PathGrows
  <2> QED BY <1>5, <2>1
<1>8. Rising(stack2, index2)
  <2>1. AllUnder(index, ToSet(stack), next) /\ Adds(index, index2, ToSet(stack), u, next)
    BY <1>1, <1>2, <1>3 DEF AllUnder, Adds
  <2> HIDE DEF index2
  <2> QED BY <1>1, <2>1, RisingGrows
<1>9. Rising(path2, index2)
  <2>1. AllUnder(index, ToSet(path), next) /\ Adds(index, index2, ToSet(path), u, next)
    BY <1>1, <1>2, <1>3 DEF AllUnder, Adds
  <2> HIDE DEF index2
  <2> QED BY <1>1, <2>1, RisingGrows
<1>10. next + 1 \in Nat \ {0} /\ \A x \in Known : index2[x] < next + 1
  BY <1>1, <1>3
<1>11. MayFollow(path2, {})
  BY DEF MayFollow
<1>12. TarjanShape(roots, path2, todo, next + 1, index2, low2, stack2, {})
  <2> HIDE DEF index2, low2, path2, stack2, P, S, V, v
  <2> QED BY <1>1, <1>3, <1>4, <1>5, <1>7, <1>8, <1>9, <1>10, <1>11 DEF TarjanShape
<1>13. Visited(index2) = V \cup {u}
  BY <1>1, <1>3 DEF Visited
<1>14. ToSet(todo[u]) = Needs(u)
  BY DEF TarjanOk, TarjanVisits
<1>15. TarjanVisits(roots, path2, todo, index2, {})
  <2> HIDE DEF index2, low2, path2, stack2
  <2>1. ASSUME NEW x \in Known PROVE x \in ToSet(roots) \/ index2[x] > 0 \/ x \in {}
    <3>1. x \in ToSet(roots) \/ index[x] > 0 \/ x = u
      BY DEF TarjanOk, TarjanVisits
    <3> QED BY <1>1, <1>3, <3>1
  <2>2. ASSUME NEW x \in Known, index2[x] = 0 PROVE ToSet(todo[x]) = Needs(x)
    <3>1. index[x] = 0
      BY <1>1, <1>3, <2>2
    <3> QED BY <3>1 DEF TarjanOk, TarjanVisits
  <2>3. ASSUME NEW x \in Visited(index2) \ ToSet(path2) PROVE Needs(x) \subseteq Visited(index2)
    <3>1. x \in V \ P
      BY <1>4, <1>13
    <3>2. Needs(x) \subseteq V
      BY <3>1 DEF TarjanOk, TarjanVisits
    <3> QED BY <1>13, <3>2
  <2>4. ASSUME NEW x \in ToSet(path2) PROVE Needs(x) \subseteq Visited(index2) \cup ToSet(todo[x]) \cup {}
    <3>1. CASE x = u
      BY <1>14, <3>1
    <3>2. CASE x # u
      <4>1. x \in P
        BY <1>4, <3>2
      <4>2. Needs(x) \subseteq V \cup ToSet(todo[x]) \cup {u}
        BY <4>1 DEF TarjanOk, TarjanVisits
      <4> QED BY <1>13, <4>2
    <3> QED BY <3>1, <3>2
  <2> QED BY <2>1, <2>2, <2>3, <2>4 DEF TarjanVisits
<1>16. Found(sccs, Visited(index2) \ ToSet(stack2))
  <2>1. Visited(index2) \ ToSet(stack2) = V \ S
    BY <1>2, <1>5, <1>13
  <2> QED BY <2>1 DEF TarjanOk
<1>17. LowOk(P \cup {u}, S \cup {u}, todo, index2, low2, u, {})
  <2>1. LowOk(P, S, todo, index, low, v, {u})
    BY DEF TarjanOk
  <2>2. P = {} \/ (Top(P, index, v) /\ u \in Needs(v))
    <3>1. CASE path = << >>
      BY <1>2, <3>1
    <3>2. CASE path # << >>
      BY <1>1, <1>2, <3>2 DEF MayFollow
    <3> QED BY <3>1, <3>2
  <2>3. u \notin S /\ AllUnder(index, S, next) /\ Adds(index, index2, S, u, next)
    BY <1>1, <1>2, <1>3 DEF AllUnder, Adds
  <2>4. Adds(low, low2, P, u, next)
    BY <1>2, <1>3 DEF Adds
  <2> HIDE DEF index2, low2, P, S, v
  <2> QED BY <1>14, <2>1, <2>2, <2>3, <2>4, LowEnter
<1>18. LowOk(ToSet(path2), ToSet(stack2), todo, index2, low2, Last(path2), {})
  BY <1>4, <1>5, <1>6, <1>17
<1>19. TarjanOk(roots, path2, todo, next + 1, index2, low2, stack2, sccs, {})
  <2> HIDE DEF index2, low2, path2, stack2
  <2> QED BY <1>12, <1>15, <1>16, <1>18 DEF TarjanOk
<1> QED BY <1>19

LEMMA TarjanSees ==
  ASSUME DependencyInit,
         NEW roots, NEW path, NEW todo, NEW next, NEW index, NEW low, NEW stack, NEW sccs, NEW w,
         TarjanOk(roots, path, todo, next, index, low, stack, sccs, {w}), path # << >>,
         w \in ToSet(stack)
  PROVE  TarjanOk(roots, path, todo, next, index,
                  [low EXCEPT ![Last(path)] = Least(@, index[w])], stack, sccs, {})
<1> DEFINE v == Last(path)  low2 == [low EXCEPT ![v] = Least(@, index[w])]
           P == ToSet(path)  S == ToSet(stack)  V == Visited(index)
<1>1. /\ P \subseteq S /\ S \subseteq V /\ V \subseteq Known /\ v \in P /\ v \in Known /\ w \in V
      /\ w \in Known
  BY StackIs
<1>2. w \in Needs(v)
  BY DEF TarjanOk, TarjanShape, MayFollow
<1>3. /\ TarjanShape(roots, path, todo, next, index, low, stack, {w})
      /\ index \in [Known -> Nat] /\ low \in [Known -> Nat]
  BY DEF TarjanOk, TarjanShape
<1>4. Least(low[v], index[w]) \in Nat
  BY <1>1, <1>3 DEF Least
<1>5. /\ low2 \in [Known -> Nat] /\ low2[v] = Least(low[v], index[w])
      /\ \A x \in Known \ {v} : low2[x] = low[x]
  BY <1>1, <1>3, <1>4
<1> HIDE DEF low2
<1>6. TarjanShape(roots, path, todo, next, index, low2, stack, {})
  <2>1. MayFollow(path, {})
    BY DEF MayFollow
  <2> QED BY <1>3, <1>5, <2>1 DEF TarjanShape
<1>7. TarjanVisits(roots, path, todo, index, {})
  <2>1. index[w] > 0
    BY <1>1 DEF Visited
  <2>2. \A x \in Known : x \in ToSet(roots) \/ index[x] > 0
    BY <2>1 DEF TarjanOk, TarjanVisits
  <2>3. \A x \in ToSet(path) : Needs(x) \subseteq Visited(index) \cup ToSet(todo[x])
    BY <1>1 DEF TarjanOk, TarjanVisits
  <2> QED BY <2>2, <2>3 DEF TarjanOk, TarjanVisits
<1>8. LowOk(P, S, todo, index, low2, v, {})
  <2>1. LowOk(P, S, todo, index, low, v, {w})
    BY DEF TarjanOk
  <2>2. \A p \in P \ {v} : low2[p] = low[p]
    BY <1>1, <1>5
  <2> HIDE DEF P, S, v
  <2>3. w \in S
    BY DEF S
  <2> QED BY <1>1, <1>2, <1>5, <2>1, <2>2, <2>3, LowSees
<1>9. TarjanOk(roots, path, todo, next, index, low2, stack, sccs, {})
  BY <1>6, <1>7, <1>8 DEF TarjanOk
<1> QED BY <1>9 DEF low2

LEMMA TarjanSkips ==
  ASSUME NEW roots, NEW path, NEW todo, NEW next, NEW index, NEW low, NEW stack, NEW sccs, NEW w \in Known,
         TarjanOk(roots, path, todo, next, index, low, stack, sccs, {w}),
         index[w] > 0, w \notin ToSet(stack)
  PROVE  TarjanOk(roots, path, todo, next, index, low, stack, sccs, {})
<1>1. MayFollow(path, {})
  BY DEF MayFollow
<1>2. TarjanShape(roots, path, todo, next, index, low, stack, {})
  BY <1>1 DEF TarjanOk, TarjanShape
<1>3. w \in Visited(index)
  BY DEF Visited
<1>4. TarjanVisits(roots, path, todo, index, {})
  <2>1. \A x \in Known : x \in ToSet(roots) \/ index[x] > 0
    BY DEF TarjanOk, TarjanVisits
  <2>2. \A x \in ToSet(path) : Needs(x) \subseteq Visited(index) \cup ToSet(todo[x])
    BY <1>3 DEF TarjanOk, TarjanVisits
  <2> QED BY <2>1, <2>2 DEF TarjanOk, TarjanVisits
<1>5. LowOk(ToSet(path), ToSet(stack), todo, index, low, Last(path), {})
  BY LowSkip DEF TarjanOk
<1> QED BY <1>2, <1>4, <1>5 DEF TarjanOk

(* The low links after the return from v.                                  *)
Passed(low, less, v) ==
  [u \in Known |-> IF less # << >> /\ u = Last(less) THEN Least(low[u], low[v]) ELSE low[u]]

LEMMA PassedIs ==
  ASSUME NEW low, low \in [Known -> Nat], NEW less, NEW v \in Known
  PROVE  /\ Passed(low, less, v) \in [Known -> Nat]
         /\ less = << >> => Passed(low, less, v) = low
         /\ less # << >> => /\ \A u \in Known \ {Last(less)} : Passed(low, less, v)[u] = low[u]
                            /\ Last(less) \in Known =>
                                 Passed(low, less, v)[Last(less)] = Least(low[Last(less)], low[v])
<1> DEFINE f == Passed(low, less, v)
<1>1. \A u \in Known : f[u] = IF less # << >> /\ u = Last(less) THEN Least(low[u], low[v]) ELSE low[u]
  BY DEF Passed
<1>2. \A u \in Known : Least(low[u], low[v]) \in Nat
  BY DEF Least
<1>3. f = [u \in Known |-> f[u]]
  BY DEF Passed
<1> HIDE DEF f
<1>4. \A u \in Known : f[u] \in Nat
  BY <1>1, <1>2
<1>5. f \in [Known -> Nat]
  BY <1>3, <1>4
<1>6. less = << >> => f = low
  BY <1>1, <1>3
<1> QED BY <1>1, <1>5, <1>6 DEF f

LEMMA TarjanReturns ==
  ASSUME DependencyInit,
         NEW roots, NEW path, NEW todo, NEW next, NEW index, NEW low, NEW stack, NEW sccs,
         TarjanOk(roots, path, todo, next, index, low, stack, sccs, {}), path # << >>,
         todo[Last(path)] = << >>, low[Last(path)] # index[Last(path)]
  PROVE  TarjanOk(roots, Front(path), todo, next, index, Passed(low, Front(path), Last(path)),
                  stack, sccs, {})
<1> DEFINE v == Last(path)  less == Front(path)  low2 == Passed(low, less, v)
           P == ToSet(path)  S == ToSet(stack)  q == Last(less)
<1>1. /\ path \in Seq(Known) /\ PathOk(path, S) /\ Rising(path, index)
      /\ index \in [Known -> Nat] /\ low \in [Known -> Nat]
      /\ TarjanShape(roots, path, todo, next, index, low, stack, {})
  BY DEF TarjanOk, TarjanShape
<1>2. P \subseteq S /\ S \subseteq Visited(index) /\ Visited(index) \subseteq Known /\ v \in P /\ Top(P, index, v)
  BY StackIs
<1>3. /\ PathOk(less, S) /\ v \notin ToSet(less) /\ P = {v} \cup ToSet(less)
      /\ less # << >> => v \in Needs(q)
  BY <1>1, PathShrinks
<1>4. less \in Seq(Known) /\ Rising(less, index)
  BY <1>1, TopIs, FrontAndLast
<1>5. ToSet(less) = P \ {v}
  BY <1>3
<1>6. LowOk(P, S, todo, index, low, v, {})
  BY DEF TarjanOk
<1>7. ToSet(todo[v]) = {}
  BY NothingInside
<1> HIDE DEF v, less, low2, P, S
<1>8. less # << >>
  <2>1. P \ {v} # {}
    BY <1>2, <1>6, LowReaches DEF v
  <2> QED BY <1>5, <2>1, NothingInside
<1>9. q \in ToSet(less) /\ q \in Known /\ Top(P \ {v}, index, q)
  <2>1. Top(ToSet(less), index, q)
    BY <1>4, <1>8, TopIs
  <2>2. q \in ToSet(less)
    BY <2>1 DEF Top
  <2> QED BY <1>2, <1>5, <2>1, <2>2
<1>10. /\ low2 \in [Known -> Nat] /\ low2[q] = Least(low[q], low[v])
       /\ \A u \in Known \ {q} : low2[u] = low[u]
  <2>1. v \in Known
    BY <1>2
  <2> HIDE DEF q
  <2>2. low2 \in [Known -> Nat]
    BY <1>1, <2>1, PassedIs DEF low2
  <2>3. low2[q] = Least(low[q], low[v])
    BY <1>1, <1>8, <1>9, <2>1, PassedIs DEF low2, q
  <2>4. \A u \in Known \ {q} : low2[u] = low[u]
    BY <1>1, <1>8, <2>1, PassedIs DEF low2, q
  <2> QED BY <2>2, <2>3, <2>4
<1> HIDE DEF q
<1>11. LowOk(P \ {v}, S, todo, index, low2, q, {})
  <2>1. \A p \in P \ {v, q} : low2[p] = low[p]
    BY <1>2, <1>10
  <2>2. low[v] # index[v]
    BY DEF v
  <2>3. v \in Needs(q)
    BY <1>3, <1>8 DEF q
  <2> QED BY <1>2, <1>6, <1>7, <1>9, <1>10, <2>1, <2>2, <2>3, LowReturn
<1>12. TarjanShape(roots, less, todo, next, index, low2, stack, {})
  <2>1. MayFollow(less, {})
    BY DEF MayFollow
  <2> QED BY <1>1, <1>3, <1>4, <1>10, <2>1 DEF TarjanShape, S
<1>13. TarjanVisits(roots, less, todo, index, {})
  <2>1. \A x \in P : Needs(x) \subseteq Visited(index) \cup ToSet(todo[x])
    BY DEF TarjanOk, TarjanVisits, P
  <2>2. Needs(v) \subseteq Visited(index)
    BY <1>2, <1>7, <2>1
  <2>3. \A x \in Visited(index) \ P : Needs(x) \subseteq Visited(index)
    BY DEF TarjanOk, TarjanVisits, P
  <2>4. \A x \in Visited(index) \ ToSet(less) : Needs(x) \subseteq Visited(index)
    BY <1>5, <2>2, <2>3
  <2> QED BY <1>5, <2>1, <2>4 DEF TarjanOk, TarjanVisits
<1>14. LowOk(ToSet(less), S, todo, index, low2, q, {})
  BY <1>5, <1>11
<1>15. TarjanOk(roots, less, todo, next, index, low2, stack, sccs, {})
  BY <1>12, <1>13, <1>14 DEF TarjanOk, S, q
<1> QED BY <1>15 DEF low2, less, v

LEMMA TarjanPops ==
  ASSUME DependencyInit,
         NEW roots, NEW path, NEW todo, NEW next, NEW index, NEW low, NEW stack, NEW sccs,
         TarjanOk(roots, path, todo, next, index, low, stack, sccs, {}), path # << >>,
         todo[Last(path)] = << >>, low[Last(path)] = index[Last(path)],
         NEW i \in DOMAIN stack, stack[i] = Last(path)
  PROVE  TarjanOk(roots, Front(path), todo, next, index, Passed(low, Front(path), Last(path)),
                  SubSeq(stack, 1, i - 1),
                  sccs \cup {ToSet(SubSeq(stack, i, Len(stack)))}, {})
<1> DEFINE v == Last(path)  less == Front(path)  low2 == Passed(low, less, v)
           P == ToSet(path)  S == ToSet(stack)  q == Last(less)
           rest == SubSeq(stack, 1, i - 1)  G == Segment(S, index, v)  U == Under(S, index, v)
           D == Visited(index) \ S
<1>1. /\ path \in Seq(Known) /\ PathOk(path, S) /\ Rising(path, index)
      /\ index \in [Known -> Nat] /\ low \in [Known -> Nat] /\ stack \in Seq(Known) /\ Rising(stack, index)
      /\ TarjanShape(roots, path, todo, next, index, low, stack, {})
  BY DEF TarjanOk, TarjanShape
<1>2. P \subseteq S /\ S \subseteq Visited(index) /\ Visited(index) \subseteq Known /\ v \in P /\ Top(P, index, v)
  BY StackIs
<1>3. /\ PathOk(less, S) /\ v \notin ToSet(less) /\ P = {v} \cup ToSet(less)
      /\ less # << >> => v \in Needs(q)
  BY <1>1, PathShrinks
<1>4. less \in Seq(Known) /\ Rising(less, index)
  BY <1>1, TopIs, FrontAndLast
<1>5. ToSet(less) = P \ {v}
  BY <1>3
<1>6. LowOk(P, S, todo, index, low, v, {})
  BY DEF TarjanOk
<1>7. ToSet(todo[v]) = {}
  BY NothingInside
<1>8. /\ ToSet(SubSeq(stack, i, Len(stack))) = G /\ ToSet(rest) = U
      /\ rest \in Seq(Known) /\ Rising(rest, index)
  BY <1>1, StackSplits
<1>9. S = G \cup U /\ U \cap G = {}
  <2>1. \A x \in S : index[x] \in Nat /\ index[v] \in Nat
    BY <1>1, <1>2
  <2> QED BY <2>1 DEF Segment, Under
<1>10. TarjanVisits(roots, path, todo, index, {}) /\ Found(sccs, D)
  BY DEF TarjanOk
<1>11. low[v] = index[v]
  OBVIOUS
<1> HIDE DEF v, less, low2, P, S, rest, G, U, q, D
<1>12. /\ \A x \in P : Needs(x) \subseteq Visited(index) \cup ToSet(todo[x])
       /\ \A x \in Visited(index) \ P : Needs(x) \subseteq Visited(index)
  BY <1>10 DEF TarjanVisits, P
<1>13. Needs(v) \subseteq Visited(index)
  BY <1>2, <1>7, <1>12
<1>14. v \in G /\ \A x \in G : Class(x) = G /\ Needs(x) \subseteq G \cup D
  <2>1. D \subseteq Known /\ D \cap S = {} /\ \A x \in D : Needs(x) \subseteq D
    BY <1>10 DEF Found, D
  <2>2. Visited(index) = S \cup D
    BY <1>2 DEF D
  <2>3. Needs(v) \subseteq S \cup D /\ \A x \in S \ P : Needs(x) \subseteq S \cup D
    BY <1>2, <1>12, <1>13, <2>2
  <2>4. Surrounds(D, P, S, v)
    BY <2>1, <2>3 DEF Surrounds
  <2>5. v \in G /\ IsClass(G, D)
    BY <1>2, <1>6, <1>7, <1>11, <2>4, LowClass DEF G
  <2> QED BY <2>5 DEF IsClass
<1>15. LowOk(P \ {v}, U, todo, index, low, q, {})
  BY <1>2, <1>6, <1>11, LowPop DEF U
<1>16. low2 = low
  <2>1. low2 \in [Known -> Nat]
    BY <1>1, <1>2, PassedIs DEF low2
  <2>2. CASE less = << >>
    BY <1>1, <1>2, <2>2, PassedIs DEF low2
  <2>3. CASE less # << >>
    <3>1. Top(ToSet(less), index, q)
      BY <1>4, <2>3, TopIs DEF q
    <3>2. q \in P \ {v} /\ q \in Known
      BY <1>2, <1>5, <3>1 DEF Top
    <3>3. low[q] <= index[q] /\ index[q] < index[v]
      BY <1>2, <1>6, <3>2 DEF LowOk, LowLinks, Top
    <3>4. Least(low[q], low[v]) = low[q]
      <4> DEFINE a == low[q]  b == index[q]  c == low[v]
      <4>1. a \in Nat /\ b \in Nat /\ c \in Nat /\ a <= b /\ b < c
        BY <1>1, <1>2, <1>11, <3>2, <3>3
      <4> HIDE DEF a, b, c
      <4>2. Least(a, c) = a
        BY <4>1 DEF Least
      <4> QED BY <4>2 DEF a, c
    <3>5. low2[q] = low[q]
      <4>1. v \in Known
        BY <1>2
      <4>2. low2[q] = Least(low[q], low[v])
        <5>1. low \in [Known -> Nat]
          BY <1>1
        <5>2. Last(less) \in Known
          BY <3>2 DEF q
        <5>3. Passed(low, less, v)[Last(less)] = Least(low[Last(less)], low[v])
          BY <2>3, <4>1, <5>1, <5>2, PassedIs
        <5> QED BY <5>3 DEF low2, q
      <4> QED BY <3>4, <4>2
    <3>6. \A u \in Known \ {q} : low2[u] = low[u]
      BY <1>1, <1>2, <2>3, PassedIs DEF low2, q
    <3>7. \A u \in Known : low2[u] = low[u]
      BY <3>5, <3>6
    <3> QED BY <1>1, <2>1, <3>7
  <2> QED BY <2>2, <2>3
<1>17. TarjanShape(roots, less, todo, next, index, low, rest, {})
  <2>1. MayFollow(less, {})
    BY DEF MayFollow
  <2>2. P \ {v} \subseteq U
    BY <1>15 DEF LowOk, Numbered
  <2>3. U \subseteq Known
    BY <1>2, <1>9
  <2>4. PathOk(less, U)
    BY <1>3, <1>5, <2>2, <2>3 DEF PathOk
  <2> QED BY <1>1, <1>4, <1>8, <2>1, <2>4 DEF TarjanShape
<1>18. TarjanVisits(roots, less, todo, index, {})
  <2>1. \A x \in Visited(index) \ ToSet(less) : Needs(x) \subseteq Visited(index)
    BY <1>5, <1>12, <1>13
  <2> QED BY <1>5, <1>10, <1>12, <2>1 DEF TarjanVisits
<1>19. Found(sccs \cup {G}, Visited(index) \ U)
  <2>1. Visited(index) \ U = D \cup G
    BY <1>2, <1>9 DEF D
  <2>2. UNION (sccs \cup {G}) = D \cup G
    BY <1>10 DEF Found
  <2>3. D \cup G \subseteq Known
    BY <1>2, <1>9 DEF D
  <2>4. \A x \in D \cup G : Needs(x) \subseteq D \cup G
    BY <1>10, <1>14 DEF Found
  <2>5. \A C \in sccs \cup {G} : C # {} /\ \A x \in C : Class(x) = C
    BY <1>10, <1>14 DEF Found
  <2> QED BY <2>1, <2>2, <2>3, <2>4, <2>5 DEF Found
<1>20. TarjanOk(roots, less, todo, next, index, low, rest, sccs \cup {G}, {})
  BY <1>5, <1>8, <1>15, <1>17, <1>18, <1>19 DEF TarjanOk, q
<1>21. ToSet(SubSeq(stack, i, Len(stack))) = G
  BY <1>8
<1> QED BY <1>16, <1>20, <1>21 DEF low2, less, v, rest

TarjanGood(s, going) ==
  /\ s \in TarjanState
  /\ TarjanOk(s.roots, s.path, s.todo, s.next, s.index, s.low, s.stack, s.sccs, going)

LEMMA TarjanFields ==
  ASSUME NEW s \in TarjanState
  PROVE  /\ s.roots \in Seq(Known) /\ s.path \in Seq(Known) /\ s.stack \in Seq(Known)
         /\ s.todo \in [Known -> Seq(Known)] /\ s.next \in Nat
         /\ s.index \in [Known -> Nat] /\ s.low \in [Known -> Nat]
         /\ s.sccs \in SUBSET SUBSET Known
         /\ s = [roots |-> s.roots, path |-> s.path, todo |-> s.todo, next |-> s.next,
                 index |-> s.index, low |-> s.low, stack |-> s.stack, sccs |-> s.sccs]
BY DEF TarjanState

LEMMA EnterIs ==
  ASSUME DependencyInit, NEW s \in TarjanState, NEW u \in Known
  PROVE  /\ Enter(s, u) \in TarjanState /\ Further(s, Enter(s, u))
         /\ TarjanGood(s, {u}) /\ s.index[u] = 0 => TarjanGood(Enter(s, u), {})
<1> DEFINE t == Enter(s, u)  index == [s.index EXCEPT ![u] = s.next]  low == [s.low EXCEPT ![u] = s.next]
           path == Append(s.path, u)  stack == Append(s.stack, u)  n == s.next + 1
<1>1. t = [s EXCEPT !.index = index, !.low = low, !.next = n, !.stack = stack, !.path = path]
  BY TarjanFields DEF Enter
<1>2. index \in [Known -> Nat] /\ low \in [Known -> Nat] /\ n \in Nat
  BY TarjanFields
<1>3. path \in Seq(Known) /\ stack \in Seq(Known) /\ Len(path) = Len(s.path) + 1 /\ Len(s.path) \in Nat
  BY TarjanFields, AppendAdds
<1> HIDE DEF t, index, low, path, stack, n
<1>4. /\ t \in TarjanState /\ t.roots = s.roots /\ t.path = path /\ t.todo = s.todo /\ t.next = n
      /\ t.index = index /\ t.low = low /\ t.stack = stack /\ t.sccs = s.sccs
  BY <1>1, <1>2, <1>3, TarjanFields DEF TarjanState
<1>5. Further(s, t)
  BY <1>3, <1>4 DEF Further
<1>6. ASSUME TarjanGood(s, {u}), s.index[u] = 0 PROVE TarjanGood(t, {})
  <2>1. TarjanOk(s.roots, path, s.todo, n, index, low, stack, s.sccs, {})
    BY <1>6, TarjanEnters DEF TarjanGood, path, n, index, low, stack
  <2> QED BY <1>4, <2>1 DEF TarjanGood
<1> QED BY <1>4, <1>5, <1>6 DEF t

LEMMA SuccessorIs ==
  ASSUME DependencyInit, NEW s \in TarjanState, s.path # << >>, NEW w \in Known
  PROVE  /\ Successor(s, Last(s.path), w) \in TarjanState
         /\ Further(s, Successor(s, Last(s.path), w))
         /\ TarjanGood(s, {w}) => TarjanGood(Successor(s, Last(s.path), w), {})
<1> DEFINE v == Last(s.path)  t == Successor(s, v, w)
<1>1. v \in Known /\ s.index[w] \in Nat /\ Len(s.path) \in Nat /\ s.path \in Seq(Known)
  <2>1. s.path \in Seq(Known) /\ s.index \in [Known -> Nat]
    BY TarjanFields
  <2> QED BY <2>1, FrontAndLast, InsideIs
<1>2. CASE s.index[w] = 0
  <2>1. t = Enter(s, w)
    BY <1>2 DEF Successor
  <2> QED BY <1>2, <2>1, EnterIs
<1>3. CASE s.index[w] # 0 /\ w \in ToSet(s.stack)
  <2> DEFINE low == [s.low EXCEPT ![v] = Least(@, s.index[w])]
  <2>1. s.index[w] > 0
    BY <1>1, <1>3
  <2>2. t = [s EXCEPT !.low = low]
    BY <1>3, <2>1, TarjanFields DEF Successor
  <2>3. low \in [Known -> Nat]
    <3>1. s.low \in [Known -> Nat] /\ s.low[v] \in Nat
      BY <1>1, TarjanFields
    <3>2. Least(s.low[v], s.index[w]) \in Nat
      BY <1>1, <3>1 DEF Least
    <3> QED BY <3>1, <3>2
  <2> HIDE DEF t, low
  <2>4. /\ t \in TarjanState /\ t.roots = s.roots /\ t.path = s.path /\ t.todo = s.todo /\ t.next = s.next
        /\ t.index = s.index /\ t.low = low /\ t.stack = s.stack /\ t.sccs = s.sccs
    BY <2>2, <2>3, TarjanFields DEF TarjanState
  <2>5. Further(s, t)
    BY <1>1, <2>4 DEF Further
  <2>6. ASSUME TarjanGood(s, {w}) PROVE TarjanGood(t, {})
    <3>1. TarjanOk(s.roots, s.path, s.todo, s.next, s.index, low, s.stack, s.sccs, {})
      BY <1>3, <2>6, TarjanSees DEF TarjanGood, low
    <3> QED BY <2>4, <3>1 DEF TarjanGood
  <2> QED BY <2>4, <2>5, <2>6 DEF t
<1>4. CASE s.index[w] # 0 /\ w \notin ToSet(s.stack)
  <2>1. t = s
    BY <1>4 DEF Successor
  <2>2. Further(s, s)
    BY <1>1 DEF Further
  <2>3. ASSUME TarjanGood(s, {w}) PROVE TarjanGood(s, {})
    <3>1. s.index[w] > 0
      BY <1>1, <1>4
    <3> QED BY <1>4, <2>3, <3>1, TarjanSkips DEF TarjanGood
  <2> QED BY <2>1, <2>2, <2>3
<1> QED BY <1>2, <1>3, <1>4

LEMMA ReturnIs ==
  ASSUME DependencyInit, NEW s \in TarjanState, s.path # << >>
  PROVE  /\ Leave(Pop(s, Last(s.path)), Last(s.path)) \in TarjanState
         /\ Leave(Pop(s, Last(s.path)), Last(s.path)).roots = s.roots
         /\ Leave(Pop(s, Last(s.path)), Last(s.path)).todo = s.todo
         /\ Leave(Pop(s, Last(s.path)), Last(s.path)).path = Front(s.path)
         /\ TarjanGood(s, {}) /\ s.todo[Last(s.path)] = << >> =>
              TarjanGood(Leave(Pop(s, Last(s.path)), Last(s.path)), {})
<1> DEFINE v == Last(s.path)  less == Front(s.path)  r == Pop(s, v)  t == Leave(r, v)
           low == Passed(s.low, less, v)
<1>1. /\ v \in Known /\ s.path \in Seq(Known) /\ less \in Seq(Known)
  <2>1. s.path \in Seq(Known)
    BY TarjanFields
  <2> QED BY <2>1, FrontAndLast
<1>2. low \in [Known -> Nat]
  BY <1>1, PassedIs, TarjanFields
<1>3. CASE s.low[v] # s.index[v] \/ v \notin ToSet(s.stack)
  <2>1. r = s
    BY <1>3 DEF Pop
  <2>2. t = [s EXCEPT !.path = less, !.low = low]
    BY <2>1, TarjanFields DEF Leave, Passed
  <2> HIDE DEF t, low, less, r
  <2>3. /\ t \in TarjanState /\ t.roots = s.roots /\ t.path = less /\ t.todo = s.todo /\ t.next = s.next
        /\ t.index = s.index /\ t.low = low /\ t.stack = s.stack /\ t.sccs = s.sccs
    BY <1>1, <1>2, <2>2, TarjanFields DEF TarjanState
  <2>4. ASSUME TarjanGood(s, {}), s.todo[v] = << >> PROVE TarjanGood(t, {})
    <3>1. v \in ToSet(s.stack)
      BY <2>4, StackIs DEF TarjanGood
    <3>2. TarjanOk(s.roots, less, s.todo, s.next, s.index, low, s.stack, s.sccs, {})
      BY <1>3, <2>4, <3>1, TarjanReturns DEF TarjanGood, less, low
    <3> QED BY <2>3, <3>2 DEF TarjanGood
  <2> QED BY <2>3, <2>4 DEF t, r, less
<1>4. CASE s.low[v] = s.index[v] /\ v \in ToSet(s.stack)
  <2> DEFINE i == CHOOSE i \in DOMAIN s.stack : s.stack[i] = v
             rest == SubSeq(s.stack, 1, i - 1)  G == ToSet(SubSeq(s.stack, i, Len(s.stack)))
             sccs == s.sccs \cup {G}
  <2>1. r = [s EXCEPT !.stack = rest, !.sccs = sccs]
    BY <1>4, TarjanFields DEF Pop
  <2>2. \E k \in DOMAIN s.stack : s.stack[k] = v
    BY <1>4 DEF ToSet
  <2>3. i \in DOMAIN s.stack /\ s.stack[i] = v
    BY <2>2
  <2> HIDE DEF i
  <2>4. rest \in Seq(Known) /\ sccs \in SUBSET SUBSET Known
    <3>1. s.stack \in Seq(Known) /\ Len(s.stack) \in Nat /\ i \in 1 .. Len(s.stack)
      BY <2>3, TarjanFields
    <3>2. rest \in Seq(Known) /\ SubSeq(s.stack, i, Len(s.stack)) \in Seq(Known)
      BY <3>1
    <3>3. G \subseteq Known
      BY <3>2, InsideIs
    <3> QED BY <3>2, <3>3, TarjanFields
  <2> HIDE DEF rest, sccs, r, less, t, low
  <2>5. /\ r \in TarjanState /\ r.roots = s.roots /\ r.path = s.path /\ r.todo = s.todo /\ r.next = s.next
        /\ r.index = s.index /\ r.low = s.low /\ r.stack = rest /\ r.sccs = sccs
    BY <2>1, <2>4, TarjanFields DEF TarjanState
  <2>6. t = [r EXCEPT !.path = less, !.low = low]
    BY <2>5 DEF Leave, Passed, t, less, low
  <2>7. /\ t \in TarjanState /\ t.roots = s.roots /\ t.path = less /\ t.todo = s.todo /\ t.next = s.next
        /\ t.index = s.index /\ t.low = low /\ t.stack = rest /\ t.sccs = sccs
    BY <1>1, <1>2, <2>5, <2>6, TarjanFields DEF TarjanState
  <2>8. ASSUME TarjanGood(s, {}), s.todo[v] = << >> PROVE TarjanGood(t, {})
    <3>1. TarjanOk(s.roots, less, s.todo, s.next, s.index, low, rest, sccs, {})
      BY <1>4, <2>3, <2>8, TarjanPops DEF TarjanGood, less, low, rest, sccs
    <3> QED BY <2>7, <3>1 DEF TarjanGood
  <2> QED BY <2>7, <2>8 DEF t, r, less
<1> QED BY <1>3, <1>4

LEMMA StrongConnectIs ==
  ASSUME DependencyInit, NEW s \in TarjanState
  PROVE  /\ StrongConnect[s] \in TarjanState
         /\ TarjanGood(s, {}) =>
              /\ TarjanGood(StrongConnect[s], {})
              /\ \/ s.path = << >> /\ s.roots = << >> /\ StrongConnect[s] = s
                 \/ SearchesLeft(StrongConnect[s].roots, StrongConnect[s].todo, StrongConnect[s].path)
                      < SearchesLeft(s.roots, s.todo, s.path)
<1> DEFINE t == StrongConnect[s]  X == Seq(Known)
<1>1. CASE s.path = << >> /\ s.roots = << >>
  BY <1>1 DEF StrongConnect
<1>2. CASE s.path = << >> /\ s.roots # << >>
  <2> DEFINE u == Head(s.roots)  rest == Tail(s.roots)  r == [s EXCEPT !.roots = rest]
  <2>1. t = IF s.index[u] > 0 THEN r ELSE Enter(r, u)
    BY <1>2 DEF StrongConnect
  <2>2. u \in Known /\ rest \in X
    BY <1>2, TarjanFields, HeadAndTail
  <2>3. Taken(s.roots, u, rest)
    BY <1>2 DEF Taken
  <2> HIDE DEF u, rest, t
  <2>4. /\ r \in TarjanState /\ r.roots = rest /\ r.path = s.path /\ r.todo = s.todo /\ r.next = s.next
        /\ r.index = s.index /\ r.low = s.low /\ r.stack = s.stack /\ r.sccs = s.sccs
    BY <2>2, TarjanFields DEF TarjanState
  <2> HIDE DEF r
  <2>5. s.index[u] \in Nat /\ s.path \in X /\ s.roots \in X /\ Len(s.path) = 0
    BY <1>2, <2>2, TarjanFields
  <2>6. t \in TarjanState /\ Further(r, t)
    <3>1. CASE s.index[u] > 0
      <4>1. t = r
        BY <2>1, <3>1
      <4>2. Len(r.path) = 0 /\ r.path \in X
        BY <2>4, <2>5
      <4> QED BY <2>4, <4>1, <4>2 DEF Further
    <3>2. CASE ~(s.index[u] > 0)
      <4>1. t = Enter(r, u)
        BY <2>1, <3>2
      <4> QED BY <2>2, <2>4, <4>1, EnterIs
    <3> QED BY <3>1, <3>2
  <2>7. ASSUME TarjanGood(s, {}) PROVE TarjanGood(t, {})
    <3>1. TarjanOk(rest, s.path, s.todo, s.next, s.index, s.low, s.stack, s.sccs, {u})
      BY <1>2, <2>3, <2>7, TarjanRoot DEF TarjanGood
    <3>2. CASE s.index[u] > 0
      <4>1. u \notin ToSet(s.stack)
        BY <1>2, <2>7, StackIs DEF TarjanGood
      <4>2. TarjanOk(rest, s.path, s.todo, s.next, s.index, s.low, s.stack, s.sccs, {})
        BY <2>2, <3>1, <3>2, <4>1, TarjanSkips
      <4>3. t = r
        BY <2>1, <3>2
      <4> QED BY <2>4, <4>2, <4>3 DEF TarjanGood
    <3>3. CASE ~(s.index[u] > 0)
      <4>1. t = Enter(r, u) /\ r.index[u] = 0
        BY <2>1, <2>4, <2>5, <3>3
      <4>2. TarjanGood(r, {u})
        BY <2>4, <3>1 DEF TarjanGood
      <4> QED BY <2>2, <2>4, <4>1, <4>2, EnterIs
    <3> QED BY <3>2, <3>3
  <2>8. t.roots = rest /\ t.todo = s.todo /\ t.path \in X /\ Len(t.path) <= Len(s.path) + 1
    BY <2>4, <2>6 DEF Further
  <2>9. SearchesLeft(rest, s.todo, t.path) < SearchesLeft(s.roots, s.todo, s.path)
    BY <2>3, <2>5, <2>8, RootLeaves
  <2> QED BY <2>6, <2>7, <2>8, <2>9 DEF t
<1>3. CASE s.path # << >> /\ s.todo[Last(s.path)] = << >>
  <2> DEFINE v == Last(s.path)  less == Front(s.path)
  <2>1. t = Leave(Pop(s, v), v)
    BY <1>3 DEF StrongConnect
  <2> HIDE DEF t
  <2>2. /\ t \in TarjanState /\ t.roots = s.roots /\ t.todo = s.todo /\ t.path = less
        /\ TarjanGood(s, {}) => TarjanGood(t, {})
    BY <1>3, <2>1, ReturnIs
  <2>3. s.path \in X /\ s.roots \in X
    BY TarjanFields
  <2>4. SearchesLeft(s.roots, s.todo, less) < SearchesLeft(s.roots, s.todo, s.path)
    BY <1>3, <2>3, ReturnLeaves
  <2> QED BY <2>2, <2>4 DEF t
<1>4. CASE s.path # << >> /\ s.todo[Last(s.path)] # << >>
  <2> DEFINE v == Last(s.path)  q == s.todo[v]  w == Head(q)  later == [s.todo EXCEPT ![v] = Tail(@)]
             r == [s EXCEPT !.todo = later]
  <2>1. t = Successor(r, v, w)
    BY <1>4 DEF StrongConnect
  <2>2. v \in Known /\ s.path \in X /\ s.roots \in X
    BY <1>4, TarjanFields, FrontAndLast
  <2>3. TodoTaken(s.todo, v, w, later)
    BY <1>4 DEF TodoTaken
  <2> HIDE DEF v
  <2>4. q \in X /\ q # << >>
    BY <1>4, <2>2, TarjanFields DEF v
  <2> HIDE DEF q
  <2>5. w \in Known /\ Tail(q) \in X
    BY <2>4, HeadAndTail
  <2>6. later = [s.todo EXCEPT ![v] = Tail(q)]
    BY DEF q
  <2> HIDE DEF w, later, t
  <2>7. later \in [Known -> X]
    BY <2>5, <2>6, TarjanFields
  <2>8. /\ r \in TarjanState /\ r.roots = s.roots /\ r.path = s.path /\ r.todo = later /\ r.next = s.next
        /\ r.index = s.index /\ r.low = s.low /\ r.stack = s.stack /\ r.sccs = s.sccs
    BY <2>7, TarjanFields DEF TarjanState
  <2> HIDE DEF r
  <2>9. r.path # << >> /\ v = Last(r.path)
    BY <1>4, <2>8 DEF v
  <2>10. /\ t \in TarjanState /\ Further(r, t)
         /\ TarjanGood(r, {w}) => TarjanGood(t, {})
    BY <2>1, <2>5, <2>8, <2>9, SuccessorIs
  <2>11. ASSUME TarjanGood(s, {}) PROVE TarjanGood(t, {})
    <3>1. TarjanOk(s.roots, s.path, later, s.next, s.index, s.low, s.stack, s.sccs, {w})
      BY <1>4, <2>3, <2>11, TarjanGoesOn DEF TarjanGood, v
    <3> QED BY <2>8, <2>10, <3>1 DEF TarjanGood
  <2>12. t.roots = s.roots /\ t.todo = later /\ t.path \in X /\ Len(t.path) <= Len(s.path) + 1
    BY <2>8, <2>10 DEF Further
  <2>13. ASSUME TarjanGood(s, {})
         PROVE  SearchesLeft(s.roots, later, t.path) < SearchesLeft(s.roots, s.todo, s.path)
    <3>1. TodoOk(s.todo)
      BY <2>13 DEF TarjanGood, TarjanOk, TarjanShape
    <3> QED BY <2>2, <2>3, <2>12, <3>1, TodoLeaves
  <2> QED BY <2>10, <2>11, <2>12, <2>13 DEF t
<1> QED BY <1>1, <1>2, <1>3, <1>4

LEMMA StrongConnectIsLoop ==
  ASSUME DependencyInit
  PROVE  IsLoop(StrongConnect, TarjanState)
<1>1. \A s \in TarjanState : StrongConnect[s] \in TarjanState
  BY StrongConnectIs
<1> DEFINE f == StrongConnect
<1>2. f = [s \in TarjanState |-> f[s]]
  BY DEF StrongConnect
<1> HIDE DEF f
<1>3. \A s \in TarjanState : f[s] \in TarjanState
  BY <1>1 DEF f
<1>4. f \in [TarjanState -> TarjanState]
  BY <1>2, <1>3
<1> QED BY <1>4 DEF IsLoop, f

TarjanInv == {s \in TarjanState : TarjanGood(s, {})}
TarjanLeft == [s \in TarjanState |-> SearchesLeft(s.roots, s.todo, s.path)]

LEMMA StrongConnectProgresses ==
  ASSUME DependencyInit
  PROVE  /\ Progresses(StrongConnect, TarjanInv, TarjanLeft)
         /\ \A s \in TarjanInv : StrongConnect[s] = s => s.path = << >> /\ s.roots = << >>
<1> SUFFICES ASSUME NEW s \in TarjanInv
             PROVE  /\ StrongConnect[s] \in TarjanInv /\ TarjanLeft[s] \in Nat
                    /\ StrongConnect[s] = s \/ TarjanLeft[StrongConnect[s]] < TarjanLeft[s]
                    /\ StrongConnect[s] = s => s.path = << >> /\ s.roots = << >>
  BY DEF Progresses
<1> DEFINE t == StrongConnect[s]
<1>1. s \in TarjanState /\ TarjanGood(s, {}) /\ s.roots \in Seq(Known) /\ s.path \in Seq(Known)
  BY TarjanFields DEF TarjanInv
<1>2. /\ t \in TarjanState /\ TarjanGood(t, {})
      /\ \/ s.path = << >> /\ s.roots = << >> /\ t = s
         \/ SearchesLeft(t.roots, t.todo, t.path) < SearchesLeft(s.roots, s.todo, s.path)
  BY <1>1, StrongConnectIs
<1> HIDE DEF t
<1>3. t \in TarjanInv
  BY <1>2 DEF TarjanInv
<1>4. /\ TarjanLeft[s] = SearchesLeft(s.roots, s.todo, s.path)
      /\ TarjanLeft[t] = SearchesLeft(t.roots, t.todo, t.path)
  BY <1>1, <1>2 DEF TarjanLeft
<1>5. TarjanLeft[s] \in Nat
  BY <1>1, <1>4, SearchesCount
<1>6. CASE s.path = << >> /\ s.roots = << >> /\ t = s
  BY <1>3, <1>5, <1>6 DEF t
<1>7. CASE SearchesLeft(t.roots, t.todo, t.path) < SearchesLeft(s.roots, s.todo, s.path)
  <2>1. TarjanLeft[t] < TarjanLeft[s]
    BY <1>4, <1>7
  <2>2. t # s
    BY <1>5, <2>1
  <2> QED BY <1>3, <1>5, <2>1, <2>2 DEF t
<1> QED BY <1>2, <1>6, <1>7

(* Tarjan's algorithm finds the classes of nodes that reach each other: a  *)
(* node and all nodes that it reaches and that reach it, for every node.   *)
THEOREM ComponentsAre ==
  ASSUME DependencyInit
  PROVE  Components = {Class(u) : u \in Known}
<1> DEFINE n == 2 * Size * (Size + 1)  X == Seq(Known)  todo == [u \in Known |-> Deps(u)]
           zero == [u \in Known |-> 0]
           s0 == [roots |-> InOrder(Known), path |-> << >>, todo |-> todo, next |-> 1,
                  index |-> zero, low |-> zero, stack |-> << >>, sccs |-> {}]
           I == TarjanInv  left == TarjanLeft  s == Repeat(StrongConnect, s0, n)
<1>1. TodoOk(todo) /\ todo \in [Known -> X] /\ \A v \in Known : ToSet(todo[v]) = Needs(v)
  BY TodoStarts DEF TodoOk
<1> HIDE DEF todo
<1>2. InOrder(Known) \in X /\ ToSet(InOrder(Known)) = Known
  BY InOrderIs
<1>3. << >> \in X /\ Len(<< >>) = 0 /\ ToSet(<< >>) = {} /\ Distinct(<< >>) /\ DOMAIN << >> = {}
  BY NothingInside
<1>4. zero \in [Known -> Nat] /\ \A v \in Known : zero[v] = 0
  OBVIOUS
<1> HIDE DEF zero
<1>5. s0 \in TarjanState
  <2> HIDE DEF X
  <2> QED BY <1>1, <1>2, <1>3, <1>4 DEF TarjanState, X
<1>6. TarjanOk(InOrder(Known), << >>, todo, 1, zero, zero, << >>, {}, {})
  <2>1. PathOk(<< >>, ToSet(<< >>))
    BY <1>3 DEF PathOk
  <2>2. MayFollow(<< >>, {})
    BY DEF MayFollow
  <2>3. Rising(<< >>, zero)
    BY <1>3 DEF Rising
  <2>4. TarjanShape(InOrder(Known), << >>, todo, 1, zero, zero, << >>, {})
    BY <1>1, <1>2, <1>3, <1>4, <2>1, <2>2, <2>3 DEF TarjanShape
  <2>5. Visited(zero) = {}
    BY <1>4 DEF Visited
  <2>6. TarjanVisits(InOrder(Known), << >>, todo, zero, {})
    BY <1>1, <1>2, <1>3, <2>5 DEF TarjanVisits
  <2>7. Found({}, Visited(zero) \ ToSet(<< >>))
    BY <2>5 DEF Found
  <2>8. LowOk({}, {}, todo, zero, zero, Last(<< >>), {})
    BY DEF LowOk, Numbered, Below, Leads, LowLinks, Lowest
  <2> QED BY <1>3, <2>4, <2>6, <2>7, <2>8 DEF TarjanOk
<1>7. s0 \in I
  <2>1. TarjanGood(s0, {})
    BY <1>5, <1>6 DEF TarjanGood
  <2> QED BY <1>5, <2>1 DEF TarjanInv
<1>8. left[s0] <= n /\ n \in Nat
  <2>1. left[s0] = SearchesLeft(InOrder(Known), todo, << >>)
    BY <1>5 DEF TarjanLeft
  <2> QED BY <2>1, SearchesStart
<1>9. I \subseteq TarjanState
  BY DEF TarjanInv
<1>10. IsLoop(StrongConnect, TarjanState) /\ Progresses(StrongConnect, I, left)
  BY StrongConnectIsLoop, StrongConnectProgresses
<1>11. Components = s.sccs
  BY DEF Components, todo, zero
<1> HIDE DEF I, left, s0, n
<1>12. Ended(StrongConnect, I, s)
  BY <1>7, <1>8, <1>9, <1>10, RepeatEnds
<1> HIDE DEF s
<1>13. s \in I /\ StrongConnect[s] = s
  BY <1>12 DEF Ended
<1>14. s.path = << >> /\ s.roots = << >>
  BY <1>13, StrongConnectProgresses DEF I
<1>15. TarjanOk(<< >>, << >>, s.todo, s.next, s.index, s.low, s.stack, s.sccs, {})
  BY <1>13, <1>14 DEF I, TarjanInv, TarjanGood
<1>16. ToSet(s.stack) = {}
  BY <1>15, StackIs
<1>17. Visited(s.index) = Known
  BY <1>3, <1>15 DEF TarjanOk, TarjanVisits, Visited
<1>18. Found(s.sccs, Known)
  BY <1>15, <1>16, <1>17 DEF TarjanOk
<1>19. /\ UNION s.sccs = Known
       /\ \A C \in s.sccs : C # {} /\ \A x \in C : Class(x) = C
  BY <1>18 DEF Found
<1>20. ASSUME NEW C \in s.sccs PROVE \E u \in Known : C = Class(u)
  <2>1. PICK u \in C : Class(u) = C
    BY <1>19
  <2>2. u \in Known
    BY <1>19
  <2> QED BY <2>1, <2>2
<1>21. ASSUME NEW u \in Known PROVE Class(u) \in s.sccs
  <2>1. PICK C \in s.sccs : u \in C
    BY <1>19
  <2>2. Class(u) = C
    BY <1>19, <2>1
  <2> QED BY <2>2
<1>22. s.sccs = {Class(u) : u \in Known}
  BY <1>20, <1>21
<1> QED BY <1>11, <1>22

Mutual(u) == {v \in Known : {<<u, v>>, <<v, u>>} \subseteq Reach}

LEMMA MutualIs ==
  ASSUME DependencyInit, NEW u \in Known
  PROVE  /\ Mutual(u) \subseteq Known /\ Class(u) \subseteq Known
         /\ Cardinality(Mutual(u)) > 1 => Mutual(u) = Class(u)
         /\ Cardinality(Class(u)) > 1 => Mutual(u) = Class(u)
<1>1. \A v \in Known : \A w : <<v, w>> \in Reach <=> w \in Reached(v)
  BY ReachedIs
<1>2. Mutual(u) = {v \in Known : v \in Reached(u) /\ u \in Reached(v)}
  <2>1. ASSUME NEW v \in Known
        PROVE  {<<u, v>>, <<v, u>>} \subseteq Reach <=> v \in Reached(u) /\ u \in Reached(v)
    BY <1>1
  <2> QED BY <2>1 DEF Mutual
<1>3. Class(u) = {v \in Known : v \in {u} \cup Reached(u) /\ u \in {v} \cup Reached(v)}
  BY AroundIs DEF Class, Around
<1>4. ASSUME u \in Reached(u) PROVE Mutual(u) = Class(u)
  <2>1. ASSUME NEW v \in Known
        PROVE  v \in Reached(u) /\ u \in Reached(v)
                 <=> v \in {u} \cup Reached(u) /\ u \in {v} \cup Reached(v)
    BY <1>4
  <2> QED BY <1>2, <1>3, <2>1
<1>5. ASSUME NEW v \in Known, v \in Reached(u), u \in Reached(v) PROVE u \in Reached(u)
  BY <1>5, ReachedOnwards
<1>6. ASSUME Cardinality(Mutual(u)) > 1 PROVE Mutual(u) = Class(u)
  <2>1. Mutual(u) # {}
    <3>1. ASSUME Mutual(u) = {} PROVE FALSE
      <4>1. Cardinality(Mutual(u)) = 0
        BY <3>1, FS_EmptySet
      <4> QED BY <1>6, <4>1
    <3> QED BY <3>1
  <2> QED BY <1>2, <1>4, <1>5, <2>1
<1>7. ASSUME Cardinality(Class(u)) > 1 PROVE Mutual(u) = Class(u)
  <2>1. Class(u) # {u}
    <3>1. ASSUME Class(u) = {u} PROVE FALSE
      <4>1. Cardinality(Class(u)) = 1
        BY <3>1, FS_Singleton
      <4> QED BY <1>7, <4>1
    <3> QED BY <3>1
  <2>2. \E v \in Known \ {u} : v \in Reached(u) /\ u \in Reached(v)
    BY <1>3, <2>1
  <2> QED BY <1>4, <1>5, <2>2
<1> QED BY <1>2, <1>3, <1>6, <1>7

LEMMA GraphCyclesAre ==
  ASSUME DependencyInit
  PROVE  GraphCycles = {S \in {Mutual(u) : u \in Known} : Cardinality(S) > 1}
<1>1. GraphCycles = {S \in {Class(u) : u \in Known} : Cardinality(S) > 1}
  BY ComponentsAre DEF GraphCycles
<1>2. \A u \in Known : /\ Cardinality(Mutual(u)) > 1 => Mutual(u) = Class(u)
                       /\ Cardinality(Class(u)) > 1 => Mutual(u) = Class(u)
  BY MutualIs
<1>3. ASSUME NEW S, Cardinality(S) > 1
      PROVE  (\E u \in Known : S = Class(u)) <=> \E u \in Known : S = Mutual(u)
  BY <1>2, <1>3
<1> QED BY <1>1, <1>3

(* Both searches for cycles are right about the same reachability.         *)
LEMMA CyclesAreRight ==
  ASSUME DependencyInit
  PROVE  CyclesRight(Reach)
<1> DEFINE found == DetectCycles
<1>1. ASSUME NEW c \in ToSet(found)
      PROVE  /\ Len(c) > 1 /\ c[1] = Last(c)
             /\ \A i \in 1 .. (Len(c) - 1) : c[i + 1] \in dependsOn[c[i]]
  <2>1. IsCycle(c)
    BY DetectCyclesIs
  <2>2. \A i \in 1 .. Len(c) - 1 : c[i] \in Artifacts
    BY <2>1, CycleReaches
  <2>3. ASSUME NEW i \in 1 .. Len(c) - 1 PROVE c[i + 1] \in dependsOn[c[i]]
    <3>1. c[i + 1] \in Needs(c[i])
      BY <2>1 DEF IsCycle
    <3> QED BY <2>2, <3>1 DEF Needs
  <2> QED BY <2>1, <2>3 DEF IsCycle
<1>2. (found = << >>) = (\A v \in Artifacts : <<v, v>> \notin Reach)
  <2>1. found = << >> <=> \A v \in Artifacts : v \notin Reached(v)
    BY DetectCyclesIs
  <2>2. \A v \in Artifacts : <<v, v>> \in Reach <=> v \in Reached(v)
    BY ReachedIs, KnownFinite
  <2> QED BY <2>1, <2>2
<1>3. GraphCycles = { S \in {{v \in Known : {<<u, v>>, <<v, u>>} \subseteq Reach} : u \in Known} :
                      Cardinality(S) > 1 }
  BY GraphCyclesAre DEF Mutual
<1> HIDE DEF found
<1> QED BY <1>1, <1>2, <1>3 DEF CyclesRight, found

(* CyclesAndPathsAreFound: every cycle that the catalog's search reports    *)
(* is one, it reports one if there is any, Tarjan's algorithm finds exactly *)
(* the groups of nodes that reach each other, and distances, shortest paths *)
(* and what is reached in so many steps agree, on every finite graph.      *)
THEOREM CyclesAndPathsFound == DependencySpec => []CyclesAndPathsAreFound
<1>1. DependencyInit /\ [DependencyNext]_dependsOn => DependencyInit'
  BY DEF DependencyInit, DependencyNext
<1>2. DependencyInit => CyclesAndPathsAreFound
  <2> SUFFICES ASSUME DependencyInit PROVE CyclesAndPathsAreFound
    OBVIOUS
  <2>1. CyclesRight(Reach)
    BY CyclesAreRight
  <2>2. \A u \in Known : DistancesRight(Distances(u), u, Reach) /\ PathsAgree(Distances(u), u)
    BY PathsRight
  <2> QED BY <2>1, <2>2 DEF CyclesAndPathsAreFound
<1> QED BY <1>1, <1>2, PTL DEF DependencySpec

=============================================================================
