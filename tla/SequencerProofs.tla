--------------------------- MODULE SequencerProofs ---------------------------
(***************************************************************************)
(* The sequencer is right for all playbooks: of any length, with any       *)
(* dependencies and any knowledge models.                                  *)
(***************************************************************************)
EXTENDS Sequencer, WellFoundedInduction, FiniteSetTheorems, TLAPS

-----------------------------------------------------------------------------
(* The least element of a set of numbers, a smallest one of a set of sets   *)

Less == {p \in Nat \X Nat : p[1] < p[2]}

LEMMA LessWellFounded == IsWellFoundedOn(Less, Nat)
    BY NatLessThanWellFounded, Zenon DEF OpToRel, Less

LEMMA MinOf ==
    ASSUME NEW T \in SUBSET Nat, T # {}
    PROVE  Min(T) \in T /\ \A y \in T : Min(T) <= y
    <1>1. PICK x \in T : \A y \in T : ~(<<y, x>> \in Less)
        BY LessWellFounded, WFMin, Zenon
    <1>2. ASSUME NEW y \in T PROVE x <= y
        <2>1. x \in Nat /\ y \in Nat /\ ~(<<y, x>> \in Less)
            BY <1>1
        <2> QED
            BY <2>1 DEF Less
    <1> QED
        BY <1>2 DEF Min

LEMMA MaxOf ==
    ASSUME NEW n \in Nat, NEW T \in SUBSET (1..n), T # {}
    PROVE  Max(T) \in T /\ \A y \in T : Max(T) >= y
    <1> DEFINE U == {k \in Nat : \A y \in T : y <= k}
    <1>1. n \in U /\ U \in SUBSET Nat
        OBVIOUS
    <1>2. Min(U) \in U /\ \A k \in U : Min(U) <= k
        BY <1>1, MinOf
    <1> DEFINE x == Min(U)
    <1>3. x \in Nat /\ \A y \in T : y <= x
        BY <1>2
    <1>4. \A k \in Nat : (\A y \in T : y <= k) => x <= k
        BY <1>2
    <1> HIDE DEF x
    <1>5. x \in T
        <2> SUFFICES ASSUME x \notin T PROVE FALSE
            OBVIOUS
        <2>1. \A y \in T : y <= x - 1 /\ y >= 1
            BY <1>3
        <2>2. x - 1 \in Nat
            <3>1. PICK y \in T : TRUE
                OBVIOUS
            <3> QED
                BY <1>3, <2>1, <3>1
        <2> QED
            BY <1>3, <1>4, <2>1, <2>2
    <1> QED
        BY <1>3, <1>5 DEF Max

LEMMA SmallestSet ==
    \A B : B # {} /\ (\A b \in B : IsFiniteSet(b)) =>
               \E b \in B : \A c \in B : c \subseteq b => c = b
    <1> SUFFICES ASSUME NEW B, B # {}, \A b \in B : IsFiniteSet(b)
                 PROVE  \E b \in B : \A c \in B : c \subseteq b => c = b
        OBVIOUS
    <1> DEFINE T == {Cardinality(b) : b \in B}
    <1>1. \A b \in B : Cardinality(b) \in Nat
        BY FS_CardinalityType
    <1>2. T \in SUBSET Nat /\ T # {}
        BY <1>1
    <1>3. PICK b \in B : Cardinality(b) = Min(T)
        BY <1>2, MinOf
    <1>4. \A c \in B : Cardinality(b) <= Cardinality(c)
        <2>1. \A y \in T : Min(T) <= y
            BY <1>2, MinOf
        <2>2. \A c \in B : Cardinality(c) \in T
            OBVIOUS
        <2> QED
            BY <1>3, <2>1, <2>2
    <1>5. ASSUME NEW c \in B, c \subseteq b PROVE c = b
        <2>1. Cardinality(c) <= Cardinality(b) /\ (Cardinality(b) = Cardinality(c) => b = c)
            BY <1>5, FS_Subset
        <2> QED
            BY <1>1, <1>4, <2>1
    <1> QED
        BY <1>5

\* What is defined by recursion along a measure exists.
Recurses(S, V, m, N, stop, next, base, step) ==
    /\ m \in [S -> Nat] /\ N \in Nat /\ base \in [S -> V] /\ step \in [S \X V -> V]
    /\ \A x \in S : m[x] < N /\ (x \notin stop => next[x] \in S /\ m[next[x]] < m[x])

IsRecursive(f, S, V, stop, next, base, step) ==
    /\ f \in [S -> V]
    /\ \A x \in S : f[x] = IF x \in stop THEN base[x] ELSE step[<<x, f[next[x]]>>]

LEMMA RecursiveFunction ==
    ASSUME NEW S, NEW V, NEW m, NEW N, NEW stop, NEW next, NEW base, NEW step,
           Recurses(S, V, m, N, stop, next, base, step)
    PROVE  \E f : IsRecursive(f, S, V, stop, next, base, step)
    <1>0. /\ m \in [S -> Nat] /\ N \in Nat /\ base \in [S -> V] /\ step \in [S \X V -> V]
          /\ \A x \in S : m[x] < N /\ (x \notin stop => next[x] \in S /\ m[next[x]] < m[x])
        BY DEF Recurses
    <1> DEFINE D(k) == {x \in S : m[x] < k}
               Solves(f, k) ==
                  /\ f \in [D(k) -> V]
                  /\ \A x \in D(k) : f[x] = IF x \in stop THEN base[x] ELSE step[<<x, f[next[x]]>>]
               Bad == {k \in Nat : ~ \E f : Solves(f, k)}
    <1>1. Bad = {}
        <2> SUFFICES ASSUME Bad # {} PROVE FALSE
            OBVIOUS
        <2>1. PICK k \in Bad : \A j \in Bad : k <= j
            <3>1. Bad \in SUBSET Nat
                OBVIOUS
            <3> QED
                BY <3>1, MinOf
        <2>2. k # 0
            <3>1. D(0) = {}
                BY <1>0
            <3>2. Solves([x \in {} |-> x], 0)
                BY <3>1
            <3> HIDE DEF Solves
            <3> QED
                BY <3>2
        <2>3. k - 1 \in Nat /\ k - 1 \notin Bad
            <3> HIDE DEF Bad
            <3>1. k \in Nat
                BY DEF Bad
            <3>2. k - 1 \in Nat /\ ~(k <= k - 1)
                BY <2>2, <3>1
            <3> QED
                BY <2>1, <3>2
        <2>4. PICK f : Solves(f, k - 1)
            <3> HIDE DEF Solves
            <3> QED
                BY <2>3
        <2> DEFINE g == [x \in D(k) |-> IF x \in stop THEN base[x] ELSE step[<<x, f[next[x]]>>]]
        <2>5. \A x \in D(k) : x \notin stop => next[x] \in D(k - 1) /\ f[next[x]] \in V
            BY <1>0, <2>1, <2>3, <2>4
        <2>6. g \in [D(k) -> V]
            BY <1>0, <2>5
        <2>7. \A y \in D(k - 1) : y \in D(k) /\ g[y] = f[y]
            BY <1>0, <2>1, <2>3, <2>4
        <2>8. Solves(g, k)
            BY <2>5, <2>6, <2>7
        <2> QED
            BY <2>1, <2>8
    <1>2. PICK f : Solves(f, N)
        <2> HIDE DEF Solves
        <2> QED
            BY <1>0, <1>1
    <1>3. D(N) = S
        BY <1>0
    <1> QED
        BY <1>2, <1>3 DEF IsRecursive

-----------------------------------------------------------------------------
(* One pass of Kahn's algorithm *)

\* The steps that may come next.
Free(n, E, P) == {i \in 1..n \ P : \A e \in E : e[2] = i => e[1] \in P}

\* A pass from the placed steps P on: the first free step each time, and none
\* is free at the end.
With(P, s, k) == P \cup {s[j] : j \in 1..k - 1}
OnePass(n, E, P, s) ==
    /\ s \in Seq(1..n)
    /\ \A k \in 1..Len(s) : /\ Free(n, E, With(P, s, k)) # {}
                            /\ s[k] = Min(Free(n, E, With(P, s, k)))
    /\ Free(n, E, With(P, s, Len(s) + 1)) = {}

LEMMA OnePassOn ==
    ASSUME NEW n \in Nat, NEW E, NEW P \in SUBSET (1..n), Free(n, E, P) # {},
           NEW t, OnePass(n, E, P \cup {Min(Free(n, E, P))}, t)
    PROVE  OnePass(n, E, P, <<Min(Free(n, E, P))>> \o t)
    <1> DEFINE x == Min(Free(n, E, P))
               s == <<x>> \o t
    <1>1. x \in 1..n
        <2>1. Free(n, E, P) \in SUBSET Nat /\ Free(n, E, P) \subseteq 1..n
            BY DEF Free
        <2> QED
            BY <2>1, MinOf
    <1> HIDE DEF x
    <1>2. t \in Seq(1..n)
        BY DEF OnePass, x
    <1>3. /\ s \in Seq(1..n) /\ Len(s) = Len(t) + 1 /\ s[1] = x /\ Len(t) \in Nat
          /\ \A k \in 1..Len(t) : s[k + 1] = t[k]
        BY <1>1, <1>2
    <1>0. \A k \in 1..Len(s) : k # 1 => k - 1 \in 1..Len(t) /\ s[k] = t[k - 1]
        BY <1>1, <1>2
    <1> HIDE DEF s
    <1>4. With(P, s, 1) = P
        BY DEF With
    <1>5. \A k \in 1..Len(t) + 1 : With(P, s, k + 1) = With(P \cup {x}, t, k)
        <2> SUFFICES ASSUME NEW k \in 1..Len(t) + 1
                     PROVE  With(P, s, k + 1) = With(P \cup {x}, t, k)
            OBVIOUS
        <2>0. k \in Nat /\ k <= Len(s)
            BY <1>3
        <2>1. ASSUME NEW y \in With(P, s, k + 1) PROVE y \in With(P \cup {x}, t, k)
            <3>1. CASE y \in P
                BY <3>1 DEF With
            <3>2. CASE y \notin P
                <4>1. PICK j \in 1..k : y = s[j]
                    BY <1>3, <3>2 DEF With
                <4>2. CASE j = 1
                    BY <1>3, <4>1, <4>2 DEF With
                <4>3. CASE j # 1
                    <5>1. j \in 1..Len(s) /\ j - 1 \in 1..k - 1
                        BY <1>3, <2>0, <4>3
                    <5>2. y = t[j - 1]
                        BY <1>0, <4>1, <4>3, <5>1
                    <5> QED
                        BY <5>1, <5>2 DEF With
                <4> QED
                    BY <4>2, <4>3
            <3> QED
                BY <3>1, <3>2
        <2>2. ASSUME NEW y \in With(P \cup {x}, t, k) PROVE y \in With(P, s, k + 1)
            <3>1. CASE y \in P
                BY <3>1 DEF With
            <3>2. CASE y = x
                <4>1. 1 \in 1..(k + 1) - 1
                    BY <1>3
                <4> QED
                    BY <1>3, <3>2, <4>1 DEF With
            <3>3. CASE y \notin P \cup {x}
                <4>1. PICK j \in 1..k - 1 : y = t[j]
                    BY <3>3 DEF With
                <4>2. j + 1 \in 1..(k + 1) - 1 /\ y = s[j + 1]
                    BY <1>3, <4>1
                <4> QED
                    BY <4>2 DEF With
            <3> QED
                BY <3>1, <3>2, <3>3
        <2> QED
            BY <2>1, <2>2
    <1>6. ASSUME NEW k \in 1..Len(s)
          PROVE  /\ Free(n, E, With(P, s, k)) # {}
                 /\ s[k] = Min(Free(n, E, With(P, s, k)))
        <2>1. CASE k = 1
            BY <1>3, <1>4, <2>1 DEF x
        <2>2. CASE k # 1
            <3> DEFINE j == k - 1
            <3>1. j \in 1..Len(t) /\ k = j + 1 /\ s[k] = t[j] /\ j \in 1..Len(t) + 1
                BY <1>0, <1>3, <2>2
            <3> HIDE DEF j
            <3>2. With(P, s, j + 1) = With(P \cup {x}, t, j)
                BY <1>5, <3>1
            <3> QED
                BY <3>1, <3>2 DEF OnePass, x
        <2> QED
            BY <2>1, <2>2
    <1>7. Free(n, E, With(P, s, Len(s) + 1)) = {}
        <2> DEFINE j == Len(t) + 1
        <2>1. j \in 1..Len(t) + 1 /\ Len(s) = j
            BY <1>3
        <2> HIDE DEF j
        <2>2. With(P, s, Len(s) + 1) = With(P \cup {x}, t, j)
            BY <1>5, <2>1
        <2> QED
            BY <2>2 DEF OnePass, x, j
    <1>8. OnePass(n, E, P, s)
        BY <1>3, <1>6, <1>7 DEF OnePass
    <1> QED
        BY <1>8 DEF s, x

\* What is left gets less.
LEMMA Rest ==
    ASSUME NEW n \in Nat, NEW P \in SUBSET (1..n)
    PROVE  /\ IsFiniteSet(1..n \ P) /\ Cardinality(1..n \ P) \in Nat
           /\ Cardinality(1..n \ P) < n + 1
           /\ \A x \in 1..n \ P : Cardinality(1..n \ (P \cup {x})) < Cardinality(1..n \ P)
    <1> DEFINE R == 1..n \ P
    <1>1. IsFiniteSet(1..n) /\ Cardinality(1..n) = n
        BY FS_Interval
    <1>2. R \in SUBSET (1..n)
        OBVIOUS
    <1>3. IsFiniteSet(R) /\ Cardinality(R) <= Cardinality(1..n)
        BY <1>1, <1>2, FS_Subset
    <1>4. Cardinality(R) \in Nat
        BY <1>3, FS_CardinalityType
    <1>5. ASSUME NEW x \in R PROVE Cardinality(1..n \ (P \cup {x})) < Cardinality(R)
        <2>1. 1..n \ (P \cup {x}) = R \ {x}
            OBVIOUS
        <2> HIDE DEF R
        <2>2. Cardinality(R \ {x}) = Cardinality(R) - 1
            BY <1>3, FS_RemoveElement
        <2> QED
            BY <1>4, <2>1, <2>2
    <1> HIDE DEF R
    <1>6. Cardinality(R) < n + 1
        BY <1>1, <1>3, <1>4
    <1> QED
        BY <1>3, <1>4, <1>5, <1>6 DEF R

LEMMA KahnPasses ==
    ASSUME NEW n \in Nat, NEW E
    PROVE  OnePass(n, E, {}, RunKahn(n, E))
    <1> DEFINE S == SUBSET (1..n)
               x(P) == Min(Free(n, E, P))
               Solves(p) == p = [placed \in S |->
                   IF Free(n, E, placed) = {} THEN <<>> ELSE <<x(placed)>> \o p[placed \cup {x(placed)}]]
               pass == CHOOSE p : Solves(p)
    <1>1. RunKahn(n, E) = pass[{}]
        BY Zenon DEF RunKahn, Free
    <1>2. ASSUME NEW P \in S, Free(n, E, P) # {}
          PROVE  x(P) \in 1..n \ P
        <2>1. Free(n, E, P) \in SUBSET Nat /\ Free(n, E, P) \subseteq 1..n \ P
            BY DEF Free
        <2> QED
            BY <1>2, <2>1, MinOf
    <1>3. \E p : Solves(p)
        <2> DEFINE m == [P \in S |-> Cardinality(1..n \ P)]
                   stop == {P \in S : Free(n, E, P) = {}}
                   next == [P \in S |-> P \cup {x(P)}]
                   base == [P \in S |-> <<>>]
                   step == [q \in S \X Seq(1..n) |-> IF q[1] \in stop THEN <<>> ELSE <<x(q[1])>> \o q[2]]
        <2>1. \A P \in S : Cardinality(1..n \ P) \in Nat /\ Cardinality(1..n \ P) < n + 1
            BY Rest
        <2>2. m \in [S -> Nat] /\ n + 1 \in Nat /\ \A P \in S : m[P] < n + 1
            <3> HIDE DEF S
            <3> QED
                BY <2>1
        <2>3. \A P \in S : P \notin stop => next[P] \in S /\ m[next[P]] < m[P]
            <3> SUFFICES ASSUME NEW P \in S, P \notin stop
                         PROVE  next[P] \in S /\ m[next[P]] < m[P]
                OBVIOUS
            <3>1. x(P) \in 1..n \ P
                BY <1>2
            <3>2. next[P] \in S /\ next[P] = P \cup {x(P)}
                BY <3>1
            <3>3. Cardinality(1..n \ (P \cup {x(P)})) < Cardinality(1..n \ P)
                BY <3>1, Rest
            <3> HIDE DEF S, x, next, stop
            <3>4. m[next[P]] = Cardinality(1..n \ (P \cup {x(P)})) /\ m[P] = Cardinality(1..n \ P)
                BY <3>2
            <3> QED
                BY <3>2, <3>3, <3>4
        <2>4. base \in [S -> Seq(1..n)]
            OBVIOUS
        <2>5. step \in [S \X Seq(1..n) -> Seq(1..n)]
            <3>1. ASSUME NEW q \in S \X Seq(1..n)
                  PROVE  (IF q[1] \in stop THEN <<>> ELSE <<x(q[1])>> \o q[2]) \in Seq(1..n)
                <4>1. q[1] \in S /\ q[2] \in Seq(1..n)
                    OBVIOUS
                <4>2. q[1] \notin stop => x(q[1]) \in 1..n
                    BY <1>2, <4>1
                <4> DEFINE y == x(q[1])
                           t == q[2]
                <4> HIDE DEF x, stop, y, t
                <4>3. CASE q[1] \in stop
                    BY <4>3
                <4>4. CASE q[1] \notin stop
                    <5>1. y \in 1..n /\ t \in Seq(1..n)
                        BY <4>1, <4>2, <4>4 DEF y, t
                    <5>2. <<y>> \o t \in Seq(1..n)
                        BY <5>1
                    <5> QED
                        BY <4>4, <5>2 DEF y, t
                <4> QED
                    BY <4>3, <4>4
            <3> HIDE DEF x, stop, S
            <3> QED
                BY <3>1
        <2> HIDE DEF m, stop, next, base, step, S
        <2>6. PICK f : /\ f \in [S -> Seq(1..n)]
                       /\ \A P \in S : f[P] = IF P \in stop THEN base[P] ELSE step[<<P, f[next[P]]>>]
            <3>1. \A P \in S : m[P] < n + 1 /\ (P \notin stop => next[P] \in S /\ m[next[P]] < m[P])
                BY <2>2, <2>3
            <3>2. Recurses(S, Seq(1..n), m, n + 1, stop, next, base, step)
                BY <2>2, <2>4, <2>5, <3>1, Zenon DEF Recurses
            <3>3. \E f : IsRecursive(f, S, Seq(1..n), stop, next, base, step)
                BY <3>2, RecursiveFunction, Zenon
            <3> QED
                BY <3>3, Zenon DEF IsRecursive
        <2>7. ASSUME NEW P \in S
              PROVE  f[P] = IF Free(n, E, P) = {} THEN <<>> ELSE <<x(P)>> \o f[P \cup {x(P)}]
            <3>1. CASE P \in stop
                BY <2>6, <3>1 DEF stop, base
            <3>2. CASE P \notin stop
                <4>1. next[P] \in S /\ next[P] = P \cup {x(P)}
                    BY <2>3, <3>2 DEF next
                <4>2. <<P, f[next[P]]>> \in S \X Seq(1..n)
                    BY <2>6, <4>1
                <4>3. step[<<P, f[next[P]]>>] = <<x(P)>> \o f[next[P]]
                    BY <3>2, <4>2 DEF step
                <4> QED
                    BY <2>6, <3>2, <4>1, <4>3 DEF stop
            <3> QED
                BY <3>1, <3>2
        <2>8. Solves(f)
            <3>1. f \in [S -> Seq(1..n)]
                BY <2>6
            <3> HIDE DEF x
            <3> QED
                BY <2>7, <3>1
        <2> QED
            BY <2>8
    <1>4. Solves(pass)
        BY <1>3, Zenon
    <1>5. ASSUME NEW P \in S
          PROVE  pass[P] = IF Free(n, E, P) = {} THEN <<>> ELSE <<x(P)>> \o pass[P \cup {x(P)}]
        BY <1>4, Zenon
    <1> HIDE DEF pass, x
    <1> DEFINE Bad == {P \in S : ~OnePass(n, E, P, pass[P])}
    <1>6. Bad = {}
        <2> SUFFICES ASSUME Bad # {} PROVE FALSE
            OBVIOUS
        <2> DEFINE B == {1..n \ P : P \in Bad}
        <2>1. \A b \in B : IsFiniteSet(b)
            BY Rest
        <2>2. PICK b \in B : \A c \in B : c \subseteq b => c = b
            <3>1. B # {}
                OBVIOUS
            <3> HIDE DEF B
            <3> QED
                BY <2>1, <3>1, SmallestSet
        <2>3. PICK P \in Bad : b = 1..n \ P
            OBVIOUS
        <2>4. CASE Free(n, E, P) = {}
            <3>1. pass[P] = <<>>
                BY <1>5, <2>4
            <3>2. OnePass(n, E, P, <<>>)
                <4>1. With(P, <<>>, Len(<<>>) + 1) = P
                    BY DEF With
                <4> QED
                    BY <2>4, <4>1 DEF OnePass
            <3> QED
                BY <3>1, <3>2
        <2>5. CASE Free(n, E, P) # {}
            <3> DEFINE Q == P \cup {x(P)}
            <3>1. x(P) \in 1..n \ P
                BY <1>2, <2>5 DEF x
            <3>2. Q \in S /\ 1..n \ Q \subseteq b /\ 1..n \ Q # b
                BY <2>3, <3>1
            <3>3. Q \notin Bad
                BY <2>2, <3>2
            <3>4. OnePass(n, E, Q, pass[Q])
                BY <3>2, <3>3
            <3>5. pass[P] = <<x(P)>> \o pass[Q]
                BY <1>5, <2>5
            <3>6. OnePass(n, E, P, <<x(P)>> \o pass[Q])
                BY <2>5, <3>4, OnePassOn DEF x
            <3> QED
                BY <3>5, <3>6
        <2> QED
            BY <2>4, <2>5
    <1>7. {} \in S
        OBVIOUS
    <1> QED
        BY <1>1, <1>6, <1>7

LEMMA PassFacts ==
    ASSUME NEW n \in Nat, NEW E
    PROVE  LET s == RunKahn(n, E) IN
           /\ s \in Seq(1..n) /\ ToSet(s) \subseteq 1..n /\ Free(n, E, ToSet(s)) = {}
           /\ ToSet(s) = With({}, s, Len(s) + 1)
           /\ \A k \in 1..Len(s) : /\ s[k] \in Free(n, E, With({}, s, k))
                                   /\ \A i \in Free(n, E, With({}, s, k)) : s[k] <= i
    <1> DEFINE s == RunKahn(n, E)
    <1>1. OnePass(n, E, {}, s)
        BY KahnPasses
    <1> HIDE DEF s
    <1>2. s \in Seq(1..n)
        BY <1>1 DEF OnePass
    <1>3. ToSet(s) \subseteq 1..n
        BY <1>2 DEF ToSet
    <1>4. ToSet(s) = With({}, s, Len(s) + 1)
        <2>1. Len(s) \in Nat /\ DOMAIN s = 1..Len(s) /\ (Len(s) + 1) - 1 = Len(s)
            BY <1>2
        <2> QED
            BY <2>1 DEF ToSet, With
    <1>5. \A k \in 1..Len(s) : /\ s[k] \in Free(n, E, With({}, s, k))
                               /\ \A i \in Free(n, E, With({}, s, k)) : s[k] <= i
        <2> SUFFICES ASSUME NEW k \in 1..Len(s)
                     PROVE  /\ s[k] \in Free(n, E, With({}, s, k))
                            /\ \A i \in Free(n, E, With({}, s, k)) : s[k] <= i
            OBVIOUS
        <2> DEFINE T == Free(n, E, With({}, s, k))
        <2>1. T \in SUBSET Nat
            BY DEF Free
        <2>2. T # {} /\ s[k] = Min(T)
            BY <1>1 DEF OnePass
        <2> HIDE DEF T
        <2>3. s[k] \in T /\ \A i \in T : s[k] <= i
            BY <2>1, <2>2, MinOf
        <2> QED
            BY <2>3 DEF T
    <1>6. Free(n, E, ToSet(s)) = {}
        BY <1>1, <1>4 DEF OnePass
    <1> QED
        BY <1>2, <1>3, <1>4, <1>5, <1>6 DEF s

\* No step is placed twice, and none before its predecessors.
LEMMA PassOrder ==
    ASSUME NEW n \in Nat, NEW E
    PROVE  LET s == RunKahn(n, E) IN
           /\ \A j, k \in 1..Len(s) : s[j] = s[k] => j = k
           /\ \A e \in E : \A k \in 1..Len(s) : s[k] = e[2] => \E j \in 1..k - 1 : s[j] = e[1]
    <1> DEFINE s == RunKahn(n, E)
    <1>1. \A k \in 1..Len(s) : s[k] \in Free(n, E, With({}, s, k))
        BY PassFacts
    <1>2. Len(s) \in Nat
        <2>1. s \in Seq(1..n)
            BY PassFacts
        <2> HIDE DEF s
        <2> QED
            BY <2>1
    <1> HIDE DEF s
    <1>3. \A j, k \in 1..Len(s) : j < k => s[j] # s[k]
        <2> SUFFICES ASSUME NEW j \in 1..Len(s), NEW k \in 1..Len(s), j < k, s[j] = s[k]
                     PROVE  FALSE
            OBVIOUS
        <2>1. s[k] \notin With({}, s, k)
            BY <1>1 DEF Free
        <2>2. j \in 1..k - 1
            BY <1>2
        <2> QED
            BY <2>1, <2>2 DEF With
    <1>4. \A j, k \in 1..Len(s) : s[j] = s[k] => j = k
        BY <1>2, <1>3
    <1>5. ASSUME NEW e \in E, NEW k \in 1..Len(s), s[k] = e[2]
          PROVE  \E j \in 1..k - 1 : s[j] = e[1]
        BY <1>1, <1>5 DEF Free, With
    <1> QED
        BY <1>4, <1>5 DEF s

-----------------------------------------------------------------------------
(* OnePass until every step is placed, an edge less each time *)

Left(n, E) == 1..n \ ToSet(RunKahn(n, E))
Dropped(n, E) == <<Min({f \in Left(n, E) : <<f, Max(Left(n, E))>> \in E}), Max(Left(n, E))>>

\* The order comes of the edges that were not dropped, one for each warning.
Sorts(n, E, out) ==
    /\ out \in [order : Seq(1..n), warnings : Nat]
    /\ \E F \in SUBSET E : /\ out.order = RunKahn(n, F) /\ Left(n, F) = {}
                           /\ out.warnings = Cardinality(E \ F)
    /\ Left(n, E) = {} => out.warnings = 0

LEMMA DroppedEdge ==
    ASSUME NEW n \in Nat, NEW E \in SUBSET ((1..n) \X (1..n)), Left(n, E) # {}
    PROVE  Dropped(n, E) \in E
    <1> DEFINE P == ToSet(RunKahn(n, E))
               L == Left(n, E)
               x == Max(L)
               T == {f \in L : <<f, x>> \in E}
    <1>1. Free(n, E, P) = {} /\ L = 1..n \ P
        BY PassFacts DEF Left
    <1> HIDE DEF P, L
    <1>2. x \in L
        BY <1>1, MaxOf DEF L
    <1>3. PICK e \in E : e[2] = x /\ e[1] \notin P
        BY <1>1, <1>2 DEF Free
    <1>4. e[1] \in T
        <2>1. e = <<e[1], e[2]>> /\ e[1] \in 1..n
            OBVIOUS
        <2> QED
            BY <1>1, <1>3, <2>1
    <1>5. Min(T) \in T
        <2>1. T \subseteq L /\ L \subseteq Nat
            BY <1>1
        <2> HIDE DEF T
        <2>2. T \in SUBSET Nat /\ T # {}
            BY <1>4, <2>1
        <2> QED
            BY <2>2, MinOf
    <1> QED
        BY <1>5 DEF Dropped, L

LEMMA SortsOn ==
    ASSUME NEW n \in Nat, NEW E \in SUBSET ((1..n) \X (1..n)), IsFiniteSet(E), Left(n, E) # {},
           NEW out, Sorts(n, E \ {Dropped(n, E)}, out)
    PROVE  Sorts(n, E, [out EXCEPT !.warnings = @ + 1])
    <1> DEFINE d == Dropped(n, E)
               D == E \ {d}
    <1>1. d \in E
        BY DroppedEdge
    <1>2. PICK F \in SUBSET D : /\ out.order = RunKahn(n, F) /\ Left(n, F) = {}
                                /\ out.warnings = Cardinality(D \ F)
        BY DEF Sorts
    <1>3. out \in [order : Seq(1..n), warnings : Nat]
        BY DEF Sorts
    <1> DEFINE w == out.warnings + 1
    <1>4. w \in Nat
        BY <1>3
    <1> HIDE DEF d, w
    <1>5. F \in SUBSET E /\ E \ F = (D \ F) \cup {d} /\ d \notin D \ F
        BY <1>1
    <1>6. IsFiniteSet(D \ F)
        BY FS_Subset
    <1> HIDE DEF D
    <1>7. Cardinality(E \ F) = w
        BY <1>2, <1>5, <1>6, FS_AddElement DEF w
    <1>8. [out EXCEPT !.warnings = @ + 1] = [out EXCEPT !.warnings = w]
        BY DEF w
    <1>9. /\ [out EXCEPT !.warnings = w] \in [order : Seq(1..n), warnings : Nat]
          /\ [out EXCEPT !.warnings = w].order = out.order
          /\ [out EXCEPT !.warnings = w].warnings = w
        BY <1>3, <1>4
    <1> QED
        BY <1>2, <1>5, <1>7, <1>8, <1>9, Zenon DEF Sorts

LEMMA KahnSorts ==
    ASSUME NEW n \in Nat, NEW edges \in SUBSET ((1..n) \X (1..n))
    PROVE  Sorts(n, edges, KahnSort(n, edges))
    <1> DEFINE S == SUBSET edges
               V == [order : Seq(1..n), warnings : Nat]
               done(E) == [order |-> RunKahn(n, E), warnings |-> 0]
               Solves(p) == p = [E \in S |->
                   IF Left(n, E) = {} THEN done(E)
                   ELSE [p[E \ {Dropped(n, E)}] EXCEPT !.warnings = @ + 1]]
               sort == CHOOSE p : Solves(p)
    <1>1. KahnSort(n, edges) = sort[edges]
        BY Zenon DEF KahnSort, Left, Dropped
    <1>2. \A E \in S : /\ E \in SUBSET ((1..n) \X (1..n)) /\ IsFiniteSet(E)
                       /\ Cardinality(E) \in Nat /\ Cardinality(E) <= Cardinality(edges)
        <2>0. IsFiniteSet(1..n)
            BY FS_Interval
        <2>1. IsFiniteSet((1..n) \X (1..n))
            BY <2>0, FS_Product
        <2>2. IsFiniteSet(edges)
            BY <2>1, FS_Subset
        <2>3. \A E \in S : IsFiniteSet(E) /\ Cardinality(E) <= Cardinality(edges)
            BY <2>2, FS_Subset
        <2> QED
            BY <2>3, FS_CardinalityType
    <1>3. \A E \in S : Left(n, E) # {} => Dropped(n, E) \in E
        BY <1>2, DroppedEdge
    <1>4. \A E \in S : done(E) \in V
        BY PassFacts
    <1>5. \A o \in V : [o EXCEPT !.warnings = @ + 1] \in V
        OBVIOUS
    <1>6. \E p : Solves(p)
        <2> DEFINE m == [E \in S |-> Cardinality(E)]
                   N == Cardinality(edges) + 1
                   stop == {E \in S : Left(n, E) = {}}
                   next == [E \in S |-> E \ {Dropped(n, E)}]
                   base == [E \in S |-> done(E)]
                   step == [q \in S \X V |-> [q[2] EXCEPT !.warnings = @ + 1]]
        <2> HIDE DEF S, V
        <2>1. m \in [S -> Nat] /\ N \in Nat /\ \A E \in S : m[E] < N
            <3>1. Cardinality(edges) \in Nat
                <4>1. edges \in S
                    BY DEF S
                <4> QED
                    BY <1>2, <4>1
            <3> QED
                BY <1>2, <3>1
        <2>2. \A E \in S : E \notin stop => next[E] \in S /\ m[next[E]] < m[E]
            <3> SUFFICES ASSUME NEW E \in S, E \notin stop
                         PROVE  next[E] \in S /\ m[next[E]] < m[E]
                OBVIOUS
            <3>1. Dropped(n, E) \in E /\ IsFiniteSet(E) /\ Cardinality(E) \in Nat
                BY <1>2, <1>3
            <3>2. Cardinality(E \ {Dropped(n, E)}) = Cardinality(E) - 1
                BY <3>1, FS_RemoveElement
            <3>3. next[E] = E \ {Dropped(n, E)} /\ next[E] \in S
                BY DEF S
            <3>4. m[next[E]] = Cardinality(E \ {Dropped(n, E)}) /\ m[E] = Cardinality(E)
                <4> HIDE DEF next
                <4> QED
                    BY <3>3
            <3> QED
                BY <3>1, <3>2, <3>3, <3>4
        <2>3. base \in [S -> V]
            BY <1>4
        <2>4. step \in [S \X V -> V]
            BY <1>5
        <2> HIDE DEF m, N, stop, next, base, step
        <2>5. PICK f : /\ f \in [S -> V]
                       /\ \A E \in S : f[E] = IF E \in stop THEN base[E] ELSE step[<<E, f[next[E]]>>]
            <3>1. \A E \in S : m[E] < N /\ (E \notin stop => next[E] \in S /\ m[next[E]] < m[E])
                BY <2>1, <2>2
            <3>2. Recurses(S, V, m, N, stop, next, base, step)
                BY <2>1, <2>3, <2>4, <3>1, Zenon DEF Recurses
            <3>3. \E f : IsRecursive(f, S, V, stop, next, base, step)
                BY <3>2, RecursiveFunction, Zenon
            <3> QED
                BY <3>3, Zenon DEF IsRecursive
        <2>6. ASSUME NEW E \in S
              PROVE  f[E] = IF Left(n, E) = {} THEN done(E)
                            ELSE [f[E \ {Dropped(n, E)}] EXCEPT !.warnings = @ + 1]
            <3>1. CASE E \in stop
                BY <2>5, <3>1 DEF stop, base
            <3>2. CASE E \notin stop
                <4>1. next[E] \in S /\ next[E] = E \ {Dropped(n, E)}
                    BY <2>2, <3>2 DEF next
                <4>2. <<E, f[next[E]]>> \in S \X V
                    BY <2>5, <4>1
                <4>3. step[<<E, f[next[E]]>>] = [f[next[E]] EXCEPT !.warnings = @ + 1]
                    BY <4>2 DEF step
                <4> QED
                    BY <2>5, <3>2, <4>1, <4>3, Zenon DEF stop
            <3> QED
                BY <3>1, <3>2
        <2>7. Solves(f)
            <3>1. f \in [S -> V]
                BY <2>5
            <3> QED
                BY <2>6, <3>1
        <2> QED
            BY <2>7
    <1>7. Solves(sort)
        BY <1>6, Zenon
    <1>8. ASSUME NEW E \in S
          PROVE  sort[E] = IF Left(n, E) = {} THEN done(E)
                           ELSE [sort[E \ {Dropped(n, E)}] EXCEPT !.warnings = @ + 1]
        BY <1>7, Zenon
    <1> HIDE DEF sort
    <1> DEFINE Bad == {E \in S : ~Sorts(n, E, sort[E])}
    <1>9. Bad = {}
        <2> SUFFICES ASSUME Bad # {} PROVE FALSE
            OBVIOUS
        <2>1. PICK E \in Bad : \A D \in Bad : D \subseteq E => D = E
            <3>1. \A b \in Bad : IsFiniteSet(b)
                BY <1>2
            <3> HIDE DEF Bad
            <3> QED
                BY <3>1, SmallestSet
        <2>2. CASE Left(n, E) = {}
            <3>1. E \ E = {} /\ Cardinality(E \ E) = 0
                BY FS_EmptySet
            <3>2. /\ done(E) \in V /\ done(E).order = RunKahn(n, E)
                  /\ done(E).warnings = Cardinality(E \ E) /\ done(E).warnings = 0
                BY <1>4, <3>1
            <3>3. Sorts(n, E, done(E))
                BY <2>2, <3>2, Zenon DEF Sorts
            <3>4. sort[E] = done(E)
                BY <1>8, <2>2
            <3> QED
                BY <3>3, <3>4
        <2>3. CASE Left(n, E) # {}
            <3> DEFINE D == E \ {Dropped(n, E)}
            <3>1. D \in S /\ D \subseteq E /\ D # E
                BY <1>3, <2>3
            <3>2. Sorts(n, D, sort[D])
                BY <2>1, <3>1
            <3>3. E \in SUBSET ((1..n) \X (1..n)) /\ IsFiniteSet(E)
                BY <1>2
            <3>4. Sorts(n, E, [sort[D] EXCEPT !.warnings = @ + 1])
                BY <2>3, <3>2, <3>3, SortsOn
            <3>5. sort[E] = [sort[D] EXCEPT !.warnings = @ + 1]
                BY <1>8, <2>3
            <3> QED
                BY <3>4, <3>5
        <2> QED
            BY <2>2, <2>3
    <1> QED
        BY <1>1, <1>9

-----------------------------------------------------------------------------
(* The order as positions *)

\* When nothing is left, every step has one place.
LEMMA PlacesAll ==
    ASSUME NEW n \in Nat, NEW E, Left(n, E) = {}
    PROVE  LET s == RunKahn(n, E) IN
           /\ Len(s) = n /\ ToSet(s) = 1..n
           /\ \A i \in 1..n : Position(s, i) \in 1..n /\ s[Position(s, i)] = i
           /\ \A k \in 1..n : Position(s, s[k]) = k
    <1> DEFINE s == RunKahn(n, E)
    <1>1. s \in Seq(1..n) /\ ToSet(s) = 1..n
        BY PassFacts DEF Left
    <1>2. \A j, k \in 1..Len(s) : s[j] = s[k] => j = k
        BY PassOrder
    <1> HIDE DEF s
    <1>3. /\ Len(s) \in Nat /\ DOMAIN s = 1..Len(s)
          /\ \A k \in 1..Len(s) : s[k] \in 1..n
        BY <1>1
    <1>4. \A i \in 1..n : \E k \in 1..Len(s) : s[k] = i
        BY <1>1, <1>3 DEF ToSet
    <1>5. Len(s) = n
        <2> DEFINE f == [k \in 1..Len(s) |-> s[k]]
        <2>1. f \in Injection(1..Len(s), 1..n) /\ f \in Surjection(1..Len(s), 1..n)
            BY <1>2, <1>3, <1>4 DEF Injection, Surjection, IsInjective
        <2>2. ExistsBijection(1..Len(s), 1..n)
            BY <2>1, Zenon DEF ExistsBijection, Bijection
        <2>3. \A l \in Nat : IsFiniteSet(1..l) /\ Cardinality(1..l) = l
            BY FS_Interval
        <2> QED
            BY <1>3, <2>2, <2>3, FS_Bijection
    <1>6. ASSUME NEW i \in 1..n
          PROVE  Position(s, i) \in 1..n /\ s[Position(s, i)] = i
        BY <1>3, <1>4, <1>5 DEF Position
    <1>7. ASSUME NEW k \in 1..n PROVE Position(s, s[k]) = k
        <2>1. s[k] \in 1..n
            BY <1>3, <1>5
        <2> QED
            BY <1>2, <1>5, <1>6, <2>1
    <1> QED
        BY <1>1, <1>5, <1>6, <1>7 DEF s

-----------------------------------------------------------------------------
(* The closure is the least transitive relation with the dependencies *)

Transitive(R) == \A p, q \in R : p[2] = q[1] => <<p[1], q[2]>> \in R

\* The pairs that have a path whose inner steps are k at most.
Through(k, R, n) == R \cup {p \in (1..n) \X (1..n) : <<p[1], k>> \in R /\ <<k, p[2]>> \in R}

LEMMA ClosureSteps ==
    ASSUME NEW n \in Nat, NEW E \in SUBSET ((1..n) \X (1..n))
    PROVE  \E via \in [0..n -> SUBSET ((1..n) \X (1..n))] :
              /\ via[0] = E /\ \A k \in 1..n : via[k] = Through(k, via[k - 1], n)
              /\ Closure(E, n) = via[n]
    <1> DEFINE S == 0..n
               V == SUBSET ((1..n) \X (1..n))
               Solves(v) == v = [k \in S |-> IF k = 0 THEN E ELSE Through(k, v[k - 1], n)]
               via == CHOOSE v : Solves(v)
    <1>1. Closure(E, n) = via[n]
        BY Zenon DEF Closure, Through
    <1>2. \A k, R : R \in V => Through(k, R, n) \in V
        BY DEF Through
    <1>3. \E v : Solves(v)
        <2> DEFINE m == [k \in S |-> k]
                   stop == {0}
                   next == [k \in S |-> k - 1]
                   base == [k \in S |-> E]
                   step == [q \in S \X V |-> Through(q[1], q[2], n)]
        <2>1. m \in [S -> Nat] /\ n + 1 \in Nat /\ base \in [S -> V]
            OBVIOUS
        <2>2. \A k \in S : m[k] < n + 1 /\ (k \notin stop => next[k] \in S /\ m[next[k]] < m[k])
            OBVIOUS
        <2>3. step \in [S \X V -> V]
            <3>1. \A q \in S \X V : Through(q[1], q[2], n) \in V
                <4> HIDE DEF S, V
                <4> QED
                    BY <1>2
            <3> HIDE DEF S, V
            <3> QED
                BY <3>1
        <2> HIDE DEF m, stop, next, base, step, S, V
        <2>4. Recurses(S, V, m, n + 1, stop, next, base, step)
            BY <2>1, <2>2, <2>3, Zenon DEF Recurses
        <2>5. \E f : IsRecursive(f, S, V, stop, next, base, step)
            BY <2>4, RecursiveFunction, Zenon
        <2>6. PICK f : IsRecursive(f, S, V, stop, next, base, step)
            BY <2>5, Zenon
        <2>7. f \in [S -> V]
            BY <2>6 DEF IsRecursive
        <2>8. ASSUME NEW k \in S PROVE f[k] = IF k = 0 THEN E ELSE Through(k, f[k - 1], n)
            <3>1. CASE k = 0
                BY <2>6, <3>1 DEF IsRecursive, stop, base
            <3>2. CASE k # 0
                <4>1. next[k] \in S /\ next[k] = k - 1
                    BY <2>2, <3>2 DEF next, stop
                <4>2. <<k, f[k - 1]>> \in S \X V
                    BY <2>7, <4>1
                <4>3. step[<<k, f[k - 1]>>] = Through(k, f[k - 1], n)
                    BY <4>2 DEF step
                <4>4. f[k] = step[<<k, f[k - 1]>>]
                    BY <2>6, <3>2, <4>1 DEF IsRecursive, stop
                <4> QED
                    BY <3>2, <4>3, <4>4
            <3> QED
                BY <3>1, <3>2
        <2>9. Solves(f)
            BY <2>7, <2>8
        <2> QED
            BY <2>9
    <1>4. Solves(via)
        BY <1>3, Zenon
    <1>5. ASSUME NEW k \in S PROVE via[k] = IF k = 0 THEN E ELSE Through(k, via[k - 1], n)
        BY <1>4, Zenon
    <1>6. DOMAIN via = S
        BY <1>4, Zenon
    <1> HIDE DEF via
    <1> DEFINE Bad == {k \in S : via[k] \notin V}
    <1>7. Bad = {}
        <2> SUFFICES ASSUME Bad # {} PROVE FALSE
            OBVIOUS
        <2>1. PICK k \in Bad : \A j \in Bad : k <= j
            <3>1. Bad \in SUBSET Nat
                OBVIOUS
            <3> QED
                BY <3>1, MinOf
        <2>2. CASE k = 0
            BY <1>5, <2>1, <2>2
        <2>3. CASE k # 0
            <3>1. k - 1 \in S /\ k - 1 \notin Bad
                BY <2>1, <2>3
            <3>2. via[k - 1] \in V
                BY <3>1
            <3>3. via[k] = Through(k, via[k - 1], n)
                BY <1>5, <2>3
            <3> HIDE DEF V
            <3> QED
                BY <1>2, <3>2, <3>3
        <2> QED
            BY <2>2, <2>3
    <1>8. via = [k \in S |-> via[k]]
        BY <1>4, Zenon DEF via
    <1>9. via \in [S -> V]
        BY <1>7, <1>8
    <1>10. via[0] = E /\ \A k \in 1..n : via[k] = Through(k, via[k - 1], n)
        BY <1>5
    <1> QED
        BY <1>1, <1>9, <1>10

LEMMA ClosureFacts ==
    ASSUME NEW n \in Nat, NEW E \in SUBSET ((1..n) \X (1..n))
    PROVE  LET C == Closure(E, n) IN
           /\ C \in SUBSET ((1..n) \X (1..n)) /\ E \subseteq C /\ Transitive(C)
           /\ \A R : E \subseteq R /\ Transitive(R) => C \subseteq R
    <1> DEFINE N == (1..n) \X (1..n)
               Closed(k, W) == \A j \in 1..k : \A p, q \in W : p[2] = j /\ q[1] = j => <<p[1], q[2]>> \in W
    <1>1. PICK via \in [0..n -> SUBSET N] :
              /\ via[0] = E /\ \A k \in 1..n : via[k] = Through(k, via[k - 1], n)
              /\ Closure(E, n) = via[n]
        BY ClosureSteps
    <1>2. ASSUME NEW k \in 1..n, NEW W \in SUBSET N, Closed(k - 1, W)
          PROVE  Closed(k, Through(k, W, n))
        <2> DEFINE X == Through(k, W, n)
        <2> SUFFICES ASSUME NEW j \in 1..k, NEW p \in X, NEW q \in X, p[2] = j, q[1] = j
                     PROVE  <<p[1], q[2]>> \in X
            OBVIOUS
        <2>0. W \subseteq X /\ X \subseteq N
            BY DEF Through
        <2>1. p \in W \/ (<<p[1], k>> \in W /\ <<k, j>> \in W)
            BY DEF Through
        <2>2. q \in W \/ (<<j, k>> \in W /\ <<k, q[2]>> \in W)
            BY DEF Through
        <2>3. p = <<p[1], j>> /\ q = <<j, q[2]>> /\ <<p[1], q[2]>> \in N
            BY <2>0
        <2>4. <<p[1], j>> \in W \/ (<<p[1], k>> \in W /\ <<k, j>> \in W)
            BY <2>1, <2>3
        <2>5. <<j, q[2]>> \in W \/ (<<j, k>> \in W /\ <<k, q[2]>> \in W)
            BY <2>2, <2>3
        <2>6. ASSUME NEW a, NEW b, <<a, b>> \in N, <<a, k>> \in W, <<k, b>> \in W
              PROVE  <<a, b>> \in X
            BY <2>6 DEF Through
        <2>7. \A a, b : j # k /\ <<a, j>> \in W /\ <<j, b>> \in W => <<a, b>> \in W
            <3> SUFFICES ASSUME NEW a, NEW b, j # k, <<a, j>> \in W, <<j, b>> \in W
                         PROVE  <<a, b>> \in W
                OBVIOUS
            <3>1. j \in 1..k - 1
                OBVIOUS
            <3>2. <<a, j>>[2] = j /\ <<j, b>>[1] = j /\ <<a, j>>[1] = a /\ <<j, b>>[2] = b
                OBVIOUS
            <3> QED
                BY <1>2, <3>1, <3>2
        <2> HIDE DEF X, Closed
        <2>8. CASE j = k
            BY <2>3, <2>4, <2>5, <2>6, <2>8
        <2>9. CASE j # k
            <3>1. <<p[1], j>> \in W /\ <<j, q[2]>> \in W => <<p[1], q[2]>> \in X
                BY <2>0, <2>7, <2>9
            <3>2. <<p[1], j>> \in W /\ <<j, k>> \in W /\ <<k, q[2]>> \in W => <<p[1], q[2]>> \in X
                BY <2>3, <2>6, <2>7, <2>9
            <3>3. <<p[1], k>> \in W /\ <<k, j>> \in W /\ <<j, q[2]>> \in W => <<p[1], q[2]>> \in X
                BY <2>3, <2>6, <2>7, <2>9
            <3>4. <<p[1], k>> \in W /\ <<k, q[2]>> \in W => <<p[1], q[2]>> \in X
                BY <2>3, <2>6
            <3> QED
                BY <2>4, <2>5, <3>1, <3>2, <3>3, <3>4
        <2> QED
            BY <2>8, <2>9
    <1> DEFINE Good(k) == /\ E \subseteq via[k] /\ Closed(k, via[k])
                          /\ \A R : E \subseteq R /\ Transitive(R) => via[k] \subseteq R
               Bad == {k \in 0..n : ~Good(k)}
    <1>3. Good(0)
        BY <1>1
    <1>4. ASSUME NEW k \in 1..n, Good(k - 1) PROVE Good(k)
        <2>1. via[k] = Through(k, via[k - 1], n) /\ via[k - 1] \in SUBSET N
            BY <1>1
        <2>2. E \subseteq via[k]
            BY <1>4, <2>1 DEF Through
        <2>3. Closed(k, via[k])
            <3> HIDE DEF Closed
            <3> QED
                BY <1>2, <1>4, <2>1
        <2>4. ASSUME NEW R, E \subseteq R, Transitive(R) PROVE via[k] \subseteq R
            <3>1. via[k - 1] \subseteq R
                BY <1>4, <2>4
            <3>2. ASSUME NEW p \in N, <<p[1], k>> \in R, <<k, p[2]>> \in R PROVE p \in R
                <4>1. /\ <<p[1], k>>[2] = k /\ <<k, p[2]>>[1] = k
                      /\ <<p[1], k>>[1] = p[1] /\ <<k, p[2]>>[2] = p[2] /\ p = <<p[1], p[2]>>
                    OBVIOUS
                <4> QED
                    BY <2>4, <3>2, <4>1 DEF Transitive
            <3> QED
                BY <2>1, <3>1, <3>2 DEF Through
        <2> QED
            BY <2>2, <2>3, <2>4
    <1> HIDE DEF Good
    <1>5. Bad = {}
        <2> SUFFICES ASSUME Bad # {} PROVE FALSE
            OBVIOUS
        <2>1. PICK k \in Bad : \A j \in Bad : k <= j
            <3>1. Bad \in SUBSET Nat
                OBVIOUS
            <3> QED
                BY <3>1, MinOf
        <2>2. k \in 1..n /\ Good(k - 1)
            BY <1>3, <2>1
        <2> QED
            BY <1>4, <2>2
    <1>6. Good(n)
        BY <1>5
    <1>7. via[n] \in SUBSET N
        BY <1>1
    <1>8. Transitive(via[n])
        <2> SUFFICES ASSUME NEW p \in via[n], NEW q \in via[n], p[2] = q[1]
                     PROVE  <<p[1], q[2]>> \in via[n]
            BY DEF Transitive
        <2>1. p[2] \in 1..n
            BY <1>7
        <2> QED
            BY <1>6, <2>1 DEF Good
    <1> QED
        BY <1>1, <1>6, <1>7, <1>8 DEF Good

-----------------------------------------------------------------------------
(* Cycles *)

Cyclic(n, E) == \E i \in 1..n : <<i, i>> \in Closure(E, n)

\* Without a cycle, of some steps one comes after no other of them.
LEMMA FirstOf ==
    ASSUME NEW n \in Nat, NEW E \in SUBSET ((1..n) \X (1..n)), ~Cyclic(n, E),
           NEW A \in SUBSET (1..n), A # {}
    PROVE  \E a \in A : \A e \in E : e[2] = a => e[1] \notin A
    <1> DEFINE C == Closure(E, n)
               D(i) == {j \in 1..n : <<j, i>> \in C}
               B == {D(i) : i \in A}
    <1>1. C \in SUBSET ((1..n) \X (1..n)) /\ E \subseteq C /\ Transitive(C)
        BY ClosureFacts
    <1>2. \A i \in 1..n : <<i, i>> \notin C
        BY DEF Cyclic
    <1> HIDE DEF C
    <1>3. PICK a \in A : \A i \in A : D(i) \subseteq D(a) => D(i) = D(a)
        <2>1. IsFiniteSet(1..n)
            BY FS_Interval
        <2>2. \A b \in B : IsFiniteSet(b)
            <3>1. \A b \in B : b \subseteq 1..n
                OBVIOUS
            <3> QED
                BY <2>1, <3>1, FS_Subset
        <2>3. B # {}
            OBVIOUS
        <2>4. PICK b \in B : \A c \in B : c \subseteq b => c = b
            <3> HIDE DEF B
            <3> QED
                BY <2>2, <2>3, SmallestSet
        <2>5. PICK a \in A : b = D(a)
            OBVIOUS
        <2>6. \A i \in A : D(i) \in B
            OBVIOUS
        <2> HIDE DEF D, B
        <2> QED
            BY <2>4, <2>5, <2>6
    <1>4. ASSUME NEW e \in E, e[2] = a, e[1] \in A PROVE FALSE
        <2> DEFINE i == e[1]
        <2>1. e \in C /\ e = <<i, a>> /\ <<i, a>> \in C /\ i \in 1..n /\ a \in 1..n
            BY <1>1, <1>4
        <2> HIDE DEF i
        <2>2. D(i) \subseteq D(a)
            <3> SUFFICES ASSUME NEW j \in 1..n, <<j, i>> \in C PROVE <<j, a>> \in C
                OBVIOUS
            <3>1. <<j, i>>[2] = i /\ <<i, a>>[1] = i /\ <<j, i>>[1] = j /\ <<i, a>>[2] = a
                OBVIOUS
            <3> QED
                BY <1>1, <2>1, <3>1 DEF Transitive
        <2>3. D(i) = D(a)
            BY <1>3, <1>4, <2>2 DEF i
        <2>4. i \in D(a)
            BY <2>1
        <2> QED
            BY <1>2, <2>1, <2>3, <2>4
    <1> QED
        BY <1>4

\* A pass places every step exactly when there is no cycle.
LEMMA LeftOfCycle ==
    ASSUME NEW n \in Nat, NEW E \in SUBSET ((1..n) \X (1..n))
    PROVE  Cyclic(n, E) <=> Left(n, E) # {}
    <1> DEFINE s == RunKahn(n, E)
               L == Left(n, E)
               C == Closure(E, n)
    <1>1. ASSUME L # {}, ~Cyclic(n, E) PROVE FALSE
        <2>1. L \in SUBSET (1..n) /\ L = 1..n \ ToSet(s)
            BY DEF Left
        <2>2. PICK a \in L : \A e \in E : e[2] = a => e[1] \notin L
            BY <1>1, <2>1, FirstOf
        <2>3. Free(n, E, ToSet(s)) = {}
            BY PassFacts
        <2>4. PICK e \in E : e[2] = a /\ e[1] \notin ToSet(s)
            BY <2>1, <2>3 DEF Free
        <2>5. e[1] \in 1..n
            OBVIOUS
        <2> QED
            BY <2>1, <2>2, <2>4, <2>5
    <1>2. ASSUME L = {}, Cyclic(n, E) PROVE FALSE
        <2> DEFINE at(i) == Position(s, i)
                   R == {p \in (1..n) \X (1..n) : at(p[1]) < at(p[2])}
        <2>1. /\ \A i \in 1..n : at(i) \in 1..n /\ s[at(i)] = i
              /\ \A k \in 1..n : at(s[k]) = k
              /\ Len(s) = n
            BY <1>2, PlacesAll
        <2>2. \A e \in E : \A k \in 1..Len(s) : s[k] = e[2] => \E j \in 1..k - 1 : s[j] = e[1]
            BY PassOrder
        <2>3. E \subseteq R
            <3> SUFFICES ASSUME NEW e \in E PROVE e \in R
                OBVIOUS
            <3>1. e[1] \in 1..n /\ e[2] \in 1..n
                OBVIOUS
            <3>2. PICK j \in 1..at(e[2]) - 1 : s[j] = e[1]
                BY <2>1, <2>2, <3>1
            <3>3. at(e[1]) = j
                BY <2>1, <3>1, <3>2
            <3> HIDE DEF at
            <3> QED
                BY <2>1, <3>1, <3>2, <3>3
        <2>4. Transitive(R)
            <3> SUFFICES ASSUME NEW p \in R, NEW q \in R, p[2] = q[1]
                         PROVE  <<p[1], q[2]>> \in R
                BY DEF Transitive
            <3> HIDE DEF at
            <3>1. at(p[1]) < at(p[2]) /\ at(q[1]) < at(q[2]) /\ <<p[1], q[2]>> \in (1..n) \X (1..n)
                OBVIOUS
            <3>2. at(p[1]) < at(q[2])
                BY <2>1, <3>1
            <3> QED
                BY <3>1, <3>2
        <2>5. C \subseteq R
            BY <2>3, <2>4, ClosureFacts
        <2>6. PICK i \in 1..n : <<i, i>> \in C
            BY <1>2 DEF Cyclic
        <2>7. at(i) < at(i)
            <3> HIDE DEF at, C
            <3> QED
                BY <2>5, <2>6
        <2> HIDE DEF at
        <2> QED
            BY <2>1, <2>7
    <1> QED
        BY <1>1, <1>2

-----------------------------------------------------------------------------
(* What the order promises *)

Ordered(n, E, out) ==
    LET at(i) == Position(out.order, i) IN
    /\ out.order \in Seq(1..n) /\ out.warnings \in Nat
    /\ Len(out.order) = n /\ ToSet(out.order) = 1..n
    /\ Cyclic(n, E) <=> out.warnings > 0
    /\ Cardinality({e \in E : at(e[2]) <= at(e[1])}) <= out.warnings
    /\ ~Cyclic(n, E) => \A i, j \in 1..n :
          i < j /\ at(j) < at(i) => \E d \in j..n : <<d, i>> \in Closure(E, n)

LEMMA Overtaking ==
    ASSUME NEW n \in Nat, NEW E \in SUBSET ((1..n) \X (1..n)), ~Cyclic(n, E),
           NEW i \in 1..n, NEW j \in 1..n, i < j,
           Position(RunKahn(n, E), j) < Position(RunKahn(n, E), i)
    PROVE  \E d \in j..n : <<d, i>> \in Closure(E, n)
    <1> DEFINE s == RunKahn(n, E)
               C == Closure(E, n)
               k == Position(s, j)
               P == With({}, s, k)
               A == {a \in 1..n \ P : a = i \/ <<a, i>> \in C}
    <1>1. /\ Len(s) = n /\ \A l \in 1..n : Position(s, l) \in 1..n /\ s[Position(s, l)] = l
          /\ \A l \in 1..n : Position(s, s[l]) = l
        BY LeftOfCycle, PlacesAll
    <1>2. k \in 1..Len(s) /\ s[k] = j /\ k < Position(s, i)
        BY <1>1
    <1>3. \A a \in Free(n, E, P) : j <= a
        BY <1>2, PassFacts
    <1>4. C \in SUBSET ((1..n) \X (1..n)) /\ E \subseteq C /\ Transitive(C)
        BY ClosureFacts
    <1>5. i \notin P
        <2> SUFFICES ASSUME i \in P PROVE FALSE
            OBVIOUS
        <2>1. PICK l \in 1..k - 1 : s[l] = i
            BY DEF With
        <2>2. l \in 1..n /\ l < k
            BY <1>1, <1>2, <2>1
        <2>3. Position(s, i) = l
            BY <1>1, <2>1, <2>2
        <2> HIDE DEF s
        <2> QED
            BY <1>1, <1>2, <2>2, <2>3
    <1> HIDE DEF C, P
    <1>6. PICK a \in A : \A e \in E : e[2] = a => e[1] \notin A
        <2>1. A \in SUBSET (1..n) /\ A # {}
            BY <1>5
        <2> HIDE DEF A
        <2> QED
            BY <2>1, FirstOf
    <1>7. a \in Free(n, E, P)
        <2> SUFFICES ASSUME NEW e \in E, e[2] = a, e[1] \notin P PROVE FALSE
            BY <1>6 DEF Free
        <2> DEFINE b == e[1]
        <2>1. e = <<b, a>> /\ <<b, a>> \in C /\ b \in 1..n
            BY <1>4
        <2> HIDE DEF b
        <2>2. <<b, i>> \in C
            <3>1. CASE a = i
                BY <2>1, <3>1
            <3>2. CASE a # i
                <4>1. <<a, i>> \in C
                    BY <1>6, <3>2
                <4>2. <<b, a>>[2] = a /\ <<a, i>>[1] = a /\ <<b, a>>[1] = b /\ <<a, i>>[2] = i
                    OBVIOUS
                <4> QED
                    BY <1>4, <2>1, <4>1, <4>2 DEF Transitive
            <3> QED
                BY <3>1, <3>2
        <2>3. b \in A
            BY <2>1, <2>2 DEF b
        <2> QED
            BY <1>6, <2>3 DEF b
    <1>8. a \in j..n /\ a # i
        BY <1>3, <1>6, <1>7
    <1> QED
        BY <1>6, <1>8 DEF C

LEMMA KahnOrders ==
    ASSUME NEW n \in Nat, NEW E \in SUBSET ((1..n) \X (1..n))
    PROVE  Ordered(n, E, KahnSort(n, E))
    <1> DEFINE out == KahnSort(n, E)
               s == out.order
               at(i) == Position(s, i)
               late == {e \in E : at(e[2]) <= at(e[1])}
    <1>1. Sorts(n, E, out)
        BY KahnSorts
    <1> HIDE DEF out
    <1>2. /\ s \in Seq(1..n) /\ out.warnings \in Nat
          /\ Left(n, E) = {} => out.warnings = 0
        BY <1>1 DEF Sorts
    <1>3. PICK F \in SUBSET E : s = RunKahn(n, F) /\ Left(n, F) = {} /\ out.warnings = Cardinality(E \ F)
        BY <1>1 DEF Sorts
    <1>4. IsFiniteSet(E) /\ IsFiniteSet(E \ F)
        <2>1. IsFiniteSet(1..n)
            BY FS_Interval
        <2>2. IsFiniteSet((1..n) \X (1..n))
            BY <2>1, FS_Product
        <2>3. IsFiniteSet(E)
            BY <2>2, FS_Subset
        <2>4. E \ F \in SUBSET E
            OBVIOUS
        <2> QED
            BY <2>3, <2>4, FS_Subset
    <1> HIDE DEF s
    <1>5. /\ Len(s) = n /\ ToSet(s) = 1..n
          /\ \A i \in 1..n : at(i) \in 1..n /\ s[at(i)] = i
          /\ \A k \in 1..n : at(s[k]) = k
        BY <1>3, PlacesAll
    <1>6. out.warnings = 0 => F = E
        BY <1>3, <1>4, FS_EmptySet
    <1>7. Cyclic(n, E) <=> out.warnings > 0
        <2>1. Cyclic(n, E) <=> Left(n, E) # {}
            BY LeftOfCycle
        <2> QED
            BY <1>2, <1>3, <1>6, <2>1
    <1>8. late \subseteq E \ F
        <2> SUFFICES ASSUME NEW e \in F, at(e[2]) <= at(e[1]) PROVE FALSE
            OBVIOUS
        <2>1. e[1] \in 1..n /\ e[2] \in 1..n
            OBVIOUS
        <2>2. \A k \in 1..Len(s) : s[k] = e[2] => \E j \in 1..k - 1 : s[j] = e[1]
            BY <1>3, PassOrder
        <2>3. PICK j \in 1..at(e[2]) - 1 : s[j] = e[1]
            BY <1>5, <2>1, <2>2
        <2>4. at(e[2]) \in 1..n
            BY <1>5, <2>1
        <2> HIDE DEF at
        <2>5. j \in 1..n /\ j < at(e[2])
            BY <2>3, <2>4
        <2>6. at(e[1]) = j
            BY <1>5, <2>3, <2>5
        <2> QED
            BY <2>4, <2>5, <2>6
    <1>9. Cardinality(late) <= out.warnings
        <2> HIDE DEF late
        <2> QED
            BY <1>3, <1>4, <1>8, FS_Subset
    <1>10. ASSUME ~Cyclic(n, E), NEW i \in 1..n, NEW j \in 1..n, i < j, at(j) < at(i)
           PROVE  \E d \in j..n : <<d, i>> \in Closure(E, n)
        <2>1. s = RunKahn(n, E)
            BY <1>2, <1>3, <1>6, <1>7, <1>10
        <2> QED
            BY <1>10, <2>1, Overtaking
    <1> QED
        BY <1>2, <1>5, <1>7, <1>9, <1>10 DEF Ordered, s, out

-----------------------------------------------------------------------------
(* The gates *)

Follow(s, Ok) == \A k \in 2..Len(s) : <<s[k - 1], s[k]>> \in Ok

LEMMA FollowOn ==
    ASSUME NEW G, NEW s \in Seq(G), NEW t \in Seq(G), NEW Ok, s # <<>>, t # <<>>,
           Follow(s, Ok), Follow(t, Ok), <<s[Len(s)], t[1]>> \in Ok
    PROVE  /\ s \o t \in Seq(G) /\ s \o t # <<>> /\ Follow(s \o t, Ok)
           /\ (s \o t)[Len(s \o t)] = t[Len(t)]
    <1> DEFINE r == s \o t
    <1>1. /\ r \in Seq(G) /\ Len(r) = Len(s) + Len(t)
          /\ Len(s) \in Nat \ {0} /\ Len(t) \in Nat \ {0}
          /\ \A k \in 1..Len(s) : r[k] = s[k]
          /\ \A k \in 1..Len(r) : ~(k <= Len(s)) => r[k] = t[k - Len(s)]
        OBVIOUS
    <1> HIDE DEF r
    <1>2. ASSUME NEW k \in 2..Len(r) PROVE <<r[k - 1], r[k]>> \in Ok
        <2>1. CASE k <= Len(s)
            <3>1. k \in 2..Len(s) /\ r[k - 1] = s[k - 1] /\ r[k] = s[k]
                BY <1>1, <2>1
            <3> QED
                BY <3>1 DEF Follow
        <2>2. CASE k = Len(s) + 1
            <3>1. r[k - 1] = s[Len(s)] /\ r[k] = t[1]
                BY <1>1, <2>2
            <3> QED
                BY <3>1
        <2>3. CASE k > Len(s) + 1
            <3> DEFINE l == k - Len(s)
            <3>1. l \in 2..Len(t) /\ k - 1 \in 1..Len(r) /\ ~(k - 1 <= Len(s)) /\ ~(k <= Len(s))
                BY <1>1, <2>3
            <3>2. r[k] = t[l] /\ r[k - 1] = t[(k - 1) - Len(s)]
                BY <1>1, <3>1
            <3>3. (k - 1) - Len(s) = l - 1
                BY <1>1
            <3> HIDE DEF l
            <3> QED
                BY <3>1, <3>2, <3>3 DEF Follow
        <2> QED
            BY <1>1, <2>1, <2>2, <2>3
    <1>3. r # <<>> /\ r[Len(r)] = t[Len(t)]
        <2> DEFINE l == Len(r)
        <2>1. l \in 1..l /\ ~(l <= Len(s)) /\ l - Len(s) = Len(t) /\ l # 0
            BY <1>1
        <2>2. r[l] = t[l - Len(s)]
            BY <1>1, <2>1
        <2>3. r # <<>>
            BY <2>1
        <2> HIDE DEF l
        <2>4. r[l] = t[Len(t)]
            BY <2>1, <2>2
        <2> QED
            BY <2>3, <2>4 DEF l
    <1> QED
        BY <1>1, <1>2, <1>3 DEF Follow, r

LEMMA FlattenFollows ==
    ASSUME NEW n \in Nat, NEW G, NEW t \in [1..n -> Seq(G)], NEW Ok,
           \A k \in 1..n : t[k] # <<>> /\ Follow(t[k], Ok),
           \A k \in 2..n : <<t[k - 1][Len(t[k - 1])], t[k][1]>> \in Ok
    PROVE  Follow(FlattenSeq(t), Ok)
    <1> DEFINE S == 1..n
               V == Seq(G)
               Solves(p) == p = [i \in 1..Len(t) |-> IF i = 1 THEN t[i] ELSE p[i - 1] \o t[i]]
               flatten == CHOOSE p : Solves(p)
    <1>1. Len(t) = n /\ t \in Seq(V)
        OBVIOUS
    <1>2. CASE n = 0
        <2>1. FlattenSeq(t) = t
            BY <1>1, <1>2 DEF FlattenSeq
        <2> QED
            BY <1>1, <1>2, <2>1 DEF Follow
    <1>3. CASE n # 0
        <2>1. FlattenSeq(t) = flatten[n]
            BY <1>1, <1>3, Zenon DEF FlattenSeq
        <2>2. \E p : Solves(p)
            <3> DEFINE m == [i \in S |-> i]
                       stop == {1}
                       next == [i \in S |-> i - 1]
                       step == [q \in S \X V |-> q[2] \o t[q[1]]]
            <3>1. m \in [S -> Nat] /\ n + 1 \in Nat /\ t \in [S -> V]
                OBVIOUS
            <3>2. \A i \in S : m[i] < n + 1 /\ (i \notin stop => next[i] \in S /\ m[next[i]] < m[i])
                OBVIOUS
            <3>3. step \in [S \X V -> V]
                <4>1. \A q \in S \X V : q[2] \o t[q[1]] \in V
                    OBVIOUS
                <4> HIDE DEF S, V
                <4> QED
                    BY <4>1
            <3> HIDE DEF m, stop, next, step, S, V
            <3>4. Recurses(S, V, m, n + 1, stop, next, t, step)
                BY <3>1, <3>2, <3>3, Zenon DEF Recurses
            <3>5. \E f : IsRecursive(f, S, V, stop, next, t, step)
                BY <3>4, RecursiveFunction, Zenon
            <3>6. PICK f : IsRecursive(f, S, V, stop, next, t, step)
                BY <3>5, Zenon
            <3>7. f \in [S -> V]
                BY <3>6 DEF IsRecursive
            <3>8. ASSUME NEW i \in S PROVE f[i] = IF i = 1 THEN t[i] ELSE f[i - 1] \o t[i]
                <4>1. CASE i = 1
                    BY <3>6, <4>1 DEF IsRecursive, stop
                <4>2. CASE i # 1
                    <5>1. next[i] \in S /\ next[i] = i - 1
                        BY <3>2, <4>2 DEF next, stop
                    <5>2. <<i, f[i - 1]>> \in S \X V
                        BY <3>7, <5>1
                    <5>3. step[<<i, f[i - 1]>>] = f[i - 1] \o t[i]
                        BY <5>2 DEF step
                    <5>4. f[i] = step[<<i, f[i - 1]>>]
                        BY <3>6, <4>2, <5>1 DEF IsRecursive, stop
                    <5> QED
                        BY <4>2, <5>3, <5>4
                <4> QED
                    BY <4>1, <4>2
            <3>9. f = [i \in S |-> IF i = 1 THEN t[i] ELSE f[i - 1] \o t[i]]
                <4>1. f = [i \in S |-> f[i]]
                    BY <3>7
                <4> QED
                    BY <3>8, <4>1, Zenon
            <3>10. S = 1..Len(t)
                BY <1>1 DEF S
            <3> QED
                BY <3>9, <3>10, Zenon
        <2>3. Solves(flatten)
            BY <2>2, Zenon
        <2>4. ASSUME NEW i \in 1..Len(t)
              PROVE  flatten[i] = IF i = 1 THEN t[i] ELSE flatten[i - 1] \o t[i]
            BY <2>3, Zenon
        <2>5. \A i \in 1..n : flatten[i] = IF i = 1 THEN t[i] ELSE flatten[i - 1] \o t[i]
            <3>1. 1..Len(t) = 1..n
                BY <1>1
            <3> HIDE DEF flatten
            <3> QED
                BY <2>4, <3>1, Zenon
        <2> HIDE DEF flatten
        <2> DEFINE Good(i) == /\ flatten[i] \in V /\ flatten[i] # <<>> /\ Follow(flatten[i], Ok)
                              /\ flatten[i][Len(flatten[i])] = t[i][Len(t[i])]
                   Bad == {i \in 1..n : ~Good(i)}
        <2>6. Good(1)
            <3>1. flatten[1] = t[1] /\ 1 \in 1..n
                BY <1>3, <2>5
            <3> QED
                BY <3>1
        <2>7. ASSUME NEW i \in 2..n, Good(i - 1) PROVE Good(i)
            <3> DEFINE a == flatten[i - 1]
                       b == t[i]
            <3>1. flatten[i] = a \o b /\ i \in 1..n
                <4>1. i \in 1..n /\ i # 1
                    OBVIOUS
                <4> QED
                    BY <2>5, <4>1, Zenon
            <3>2. a \in Seq(G) /\ b \in Seq(G) /\ a # <<>> /\ b # <<>> /\ Follow(a, Ok) /\ Follow(b, Ok)
                BY <2>7, <3>1
            <3>3. <<a[Len(a)], b[1]>> \in Ok
                <4>1. <<t[i - 1][Len(t[i - 1])], t[i][1]>> \in Ok
                    OBVIOUS
                <4> QED
                    BY <2>7, <4>1
            <3> HIDE DEF a, b
            <3>4. /\ a \o b \in Seq(G) /\ a \o b # <<>> /\ Follow(a \o b, Ok)
                  /\ (a \o b)[Len(a \o b)] = b[Len(b)]
                BY <3>2, <3>3, FollowOn
            <3> DEFINE c == a \o b
            <3> HIDE DEF c
            <3>5. flatten[i] = c /\ c \in V /\ c # <<>> /\ Follow(c, Ok) /\ c[Len(c)] = t[i][Len(t[i])]
                BY <3>1, <3>4 DEF b, c
            <3> QED
                BY <3>5
        <2> HIDE DEF Good
        <2>8. Bad = {}
            <3> SUFFICES ASSUME Bad # {} PROVE FALSE
                OBVIOUS
            <3>1. PICK i \in Bad : \A j \in Bad : i <= j
                <4>1. Bad \in SUBSET Nat
                    OBVIOUS
                <4> QED
                    BY <4>1, MinOf
            <3>2. i \in 2..n /\ Good(i - 1)
                BY <2>6, <3>1
            <3> QED
                BY <2>7, <3>2
        <2>9. Good(n)
            BY <1>3, <2>8
        <2> QED
            BY <2>1, <2>9 DEF Good
    <1> QED
        BY <1>2, <1>3

GateBetween(steps, x, y) ==
    LET two == {x, y}
        components == {steps[z.step].component : z \in two}
    IN  (\A z \in two : "step" \in DOMAIN z) => "" \in components \/ Cardinality(components) = 1

\* Two steps that need no gate, and a gate between two steps.
LEMMA NeedsNoGate ==
    ASSUME NEW steps, NEW i, NEW j,
           ~ /\ "" \notin {steps[i].component, steps[j].component}
             /\ steps[i].component # steps[j].component
    PROVE  GateBetween(steps, [step |-> i], [step |-> j])
    <1> DEFINE two == {[step |-> i], [step |-> j]}
               components == {steps[z.step].component : z \in two}
    <1>1. [step |-> i].step = i /\ [step |-> j].step = j
        OBVIOUS
    <1>2. components = {steps[i].component, steps[j].component}
        BY <1>1, Zenon
    <1>3. CASE steps[i].component = steps[j].component
        <2>1. components = {steps[i].component}
            BY <1>2, <1>3, Zenon
        <2>2. Cardinality({steps[i].component}) = 1
            BY FS_Singleton, Zenon
        <2> QED
            BY <2>1, <2>2, Zenon DEF GateBetween
    <1>4. CASE "" \in {steps[i].component, steps[j].component}
        BY <1>2, <1>4, Zenon DEF GateBetween
    <1> QED
        BY <1>3, <1>4, Zenon

LEMMA GateChecks ==
    ASSUME NEW steps, NEW c, NEW y
    PROVE  GateBetween(steps, [gate |-> c], y) /\ GateBetween(steps, y, [gate |-> c])
    <1>1. "step" \notin DOMAIN [gate |-> c]
        OBVIOUS
    <1> QED
        BY <1>1, Zenon DEF GateBetween

LEMMA GatesChecked ==
    ASSUME NEW n \in Nat, NEW steps, NEW order \in Seq(1..n)
    PROVE  LET gated == InjectHealthGates(steps, order) IN
           \A k \in 2..Len(gated) : GateBetween(steps, gated[k - 1], gated[k])
    <1> DEFINE l == Len(order)
               gate(k) == [gate |-> steps[order[k - 1]].component]
               here(k) == [step |-> order[k]]
               needs(k) == /\ k > 1
                           /\ "" \notin {steps[order[k - 1]].component, steps[order[k]].component}
                           /\ steps[order[k - 1]].component # steps[order[k]].component
               one(k) == IF needs(k) THEN <<gate(k), here(k)>> ELSE <<here(k)>>
               t == [k \in DOMAIN order |-> one(k)]
               G == {gate(k) : k \in DOMAIN order} \cup {here(k) : k \in DOMAIN order}
               Ok == {p \in G \X G : GateBetween(steps, p[1], p[2])}
    <1>1. InjectHealthGates(steps, order) = FlattenSeq(t)
        BY Zenon DEF InjectHealthGates
    <1>2. DOMAIN order = 1..l /\ l \in Nat
        OBVIOUS
    <1>3. \A k \in 1..l : gate(k) \in G /\ here(k) \in G
        BY <1>2
    <1>4. \A c \in G : \A k \in 1..l : /\ <<gate(k), c>> \in Ok /\ <<c, gate(k)>> \in Ok
        <2> SUFFICES ASSUME NEW c \in G, NEW k \in 1..l
                     PROVE  <<gate(k), c>> \in Ok /\ <<c, gate(k)>> \in Ok
            OBVIOUS
        <2> DEFINE g == gate(k)
        <2>1. GateBetween(steps, g, c) /\ GateBetween(steps, c, g) /\ g \in G
            BY <1>3, GateChecks
        <2> HIDE DEF g, G
        <2>2. <<g, c>> \in Ok /\ <<c, g>> \in Ok
            BY <2>1
        <2> QED
            BY <2>2 DEF g
    <1>5. ASSUME NEW k \in 2..l, ~needs(k) PROVE <<here(k - 1), here(k)>> \in Ok
        <2> DEFINE x == here(k - 1)
                   y == here(k)
        <2>1. k - 1 \in 1..l /\ k \in 1..l /\ k > 1
            BY <1>2
        <2>2. x \in G /\ y \in G
            BY <1>3, <2>1
        <2>3. GateBetween(steps, x, y)
            <3>1. ~ /\ "" \notin {steps[order[k - 1]].component, steps[order[k]].component}
                    /\ steps[order[k - 1]].component # steps[order[k]].component
                BY <1>5, <2>1, Zenon
            <3> QED
                BY <3>1, NeedsNoGate, Zenon
        <2> HIDE DEF x, y, G
        <2>4. <<x, y>> \in Ok
            BY <2>2, <2>3
        <2> QED
            BY <2>4 DEF x, y
    <1> HIDE DEF gate, here, needs, G, Ok
    <1>6. ASSUME NEW k \in 1..l
          PROVE  /\ one(k) \in Seq(G) /\ one(k) # <<>> /\ Follow(one(k), Ok)
                 /\ one(k)[Len(one(k))] = here(k)
                 /\ one(k)[1] = IF needs(k) THEN gate(k) ELSE here(k)
        <2>1. gate(k) \in G /\ here(k) \in G
            BY <1>3
        <2>2. CASE needs(k)
            <3> DEFINE s == <<gate(k), here(k)>>
            <3>1. <<gate(k), here(k)>> \in Ok
                BY <1>4, <2>1
            <3>2. s \in Seq(G) /\ s # <<>> /\ Len(s) = 2 /\ s[1] = gate(k) /\ s[2] = here(k)
                BY <2>1
            <3>3. Follow(s, Ok)
                BY <3>1 DEF Follow
            <3> HIDE DEF s
            <3>4. s[Len(s)] = here(k)
                BY <3>2
            <3>5. one(k) = s
                BY <2>2 DEF s
            <3> QED
                BY <2>2, <3>2, <3>3, <3>4, <3>5, Zenon
        <2>3. CASE ~needs(k)
            <3> DEFINE s == <<here(k)>>
            <3>1. s \in Seq(G) /\ s # <<>> /\ Len(s) = 1 /\ s[1] = here(k)
                BY <2>1
            <3>2. Follow(s, Ok)
                BY DEF Follow
            <3> HIDE DEF s
            <3>3. s[Len(s)] = here(k)
                BY <3>1
            <3>4. one(k) = s
                BY <2>3 DEF s
            <3> QED
                BY <2>3, <3>1, <3>2, <3>3, <3>4, Zenon
        <2> QED
            BY <2>2, <2>3
    <1> HIDE DEF one, l
    <1>7. t \in [1..l -> Seq(G)] /\ \A k \in 1..l : t[k] = one(k)
        BY <1>2, <1>6
    <1> HIDE DEF t
    <1>8. \A k \in 1..l : t[k] # <<>> /\ Follow(t[k], Ok)
        BY <1>6, <1>7
    <1>9. ASSUME NEW k \in 2..l PROVE <<t[k - 1][Len(t[k - 1])], t[k][1]>> \in Ok
        <2>1. k - 1 \in 1..l /\ k \in 1..l
            BY <1>2
        <2>2. t[k - 1][Len(t[k - 1])] = here(k - 1)
            BY <1>6, <1>7, <2>1, Zenon
        <2>3. t[k][1] = IF needs(k) THEN gate(k) ELSE here(k)
            BY <1>6, <1>7, <2>1, Zenon
        <2>4. CASE needs(k)
            <3>1. here(k - 1) \in G
                BY <1>3, <2>1
            <3> QED
                BY <1>4, <2>1, <2>2, <2>3, <2>4, <3>1
        <2>5. CASE ~needs(k)
            BY <1>5, <2>2, <2>3, <2>5
        <2> QED
            BY <2>4, <2>5
    <1>10. Follow(FlattenSeq(t), Ok)
        BY <1>2, <1>7, <1>8, <1>9, FlattenFollows
    <1> DEFINE s == FlattenSeq(t)
    <1>11. ASSUME NEW k \in 2..Len(s) PROVE GateBetween(steps, s[k - 1], s[k])
        <2>1. <<s[k - 1], s[k]>> \in Ok
            BY <1>10 DEF Follow
        <2> QED
            BY <2>1 DEF Ok
    <1> QED
        BY <1>1, <1>11, Zenon

-----------------------------------------------------------------------------
(* Every playbook *)

LEMMA EdgesOfSteps ==
    ASSUME NEW steps, NEW graph, NEW opts, NEW n, DOMAIN steps = 1..n
    PROVE  Edges(steps, graph, opts) \in SUBSET ((1..n) \X (1..n))
    <1> DEFINE D == DOMAIN steps
               N == D \X D
               T == (1..n) \X (1..n)
    <1>1. Edges(steps, graph, opts) \subseteq N
        BY Zenon DEF Edges
    <1>2. N = T
        BY Zenon
    <1> HIDE DEF N, T
    <1>3. Edges(steps, graph, opts) \in SUBSET T
        BY <1>1, <1>2, Zenon
    <1> QED
        BY <1>3 DEF T

\* The order of a playbook is a sequence of its steps' numbers.
LEMMA SequenceOrder ==
    ASSUME NEW steps, NEW graph, NEW opts, Len(steps) \in Nat, DOMAIN steps = 1..Len(steps)
    PROVE  Ordered(Len(steps), Edges(steps, graph, opts), Sequence(steps, graph, opts))
    <1> DEFINE n == Len(steps)
               E == Edges(steps, graph, opts)
    <1>1. n \in Nat /\ E \in SUBSET ((1..n) \X (1..n))
        BY EdgesOfSteps
    <1>2. Sequence(steps, graph, opts) = KahnSort(n, E)
        BY Zenon DEF Sequence
    <1> HIDE DEF n, E
    <1>3. Ordered(n, E, KahnSort(n, E))
        BY <1>1, KahnOrders
    <1> QED
        BY <1>2, <1>3, Zenon DEF n, E
=============================================================================
