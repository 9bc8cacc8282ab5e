----------------------------- MODULE LibcProofs -----------------------------
(***************************************************************************)
(* Theorems about the functions of libc that compute: for every memory,    *)
(* every number, and integers of any size up to 32 bits.  The recursive    *)
(* functions the model writes loops with are reasoned about by induction   *)
(* over the naturals, which is drawn from their being well-founded.        *)
(***************************************************************************)
EXTENDS Libc, FiniteSetTheorems, SequenceTheorems, WellFoundedInduction, TLAPS

-----------------------------------------------------------------------------
(***************************************************************************)
(* Induction and recursive functions                                       *)
(***************************************************************************)

\* A set of naturals that is not empty has a least element.
LEMMA Least ==
  ASSUME NEW T \in SUBSET Nat, T # {}
  PROVE  \E m \in T : \A k \in T : m <= k
  <1> DEFINE Less == {p \in Nat \X Nat : p[1] < p[2]}
  <1>1. IsWellFoundedOn(Less, Nat)
    BY NatLessThanWellFounded DEF OpToRel
  <1>2. \A p : p \in Less <=> p \in Nat \X Nat /\ p[1] < p[2]
    OBVIOUS
  <1>3. PICK m \in T : \A k \in T : ~(<<k, m>> \in Less)
    <2> HIDE DEF Less
    <2> QED BY <1>1, WFMin, Zenon
  <1>4. ASSUME NEW k \in T PROVE m <= k
    <2>1. k \in Nat /\ m \in Nat OBVIOUS
    <2>2. ~(<<k, m>> \in Less) BY <1>3
    <2> HIDE DEF Less
    <2> QED BY <2>1, <2>2, <1>2
  <1> QED BY <1>4

\* Induction
LEMMA Induction ==
  ASSUME NEW S, 0 \in S, \A n \in Nat : n \in S => n + 1 \in S
  PROVE  Nat \subseteq S
  <1> DEFINE T == Nat \ S
  <1> SUFFICES ASSUME T # {} PROVE FALSE OBVIOUS
  <1>1. T \in SUBSET Nat OBVIOUS
  <1>2. PICK m \in T : \A k \in T : m <= k
    <2> HIDE DEF T
    <2> QED BY <1>1, Least
  <1>3. m # 0 /\ m - 1 \in Nat OBVIOUS
  <1>4. m - 1 \in S BY <1>2, <1>3
  <1>5. m - 1 + 1 \in S BY <1>4, <1>3
  <1> QED BY <1>5

\* Induction on a measure mu.
LEMMA MeasureInduction ==
  ASSUME NEW X, NEW mu \in [X -> Nat], NEW S,
         \A x \in X : (\A y \in X : mu[y] < mu[x] => y \in S) => x \in S
  PROVE  X \subseteq S
  <1> DEFINE T == {mu[x] : x \in X \ S}
  <1> SUFFICES ASSUME NEW x \in X, x \notin S PROVE FALSE OBVIOUS
  <1>1. T \in SUBSET Nat OBVIOUS
  <1>2. PICK m \in T : \A k \in T : m <= k
    <2>1. mu[x] \in T OBVIOUS
    <2> HIDE DEF T
    <2> QED BY <1>1, <2>1, Least
  <1>3. PICK z \in X \ S : m = mu[z] OBVIOUS
  <1>4. \A y \in X : mu[y] < mu[z] => y \in S
    <2> SUFFICES ASSUME NEW y \in X, mu[y] < mu[z], y \notin S PROVE FALSE OBVIOUS
    <2>1. mu[y] \in T OBVIOUS
    <2>2. m <= mu[y] BY <1>2, <2>1
    <2>3. mu[y] \in Nat /\ mu[z] \in Nat OBVIOUS
    <2> QED BY <2>2, <2>3, <1>3
  <1> QED BY <1>4, <1>3

\* What Recursion needs of the order of the naturals.
LEMMA Order ==
  /\ \A a, b, n \in Nat : a < b /\ b < n => a < n
  /\ \A a, b, n \in Nat : a < b /\ b < n + 1 => a < n
  /\ \A a, b, n \in Nat : a < b /\ n < a + 1 => n < b + 1
  /\ \A a \in Nat : ~(a < 0) /\ a < a + 1 /\ a + 1 \in Nat
OBVIOUS

\* D[x][f] is what f[x] should be, and depends only on f where mu is smaller.
Recursive(X, mu, V, D) ==
  /\ mu \in [X -> Nat]
  /\ V # {}
  /\ \A x \in X : \A g \in [X -> V] : D[x][g] \in V
  /\ \A x \in X : \A g, h \in [X -> V] :
       (\A y \in X : mu[y] < mu[x] => g[y] = h[y]) => D[x][g] = D[x][h]

Solution(f, X, V, D) == f \in [X -> V] /\ \A x \in X : f[x] = D[x][f]

\* A recursive function that only looks where mu is smaller exists.
LEMMA Recursion ==
  ASSUME NEW X, NEW mu, NEW V, NEW D, Recursive(X, mu, V, D)
  PROVE  \E f : Solution(f, X, V, D)
  <1> DEFINE F == [X -> V]
  <1>a. /\ mu \in [X -> Nat] /\ V # {}
        /\ \A x \in X : \A g \in F : D[x][g] \in V
        /\ \A x \in X : \A g, h \in F :
             (\A y \in X : mu[y] < mu[x] => g[y] = h[y]) => D[x][g] = D[x][h]
    BY DEF Recursive
  <1>b. \A f : f \in F <=> f \in [X -> V] OBVIOUS
  <1> HIDE DEF F
  <1> SUFFICES \E f \in F : \A x \in X : f[x] = D[x][f] BY <1>b DEF Solution
  <1> USE <1>a, <1>b
  <1> DEFINE Good(g, n) == \A x \in X : mu[x] < n => g[x] = D[x][g]
             Have == {n \in Nat : \E g \in F : Good(g, n)}
  <1>0. \A x \in X : mu[x] \in Nat /\ mu[x] + 1 \in Nat OBVIOUS
  <1>1. ASSUME NEW n \in Nat, NEW g \in F, NEW h \in F, Good(g, n), Good(h, n)
        PROVE  \A x \in X : mu[x] < n => g[x] = h[x]
    <2> DEFINE S == {x \in X : mu[x] < n => g[x] = h[x]}
    <2>1. ASSUME NEW x \in X, \A y \in X : mu[y] < mu[x] => y \in S
          PROVE  x \in S
      <3> SUFFICES ASSUME mu[x] < n PROVE g[x] = h[x] OBVIOUS
      <3>1. ASSUME NEW y \in X, mu[y] < mu[x] PROVE g[y] = h[y]
        <4>2. mu[y] < n BY <3>1, <1>0, Order, Zenon
        <4>3. y \in S BY <2>1, <3>1, Zenon
        <4> QED BY <4>2, <4>3, Zenon
      <3>2. D[x][g] = D[x][h] BY <3>1, Zenon
      <3> QED BY <3>2, <1>1, Zenon
    <2>2. X \subseteq S
      <3> HIDE DEF S
      <3> QED BY <2>1, MeasureInduction, Zenon
    <2> QED BY <2>2, Zenon
  <1>2. Nat \subseteq Have
    <2>1. 0 \in Have
      <3>1. PICK v \in V : TRUE OBVIOUS
      <3>2. [x \in X |-> v] \in F OBVIOUS
      <3>3. Good([x \in X |-> v], 0) BY Order, <1>0, Zenon
      <3> HIDE DEF Good
      <3> QED BY <3>2, <3>3
    <2>2. ASSUME NEW n \in Nat, n \in Have PROVE n + 1 \in Have
      <3>1. PICK g \in F : Good(g, n) BY <2>2
      <3> DEFINE h == [x \in X |-> D[x][g]]
      <3>2. h \in F OBVIOUS
      <3>3. \A x \in X : mu[x] < n => h[x] = g[x] BY <3>1, Zenon
      <3>4. ASSUME NEW x \in X, mu[x] < n + 1 PROVE h[x] = D[x][h]
        <4>1. ASSUME NEW y \in X, mu[y] < mu[x] PROVE h[y] = g[y]
          <5>2. mu[y] < n BY <1>0, <4>1, <3>4, Order, Zenon
          <5> QED BY <5>2, <3>3, Zenon
        <4>3. h[x] = D[x][g] OBVIOUS
        <4> HIDE DEF h
        <4>2. D[x][h] = D[x][g] BY <4>1, <3>2, Zenon
        <4> QED BY <4>2, <4>3
      <3> HIDE DEF h
      <3>5. Good(h, n + 1) BY <3>4, Zenon
      <3> HIDE DEF Good
      <3> QED BY <3>2, <3>5, Order
    <2> HIDE DEF Have
    <2> QED BY <2>1, <2>2, Induction, Zenon
  <1> DEFINE g == [n \in Nat |-> CHOOSE h \in F : Good(h, n)]
  <1>3. \A n \in Nat : g[n] \in F /\ Good(g[n], n)
    <2> SUFFICES ASSUME NEW n \in Nat PROVE g[n] \in F /\ Good(g[n], n) OBVIOUS
    <2>1. \E h \in F : Good(h, n) BY <1>2, Zenon
    <2>2. g[n] = CHOOSE h \in F : Good(h, n) OBVIOUS
    <2> HIDE DEF g, Good
    <2> QED BY <2>1, <2>2
  <1> HIDE DEF g
  <1> DEFINE f == [x \in X |-> g[mu[x] + 1][x]]
  <1>4. f \in F
    <2>1. ASSUME NEW x \in X PROVE g[mu[x] + 1][x] \in V
      <3>1. g[mu[x] + 1] \in [X -> V] BY <1>0, <1>3, Zenon
      <3> QED BY <3>1
    <2> QED BY <2>1
  <1>5. ASSUME NEW x \in X PROVE f[x] = D[x][f]
    <2> DEFINE gx == g[mu[x] + 1]
    <2>1. gx \in F /\ Good(gx, mu[x] + 1) BY <1>0, <1>3, Zenon
    <2>2. gx[x] = D[x][gx] BY <2>1, <1>0, Order, Zenon
    <2>3. ASSUME NEW y \in X, mu[y] < mu[x] PROVE f[y] = gx[y]
      <3> DEFINE gy == g[mu[y] + 1]
      <3>1. gy \in F /\ Good(gy, mu[y] + 1) BY <1>0, <1>3, Zenon
      <3>2. Good(gx, mu[y] + 1)
        <4>1. \A z \in X : mu[z] < mu[y] + 1 => mu[z] < mu[x] + 1
          BY <1>0, <2>3, Order, Zenon
        <4> QED BY <2>1, <4>1, Zenon
      <3>3. mu[y] < mu[y] + 1 BY <1>0, Order, Zenon
      <3>5. f[y] = gy[y] OBVIOUS
      <3> HIDE DEF gy, gx, Good, f
      <3>4. gy[y] = gx[y]
        <4> DEFINE n == mu[y] + 1
        <4>1. n \in Nat BY <1>0
        <4> HIDE DEF n
        <4>2. Good(gx, n) /\ Good(gy, n) BY <3>1, <3>2 DEF n
        <4>3. \A z \in X : mu[z] < n => gx[z] = gy[z] BY <1>1, <2>1, <3>1, <4>1, <4>2
        <4> QED BY <4>3, <3>3, Zenon DEF n
      <3> QED BY <3>4, <3>5
    <2>5. f[x] = gx[x] OBVIOUS
    <2> HIDE DEF f, gx
    <2>4. D[x][f] = D[x][gx] BY <2>3, <1>4, <2>1, Zenon
    <2> QED BY <2>2, <2>4, <2>5
  <1> HIDE DEF f
  <1> QED BY <1>4, <1>5, Zenon

\* Induction up to a bound.
LEMMA BoundedInduction ==
  ASSUME NEW N \in Nat, NEW S, 0 \in S, \A k \in 0 .. (N - 1) : k \in S => k + 1 \in S
  PROVE  0 .. N \subseteq S
  <1> DEFINE T == {k \in Nat : k <= N => k \in S}
  <1>1. 0 \in T OBVIOUS
  <1>2. \A k \in Nat : k \in T => k + 1 \in T OBVIOUS
  <1>3. Nat \subseteq T
    <2> HIDE DEF T
    <2> QED BY <1>1, <1>2, Induction
  <1> QED BY <1>3

(***************************************************************************)
(* What a loop computes, pass by pass: f[k] is what it has after k passes, *)
(* step[k] what the next pass makes of it.                                 *)
(***************************************************************************)
Steps(V, start, N, step) ==
  /\ N \in Nat
  /\ start \in V
  /\ \A k \in 0 .. (N - 1) : \A v \in V : step[k][v] \in V

Run(f, V, start, N, step) ==
  /\ f \in [0 .. N -> V]
  /\ f[0] = start
  /\ \A k \in 0 .. (N - 1) : f[k + 1] = step[k][f[k]]

\* A loop has a state after each of its passes.
LEMMA Passes ==
  ASSUME NEW V, NEW start, NEW N, NEW step, Steps(V, start, N, step)
  PROVE  \E f : Run(f, V, start, N, step)
  <1> USE DEF Steps
  <1> DEFINE X == 0 .. N
             mu == [k \in X |-> k]
             D == [k \in X |-> [f \in [X -> V] |->
                    IF k = 0 THEN start ELSE step[k - 1][f[k - 1]]]]
  <1>1. Recursive(X, mu, V, D)
    <2>1. ASSUME NEW k \in X, NEW f \in [X -> V] PROVE D[k][f] \in V
      <3>1. CASE k = 0 BY <3>1
      <3>2. CASE k # 0
        <4>1. k - 1 \in X /\ k - 1 \in 0 .. (N - 1) BY <3>2
        <4>2. f[k - 1] \in V BY <4>1
        <4>3. D[k][f] = step[k - 1][f[k - 1]] BY <3>2
        <4> QED BY <4>1, <4>2, <4>3
      <3> QED BY <3>1, <3>2
    <2>2. ASSUME NEW k \in X, NEW g \in [X -> V], NEW h \in [X -> V],
                 \A y \in X : mu[y] < mu[k] => g[y] = h[y]
          PROVE  D[k][g] = D[k][h]
      <3>1. CASE k = 0 BY <3>1
      <3>2. CASE k # 0
        <4>1. k - 1 \in X /\ k - 1 < k BY <3>2
        <4>2. g[k - 1] = h[k - 1] BY <4>1, <2>2
        <4> QED BY <4>2, <3>2
      <3> QED BY <3>1, <3>2
    <2>3. mu \in [X -> Nat] /\ V # {} OBVIOUS
    <2> HIDE DEF mu, D, X
    <2> QED BY <2>1, <2>2, <2>3, Zenon DEF Recursive
  <1>2. PICK f : Solution(f, X, V, D)
    <2> HIDE DEF mu, D
    <2> QED BY <1>1, Recursion, Zenon
  <1>3. f \in [X -> V] /\ \A k \in X : f[k] = D[k][f]
    <2> HIDE DEF D, X
    <2> QED BY <1>2 DEF Solution
  <1>4. \A k \in X : D[k][f] = IF k = 0 THEN start ELSE step[k - 1][f[k - 1]]
    BY <1>3
  <1> HIDE DEF D
  <1>5. f[0] = start BY <1>3, <1>4
  <1>6. ASSUME NEW k \in 0 .. (N - 1) PROVE f[k + 1] = step[k][f[k]]
    <2>1. k + 1 \in X /\ k + 1 # 0 /\ (k + 1) - 1 = k OBVIOUS
    <2> QED BY <1>3, <1>4, <2>1
  <1> QED BY <1>3, <1>5, <1>6 DEF Run

\* The memory after a copy that goes through a buffer, address by address.
Copied(memory, dest, src, size, a) ==
  IF a \in dest .. (dest + size - 1) THEN memory[a - dest + src] ELSE memory[a]

\* A loop over the offsets i[0], i[1], ... that reads nothing it has written.
CopyLoop(A, memory, dest, src, size, i) ==
  /\ memory \in [A -> Byte]
  /\ size \in Nat /\ dest \in Nat /\ src \in Nat
  /\ dest .. (dest + size - 1) \subseteq A
  /\ src .. (src + size - 1) \subseteq A
  /\ i \in [0 .. (size - 1) -> 0 .. (size - 1)]
  /\ \A o \in 0 .. (size - 1) : \E k \in 0 .. (size - 1) : i[k] = o
  /\ \A j, k \in 0 .. (size - 1) : j < k => dest + i[j] # src + i[k]

\* It copies: every address of the place has what the one in the other place
\* had, the rest of the memory is as it was.
Copies(A, memory, dest, src, size, i) ==
  \A a \in A : CopyBytes(memory, dest, src, size, i)[a] =
                Copied(memory, dest, src, size, a)

\* A loop that reads nothing it has written copies.
LEMMA Copying ==
  ASSUME NEW A, NEW memory, NEW dest, NEW src, NEW size, NEW i,
         CopyLoop(A, memory, dest, src, size, i)
  PROVE  Copies(A, memory, dest, src, size, i)
  <1> DEFINE V == [A -> Byte]
             pass(m, k) == [m EXCEPT ![dest + i[k]] = m[src + i[k]]]
             step == [k \in 0 .. (size - 1) |-> [m \in V |-> pass(m, k)]]
             after == CHOOSE f : f = [k \in 0 .. size |->
                        IF k = 0 THEN memory
                        ELSE [f[k - 1] EXCEPT
                                ![dest + i[k - 1]] = f[k - 1][src + i[k - 1]]]]
  <1> USE DEF CopyLoop
  <1>1. CopyBytes(memory, dest, src, size, i) = after[size]
    BY DEF CopyBytes, Loop
  <1>2. \A k \in 0 .. (size - 1) : dest + i[k] \in A /\ src + i[k] \in A
    OBVIOUS
  <1>3. \A k \in 0 .. (size - 1) : \A m \in V : pass(m, k) \in V
    BY <1>2
  <1>4. PICK f : Run(f, V, memory, size, step)
    <2>1. \A k \in 0 .. (size - 1) : \A m \in V : step[k][m] \in V BY <1>3
    <2>2. memory \in V OBVIOUS
    <2>3. Steps(V, memory, size, step)
      <3> HIDE DEF step, V
      <3> QED BY <2>1, <2>2 DEF Steps
    <2> HIDE DEF step, V
    <2> QED BY <2>3, Passes, Zenon
  <1>5. f = [k \in 0 .. size |-> IF k = 0 THEN memory ELSE pass(f[k - 1], k - 1)]
    <2>1. ASSUME NEW k \in 0 .. size
          PROVE  f[k] = IF k = 0 THEN memory ELSE pass(f[k - 1], k - 1)
      <3>0. f \in [0 .. size -> V]
        <4> HIDE DEF V, step
        <4> QED BY <1>4 DEF Run
      <3>1. CASE k = 0
        <4> HIDE DEF V, step, pass
        <4> QED BY <3>1, <1>4 DEF Run
      <3>2. CASE k # 0
        <4>1. k - 1 \in 0 .. (size - 1) /\ k - 1 \in 0 .. size /\ (k - 1) + 1 = k
          BY <3>2
        <4>2. f[k - 1] \in V BY <4>1, <3>0
        <4>3. step[k - 1][f[k - 1]] = pass(f[k - 1], k - 1) BY <4>1, <4>2
        <4> HIDE DEF step, pass, V
        <4>4. f[k] = step[k - 1][f[k - 1]] BY <1>4, <4>1 DEF Run
        <4> QED BY <4>3, <4>4, <3>2
      <3> QED BY <3>1, <3>2
    <2>2. DOMAIN f = 0 .. size /\ f = [k \in DOMAIN f |-> f[k]]
      <3> HIDE DEF V, step
      <3> QED BY <1>4 DEF Run
    <2> HIDE DEF pass
    <2> QED BY <2>1, <2>2
  <1>6. after = [k \in 0 .. size |-> IF k = 0 THEN memory ELSE pass(after[k - 1], k - 1)]
    BY <1>5, Zenon
  <1> HIDE DEF after
  <1>7. after[0] = memory BY <1>6
  <1>8. ASSUME NEW k \in 0 .. (size - 1) PROVE after[k + 1] = pass(after[k], k)
    <2>1. k + 1 \in 0 .. size /\ k + 1 # 0 /\ (k + 1) - 1 = k OBVIOUS
    <2> HIDE DEF pass
    <2> QED BY <2>1, <1>6
  <1> DEFINE Done(a, k) == \E j \in 0 .. (k - 1) : a = dest + i[j]
             Right(k) == /\ after[k] \in V
                         /\ \A a \in A : after[k][a] =
                              IF Done(a, k) THEN memory[a - dest + src] ELSE memory[a]
             S == {k \in 0 .. size : Right(k)}
  <1>9. 0 .. size \subseteq S
    <2>1. 0 \in S BY <1>7
    <2>2. ASSUME NEW k \in 0 .. (size - 1), k \in S PROVE k + 1 \in S
      <3>0. after[k] \in V /\ i[k] \in Nat
        <4> HIDE DEF V, Done
        <4> QED BY <2>2
      <3>1. after[k + 1] \in V
        <4> HIDE DEF V, pass
        <4> QED BY <3>0, <1>8, <1>3
      <3>2. after[k][src + i[k]] = memory[src + i[k]]
        <4>1. ~Done(src + i[k], k) OBVIOUS
        <4>2. src + i[k] \in A BY <1>2
        <4> HIDE DEF Done
        <4> QED BY <4>1, <4>2, <2>2
      <3>3. ASSUME NEW a \in A
            PROVE  after[k + 1][a] =
                     IF Done(a, k + 1) THEN memory[a - dest + src] ELSE memory[a]
        <4>1. CASE a = dest + i[k]
          <5>1. Done(a, k + 1) BY <4>1
          <5>2. a - dest + src = src + i[k] BY <3>0, <4>1
          <5>3. after[k + 1][a] = after[k][src + i[k]] BY <3>0, <4>1, <1>8
          <5> HIDE DEF Done
          <5> QED BY <5>1, <5>2, <5>3, <3>2
        <4>2. CASE a # dest + i[k]
          <5>1. Done(a, k + 1) <=> Done(a, k)
            <6>1. \A j \in 0 .. k : j \in 0 .. (k - 1) \/ j = k OBVIOUS
            <6>2. (k + 1) - 1 = k /\ 0 .. (k - 1) \subseteq 0 .. k OBVIOUS
            <6> QED BY <6>1, <6>2, <4>2, Zenon
          <5>2. after[k + 1][a] = after[k][a] BY <4>2, <1>8, <3>0
          <5> HIDE DEF Done
          <5> QED BY <5>1, <5>2, <2>2
        <4> QED BY <4>1, <4>2
      <3> HIDE DEF Done
      <3>4. Right(k + 1) BY <3>1, <3>3
      <3> HIDE DEF Right
      <3> QED BY <3>4
    <2> HIDE DEF S
    <2> QED BY <2>1, <2>2, BoundedInduction
  <1>10. Right(size)
    <2>1. size \in S
      <3> HIDE DEF S
      <3> QED BY <1>9
    <2> HIDE DEF Right
    <2> QED BY <2>1
  <1>11. ASSUME NEW a \in A PROVE Done(a, size) <=> a \in dest .. (dest + size - 1)
    <2>1. ASSUME a \in dest .. (dest + size - 1) PROVE Done(a, size)
      <3>1. a - dest \in 0 .. (size - 1) BY <2>1
      <3>2. PICK k \in 0 .. (size - 1) : i[k] = a - dest BY <3>1
      <3>3. a = dest + i[k] BY <3>1, <3>2, <2>1
      <3> QED BY <3>3
    <2>2. ASSUME Done(a, size) PROVE a \in dest .. (dest + size - 1)
      <3>1. PICK j \in 0 .. (size - 1) : a = dest + i[j] BY <2>2
      <3> DEFINE o == i[j]
      <3>2. o \in 0 .. (size - 1) /\ a = dest + o BY <3>1
      <3> HIDE DEF o
      <3> QED BY <3>2
    <2> HIDE DEF Done
    <2> QED BY <2>1, <2>2
  <1> HIDE DEF Done
  <1> QED BY <1>1, <1>10, <1>11 DEF Copies, Copied

\* memmove copies whichever way the places overlap, memcpy if they do not.
THEOREM Moves ==
  ASSUME NEW A, NEW memory \in [A -> Byte],
         NEW size \in Nat, NEW dest \in Nat, NEW src \in Nat,
         dest .. (dest + size - 1) \subseteq A, src .. (src + size - 1) \subseteq A
  PROVE  /\ \A a \in A : memmove(memory, dest, src, size)[a] =
                           Copied(memory, dest, src, size, a)
         /\ ~(dest < src + size /\ src < dest + size) =>
              \A a \in A : memcpy(memory, dest, src, size)[a] =
                             Copied(memory, dest, src, size, a)
  <1> DEFINE R == 0 .. (size - 1)
  <1>1. Up(size) \in [R -> R] /\ \A k \in R : Up(size)[k] = k
    BY DEF Up
  <1>2. Down(size) \in [R -> R] /\ \A k \in R : Down(size)[k] = size - 1 - k
    BY DEF Down
  <1>3. \A o \in R : \E k \in R : Down(size)[k] = o
    <2> TAKE o \in R
    <2>1. size - 1 - o \in R /\ size - 1 - (size - 1 - o) = o OBVIOUS
    <2> QED BY <1>2, <2>1
  <1>4. \A o \in R : \E k \in R : Up(size)[k] = o BY <1>1
  <1>5. ASSUME \/ dest <= src
               \/ ~(dest < src + size /\ src < dest + size)
        PROVE  \A a \in A : CopyBytes(memory, dest, src, size, Up(size))[a] =
                              Copied(memory, dest, src, size, a)
    <2>1. \A j, k \in R : j < k => dest + Up(size)[j] # src + Up(size)[k]
      BY <1>1, <1>5
    <2>2. CopyLoop(A, memory, dest, src, size, Up(size))
      BY <1>1, <1>4, <2>1 DEF CopyLoop
    <2>3. Copies(A, memory, dest, src, size, Up(size)) BY ONLY <2>2, Copying
    <2> QED BY ONLY <2>3 DEF Copies
  <1>6. ASSUME dest >= src
        PROVE  \A a \in A : CopyBytes(memory, dest, src, size, Down(size))[a] =
                              Copied(memory, dest, src, size, a)
    <2>1. \A j, k \in R : j < k => dest + Down(size)[j] # src + Down(size)[k]
      BY <1>2, <1>6
    <2>2. CopyLoop(A, memory, dest, src, size, Down(size))
      BY <1>2, <1>3, <2>1 DEF CopyLoop
    <2>3. Copies(A, memory, dest, src, size, Down(size)) BY ONLY <2>2, Copying
    <2> QED BY ONLY <2>3 DEF Copies
  <1>7. CASE dest < src BY <1>5, <1>7 DEF memmove, memcpy
  <1>8. CASE ~(dest < src) BY <1>5, <1>6, <1>8 DEF memmove, memcpy
  <1> QED BY <1>7, <1>8

\* memset fills the place and nothing else, with the value as an unsigned char.
THEOREM Sets ==
  ASSUME NEW A, NEW memory \in [A -> Byte],
         NEW size \in Nat, NEW buf \in Nat, NEW val \in Int,
         buf .. (buf + size - 1) \subseteq A
  PROVE  \A a \in A : memset(memory, buf, val, size)[a] =
           IF a \in buf .. (buf + size - 1) THEN val % BYTE ELSE memory[a]
  <1> DEFINE V == [A -> Byte]
             v == val % BYTE
             pass(m, k) == [m EXCEPT ![buf + k] = v]
             step == [k \in 0 .. (size - 1) |-> [m \in V |-> pass(m, k)]]
             after == CHOOSE f : f = [k \in 0 .. size |->
                        IF k = 0 THEN memory
                        ELSE [f[k - 1] EXCEPT ![buf + (k - 1)] = v]]
  <1>1. memset(memory, buf, val, size) = after[size]
    BY DEF memset, Loop
  <1>0. v \in Byte BY DEF BYTE, Byte
  <1> HIDE DEF v
  <1>2. \A k \in 0 .. (size - 1) : buf + k \in A
    OBVIOUS
  <1>3. \A k \in 0 .. (size - 1) : \A m \in V : pass(m, k) \in V
    BY <1>0, <1>2
  <1>4. PICK f : Run(f, V, memory, size, step)
    <2>1. \A k \in 0 .. (size - 1) : \A m \in V : step[k][m] \in V BY <1>3
    <2>2. memory \in V OBVIOUS
    <2>3. Steps(V, memory, size, step)
      <3> HIDE DEF step, V
      <3> QED BY <2>1, <2>2 DEF Steps
    <2> HIDE DEF step, V
    <2> QED BY <2>3, Passes, Zenon
  <1>5. f = [k \in 0 .. size |-> IF k = 0 THEN memory ELSE pass(f[k - 1], k - 1)]
    <2>1. ASSUME NEW k \in 0 .. size
          PROVE  f[k] = IF k = 0 THEN memory ELSE pass(f[k - 1], k - 1)
      <3>0. f \in [0 .. size -> V]
        <4> HIDE DEF V, step
        <4> QED BY <1>4 DEF Run
      <3>1. CASE k = 0
        <4> HIDE DEF V, step, pass
        <4> QED BY <3>1, <1>4 DEF Run
      <3>2. CASE k # 0
        <4>1. k - 1 \in 0 .. (size - 1) /\ k - 1 \in 0 .. size /\ (k - 1) + 1 = k
          BY <3>2
        <4>2. f[k - 1] \in V BY <4>1, <3>0
        <4>3. step[k - 1][f[k - 1]] = pass(f[k - 1], k - 1) BY <4>1, <4>2
        <4> HIDE DEF step, pass, V
        <4>4. f[k] = step[k - 1][f[k - 1]] BY <1>4, <4>1 DEF Run
        <4> QED BY <4>3, <4>4, <3>2
      <3> QED BY <3>1, <3>2
    <2>2. DOMAIN f = 0 .. size /\ f = [k \in DOMAIN f |-> f[k]]
      <3> HIDE DEF V, step
      <3> QED BY <1>4 DEF Run
    <2> HIDE DEF pass
    <2> QED BY <2>1, <2>2
  <1>6. after = [k \in 0 .. size |-> IF k = 0 THEN memory ELSE pass(after[k - 1], k - 1)]
    BY <1>5, Zenon
  <1> HIDE DEF after
  <1>7. after[0] = memory BY <1>6
  <1>8. ASSUME NEW k \in 0 .. (size - 1) PROVE after[k + 1] = pass(after[k], k)
    <2>1. k + 1 \in 0 .. size /\ k + 1 # 0 /\ (k + 1) - 1 = k OBVIOUS
    <2> HIDE DEF pass
    <2> QED BY <2>1, <1>6
  <1> DEFINE Right(k) == /\ after[k] \in V
                         /\ \A a \in A : after[k][a] =
                              IF a \in buf .. (buf + k - 1) THEN v ELSE memory[a]
             S == {k \in 0 .. size : Right(k)}
  <1>9. 0 .. size \subseteq S
    <2>1. 0 \in S BY <1>7
    <2>2. ASSUME NEW k \in 0 .. (size - 1), k \in S PROVE k + 1 \in S
      <3>0. after[k] \in V BY <2>2
      <3>1. after[k + 1] \in V
        <4> HIDE DEF V, pass
        <4> QED BY <3>0, <1>8, <1>3
      <3>3. ASSUME NEW a \in A
            PROVE  after[k + 1][a] = IF a \in buf .. (buf + k) THEN v ELSE memory[a]
        <4>1. CASE a = buf + k
          <5>1. after[k + 1][a] = v BY <3>0, <4>1, <1>8
          <5> QED BY <5>1, <4>1
        <4>2. CASE a # buf + k
          <5>1. a \in buf .. (buf + k) <=> a \in buf .. (buf + k - 1) BY <4>2
          <5>2. after[k + 1][a] = after[k][a] BY <4>2, <1>8, <3>0
          <5> QED BY <5>1, <5>2, <2>2
        <4> QED BY <4>1, <4>2
      <3>4. (buf + (k + 1)) - 1 = buf + k OBVIOUS
      <3>5. Right(k + 1) BY <3>1, <3>3, <3>4
      <3> HIDE DEF Right
      <3> QED BY <3>5
    <2> HIDE DEF S
    <2> QED BY <2>1, <2>2, BoundedInduction
  <1>10. Right(size)
    <2>1. size \in S
      <3> HIDE DEF S
      <3> QED BY <1>9
    <2> HIDE DEF Right
    <2> QED BY <2>1
  <1> QED BY <1>1, <1>10 DEF v

\* Where two places differ.
DifferAt(memory, a, b, size) ==
  {o \in 0 .. (size - 1) : memory[a + o] # memory[b + o]}

\* memcmp goes by the first difference.
Compared(memory, a, b, size) ==
  \/ DifferAt(memory, a, b, size) = {} /\ memcmp(memory, a, b, size) = 0
  \/ \E o \in DifferAt(memory, a, b, size) :
       /\ \A p \in DifferAt(memory, a, b, size) : o <= p
       /\ memcmp(memory, a, b, size) =
            IF memory[a + o] < memory[b + o] THEN -1 ELSE 1

\* memcmp goes by the first difference.
THEOREM Compares ==
  ASSUME NEW A, NEW memory \in [A -> Byte],
         NEW size \in Nat, NEW a \in Nat, NEW b \in Nat,
         a .. (a + size - 1) \subseteq A, b .. (b + size - 1) \subseteq A
  PROVE  Compared(memory, a, b, size)
  <1> DEFINE V == {-1, 0, 1}
             At(c, o) == memory[c + o]
             pass(r, k) == CASE r # 0 -> r
                             [] r = 0 /\ At(a, k) < At(b, k) -> -1
                             [] r = 0 /\ At(a, k) > At(b, k) -> 1
                             [] r = 0 /\ At(a, k) = At(b, k) -> 0
             step == [k \in 0 .. (size - 1) |-> [r \in V |-> pass(r, k)]]
             after == CHOOSE f : f = [k \in 0 .. size |->
                        IF k = 0 THEN 0 ELSE pass(f[k - 1], k - 1)]
  <1>1. memcmp(memory, a, b, size) = after[size]
    BY DEF memcmp, Loop
  <1>2. \A o \in 0 .. (size - 1) : At(a, o) \in Int /\ At(b, o) \in Int
    BY DEF Byte, BYTE
  <1> HIDE DEF At
  <1>3. \A k \in 0 .. (size - 1) : \A r \in V : pass(r, k) \in V
    BY <1>2
  <1>4. PICK f : Run(f, V, 0, size, step)
    <2>1. \A k \in 0 .. (size - 1) : \A r \in V : step[k][r] \in V BY <1>3
    <2>2. 0 \in V OBVIOUS
    <2>3. Steps(V, 0, size, step)
      <3> HIDE DEF step, V
      <3> QED BY <2>1, <2>2 DEF Steps
    <2> HIDE DEF step, V
    <2> QED BY <2>3, Passes, Zenon
  <1>5. f = [k \in 0 .. size |-> IF k = 0 THEN 0 ELSE pass(f[k - 1], k - 1)]
    <2>1. ASSUME NEW k \in 0 .. size
          PROVE  f[k] = IF k = 0 THEN 0 ELSE pass(f[k - 1], k - 1)
      <3>0. f \in [0 .. size -> V]
        <4> HIDE DEF V, step
        <4> QED BY <1>4 DEF Run
      <3>1. CASE k = 0
        <4> HIDE DEF V, step, pass
        <4> QED BY <3>1, <1>4 DEF Run
      <3>2. CASE k # 0
        <4>1. k - 1 \in 0 .. (size - 1) /\ k - 1 \in 0 .. size /\ (k - 1) + 1 = k
          BY <3>2
        <4> HIDE DEF pass
        <4>2. f[k - 1] \in V BY <4>1, <3>0
        <4>3. step[k - 1][f[k - 1]] = pass(f[k - 1], k - 1) BY <4>1, <4>2
        <4> HIDE DEF step, V
        <4>4. f[k] = step[k - 1][f[k - 1]] BY <1>4, <4>1 DEF Run
        <4> QED BY <4>3, <4>4, <3>2
      <3> QED BY <3>1, <3>2
    <2>2. DOMAIN f = 0 .. size /\ f = [k \in DOMAIN f |-> f[k]]
      <3> HIDE DEF V, step
      <3> QED BY <1>4 DEF Run
    <2> HIDE DEF pass
    <2> QED BY <2>1, <2>2
  <1> HIDE DEF pass
  <1>6. after = [k \in 0 .. size |-> IF k = 0 THEN 0 ELSE pass(after[k - 1], k - 1)]
    BY <1>5, Zenon
  <1> HIDE DEF after
  <1>7. after[0] = 0 BY <1>6
  <1>8. ASSUME NEW k \in 0 .. (size - 1) PROVE after[k + 1] = pass(after[k], k)
    <2>1. k + 1 \in 0 .. size /\ k + 1 # 0 /\ (k + 1) - 1 = k OBVIOUS
    <2> QED BY <2>1, <1>6
  <1> DEFINE differ == {o \in 0 .. (size - 1) : At(a, o) # At(b, o)}
             Sign(o) == IF At(a, o) < At(b, o) THEN -1 ELSE 1
             First(o, r) == (\A p \in differ : o <= p) /\ r = Sign(o)
             Right(k) == \/ after[k] = 0 /\ \A o \in differ : o >= k
                         \/ \E o \in differ : o < k /\ First(o, after[k])
             S == {k \in 0 .. size : Right(k)}
  <1>9. 0 .. size \subseteq S
    <2>1. 0 \in S BY <1>7
    <2>2. ASSUME NEW k \in 0 .. (size - 1), k \in S PROVE k + 1 \in S
      <3>0. k + 1 \in 0 .. size OBVIOUS
      <3>1. CASE after[k] = 0 /\ \A o \in differ : o >= k
        <4>1. CASE k \in differ
          <5>1. after[k + 1] = Sign(k) BY <1>8, <3>1, <4>1, <1>2 DEF pass
          <5> QED BY <5>1, <3>1, <4>1, <3>0
        <4>2. CASE k \notin differ
          <5>1. after[k + 1] = 0 BY <1>8, <3>1, <4>2, <1>2 DEF pass
          <5>2. \A o \in differ : o >= k + 1 BY <4>2, <3>1
          <5> HIDE DEF differ
          <5> QED BY <5>1, <5>2, <3>0
        <4> QED BY <4>1, <4>2
      <3>2. ASSUME NEW o \in differ, o < k, First(o, after[k]) PROVE k + 1 \in S
        <4>1. after[k] # 0 BY <3>2
        <4>2. after[k + 1] = after[k] BY <1>8, <4>1 DEF pass
        <4>3. o < k + 1 BY <3>2
        <4> HIDE DEF differ, First
        <4> QED BY <4>2, <4>3, <3>2, <3>0
      <3> HIDE DEF First, differ
      <3> QED BY <2>2, <3>1, <3>2
    <2> HIDE DEF S
    <2> QED BY <2>1, <2>2, BoundedInduction
  <1>10. Right(size)
    <2>1. size \in S
      <3> HIDE DEF S
      <3> QED BY <1>9
    <2> HIDE DEF Right
    <2> QED BY <2>1
  <1>11. \A o \in differ : ~(o >= size) OBVIOUS
  <1>12. \/ differ = {} /\ after[size] = 0
         \/ \E o \in differ : First(o, after[size])
    <2> HIDE DEF differ, First
    <2> QED BY <1>10, <1>11
  <1> QED BY <1>1, <1>12, Zenon DEF At, Compared, DifferAt

-----------------------------------------------------------------------------
(***************************************************************************)
(* Numbers                                                                 *)
(***************************************************************************)

\* Power is what its definition says.
LEMMA PowerIs ==
  ASSUME NEW r \in Nat
  PROVE  /\ Power(r, 0) = 1
         /\ \A k \in Nat : Power(r, k) \in Nat /\ Power(r, k + 1) = r * Power(r, k)
  <1> DEFINE p == CHOOSE f : f = [j \in Nat |-> IF j = 0 THEN 1 ELSE r * f[j - 1]]
             F == [Nat -> Nat]
             D == [j \in Nat |-> [f \in F |-> IF j = 0 THEN 1 ELSE r * f[j - 1]]]
             mu == [j \in Nat |-> j]
  <1>0. \A k : Power(r, k) = p[k] BY DEF Power
  <1>1. Recursive(Nat, mu, Nat, D)
    <2>1. \A j \in Nat : \A f \in F : D[j][f] \in Nat OBVIOUS
    <2>2. ASSUME NEW j \in Nat, NEW g \in F, NEW h \in F,
                 \A y \in Nat : mu[y] < mu[j] => g[y] = h[y]
          PROVE  D[j][g] = D[j][h]
      <3>1. CASE j = 0 BY <3>1
      <3>2. CASE j # 0
        <4>1. j - 1 \in Nat /\ j - 1 < j BY <3>2
        <4>2. g[j - 1] = h[j - 1] BY <4>1, <2>2
        <4> QED BY <4>2
      <3> QED BY <3>1, <3>2
    <2>3. mu \in [Nat -> Nat] /\ Nat # {} OBVIOUS
    <2> HIDE DEF mu, D
    <2> QED BY <2>1, <2>2, <2>3, Zenon DEF Recursive
  <1>2. PICK f : Solution(f, Nat, Nat, D)
    <2> HIDE DEF mu, D
    <2> QED BY <1>1, Recursion, Zenon
  <1>3. f = [j \in Nat |-> IF j = 0 THEN 1 ELSE r * f[j - 1]]
    BY <1>2 DEF Solution
  <1>4. p = [j \in Nat |-> IF j = 0 THEN 1 ELSE r * p[j - 1]] BY <1>3, Zenon
  <1> HIDE DEF p
  <1>5. p[0] = 1 BY <1>4
  <1>6. \A k \in Nat : p[k + 1] = r * p[k] BY <1>4
  <1>7. \A k \in Nat : p[k] \in Nat
    <2> DEFINE S == {k \in Nat : p[k] \in Nat}
    <2>1. 0 \in S BY <1>5
    <2>2. \A k \in Nat : k \in S => k + 1 \in S BY <1>6
    <2> HIDE DEF S
    <2>3. Nat \subseteq S BY <2>1, <2>2, Induction, Zenon
    <2> QED BY <2>3 DEF S
  <1> QED BY <1>0, <1>5, <1>6, <1>7, Zenon

\* Powers are positive and grow with the exponent and the radix.
LEMMA PowersGrow ==
  ASSUME NEW r \in Nat, r >= 2
  PROVE  /\ \A k \in Nat : Power(r, k) >= 1
         /\ \A j, k \in Nat : j < k => Power(r, j) < Power(r, k)
         /\ \A k \in Nat : Power(2, k) <= Power(r, k)
  <1>1. \A k \in Nat : Power(r, k) >= 1
    <2> DEFINE S == {k \in Nat : Power(r, k) >= 1}
    <2>1. 0 \in S BY PowerIs
    <2>2. ASSUME NEW k \in Nat, k \in S PROVE k + 1 \in S
      <3> DEFINE p == Power(r, k)
      <3>1. p \in Nat /\ p >= 1 /\ Power(r, k + 1) = r * p BY <2>2, PowerIs
      <3> HIDE DEF p
      <3>2. r * p >= 1 BY <3>1
      <3> QED BY <3>1, <3>2
    <2> HIDE DEF S
    <2>3. Nat \subseteq S BY <2>1, <2>2, Induction, Zenon
    <2> QED BY <2>3 DEF S
  <1>2. \A k \in Nat : Power(r, k) < Power(r, k + 1)
    <2> TAKE k \in Nat
    <2> DEFINE p == Power(r, k)
    <2>1. p \in Nat /\ p >= 1 /\ Power(r, k + 1) = r * p BY <1>1, PowerIs
    <2> HIDE DEF p
    <2>2. r * p > p BY <2>1
    <2> QED BY <2>1, <2>2 DEF p
  <1>3. ASSUME NEW j \in Nat PROVE \A k \in Nat : j < k => Power(r, j) < Power(r, k)
    <2> DEFINE S == {k \in Nat : j < k => Power(r, j) < Power(r, k)}
    <2>1. 0 \in S OBVIOUS
    <2>2. ASSUME NEW k \in Nat, k \in S PROVE k + 1 \in S
      <3>1. Power(r, k) < Power(r, k + 1) BY <1>2
      <3>0. k + 1 \in Nat OBVIOUS
      <3>2. Power(r, j) \in Nat /\ Power(r, k) \in Nat /\ Power(r, k + 1) \in Nat
        BY <3>0, PowerIs
      <3>3. j < k + 1 => j < k \/ j = k OBVIOUS
      <3> QED BY <2>2, <3>1, <3>2, <3>3
    <2> HIDE DEF S
    <2>3. Nat \subseteq S BY <2>1, <2>2, Induction, Zenon
    <2> QED BY <2>3 DEF S
  <1>4. \A k \in Nat : Power(2, k) <= Power(r, k)
    <2> DEFINE S == {k \in Nat : Power(2, k) <= Power(r, k)}
    <2>1. 0 \in S BY PowerIs
    <2>2. ASSUME NEW k \in Nat, k \in S PROVE k + 1 \in S
      <3> DEFINE p == Power(2, k)
                 q == Power(r, k)
      <3>1. /\ p \in Nat /\ q \in Nat /\ p <= q
            /\ Power(2, k + 1) = 2 * p /\ Power(r, k + 1) = r * q
        BY <2>2, PowerIs
      <3> HIDE DEF p, q
      <3>2. 2 * p <= r * q
        <4>1. 2 * q <= r * q BY <3>1
        <4>2. 2 * p <= 2 * q BY <3>1
        <4>3. r * q \in Nat BY <3>1
        <4> QED BY <4>1, <4>2, <4>3, <3>1
      <3> QED BY <3>1, <3>2
    <2> HIDE DEF S
    <2>3. Nat \subseteq S BY <2>1, <2>2, Induction, Zenon
    <2> QED BY <2>3 DEF S
  <1> QED BY <1>1, <1>3, <1>4

\* There are at least two numbers.
LEMMA Widths ==
  /\ BITS \in Nat \ {0}
  /\ WIDTH \in Nat
  /\ WIDTH >= 2
  <1>1. BITS \in Nat /\ BITS >= 1 BY BitsAssumption
  <1>2. Power(2, 1) = 2
    <2>1. 0 + 1 = 1 OBVIOUS
    <2>2. Power(2, 0 + 1) = 2 * Power(2, 0) /\ Power(2, 0) = 1 BY PowerIs
    <2> QED BY <2>1, <2>2
  <1>3. Power(2, BITS) \in Nat BY <1>1, PowerIs
  <1>4. BITS = 1 \/ Power(2, 1) < Power(2, BITS) BY <1>1, PowersGrow
  <1> QED BY <1>1, <1>2, <1>3, <1>4 DEF WIDTH

\* Every number but 0 lies between two powers of two that follow each other.
LEMMA TopBit ==
  ASSUME NEW B \in Nat, NEW m \in Nat, m # 0, m < Power(2, B)
  PROVE  \E h \in 0 .. (B - 1) : Power(2, h) <= m /\ m < Power(2, h + 1)
  <1> DEFINE S == {b \in Nat : Power(2, b) <= m \/
                     \E h \in 0 .. (b - 1) : Power(2, h) <= m /\ m < Power(2, h + 1)}
  <1>1. 0 \in S BY PowerIs
  <1>2. ASSUME NEW b \in Nat, b \in S PROVE b + 1 \in S
    <2>0. b + 1 \in Nat /\ b \in 0 .. ((b + 1) - 1) OBVIOUS
    <2>1. CASE Power(2, b) <= m
      <3>1. Power(2, b + 1) \in Nat BY <2>0, PowerIs
      <3>2. Power(2, b + 1) <= m \/ m < Power(2, b + 1) BY <3>1
      <3> QED BY <2>0, <2>1, <3>2
    <2>2. CASE ~(Power(2, b) <= m)
      <3>1. PICK h \in 0 .. (b - 1) : Power(2, h) <= m /\ m < Power(2, h + 1)
        BY <1>2, <2>2
      <3>2. h \in 0 .. ((b + 1) - 1) OBVIOUS
      <3> QED BY <2>0, <3>1, <3>2
    <2> QED BY <2>1, <2>2
  <1>3. Nat \subseteq S
    <2> HIDE DEF S
    <2> QED BY <1>1, <1>2, Induction, Zenon
  <1>4. Power(2, B) \in Nat BY PowerIs
  <1> QED BY <1>3, <1>4

\* The quotient is the only number with these bounds.
LEMMA Quotient ==
  ASSUME NEW n \in Nat, NEW m \in Nat, m >= 1, NEW q \in Nat,
         m * q <= n, n < m * (q + 1)
  PROVE  n \div m = q
  <1> DEFINE d == n \div m
  <1>1. d \in Nat /\ m * d <= n /\ n < m * d + m
    <2>1. n = m * d + (n % m) /\ n % m \in 0 .. (m - 1) OBVIOUS
    <2>2. d \in Nat OBVIOUS
    <2> QED BY <2>1, <2>2
  <1> HIDE DEF d
  <1>2. ~(d < q)
    <2> SUFFICES ASSUME d + 1 <= q PROVE FALSE BY <1>1
    <2>1. m * (d + 1) <= m * q BY <1>1
    <2>2. m * (d + 1) = m * d + m BY <1>1
    <2> QED BY <1>1, <2>1, <2>2
  <1>3. ~(q < d)
    <2> SUFFICES ASSUME q + 1 <= d PROVE FALSE BY <1>1
    <2>1. m * (q + 1) <= m * d BY <1>1
    <2> QED BY <1>1, <2>1
  <1>4. d = q BY <1>1, <1>2, <1>3
  <1> QED BY <1>4 DEF d

\* The bounds of a quotient.
LEMMA Divided ==
  ASSUME NEW n \in Nat, NEW m \in Nat, m >= 1
  PROVE  /\ n \div m \in Nat
         /\ m * (n \div m) <= n
         /\ n < m * ((n \div m) + 1)
  <1> DEFINE d == n \div m
  <1>1. n = m * d + (n % m) /\ n % m \in 0 .. (m - 1) OBVIOUS
  <1>2. d \in Nat OBVIOUS
  <1>3. m * (d + 1) = m * d + m BY <1>2
  <1> QED BY <1>1, <1>2, <1>3

\* Products grow with a factor.
LEMMA Monotone ==
  \A a, x, y \in Nat : x <= y => a * x <= a * y /\ a * x \in Nat /\ a * y \in Nat
  <1> SUFFICES ASSUME NEW a \in Nat, NEW x \in Nat, NEW y \in Nat, x <= y
      PROVE  a * x <= a * y /\ a * x \in Nat /\ a * y \in Nat
    OBVIOUS
  <1> DEFINE d == y - x
  <1>1. d \in Nat /\ y = x + d OBVIOUS
  <1> HIDE DEF d
  <1>2. a * (x + d) = a * x + a * d BY <1>1
  <1>3. a * d \in Nat /\ a * x \in Nat BY <1>1
  <1>4. a * (x + d) >= a * x BY <1>2, <1>3
  <1>5. a * y = a * (x + d) BY <1>1
  <1>6. a * (x + d) \in Nat BY <1>2, <1>3
  <1> QED BY <1>3, <1>4, <1>5, <1>6

\* Dividing twice is dividing by the product.
LEMMA DividedTwice ==
  ASSUME NEW n \in Nat, NEW a \in Nat, NEW b \in Nat, a >= 1, b >= 1
  PROVE  (n \div a) \div b = n \div (a * b)
  <1> DEFINE q == n \div a
             p == q \div b
  <1>1. q \in Nat /\ a * q <= n /\ n < a * (q + 1) BY Divided
  <1> HIDE DEF q
  <1>2. p \in Nat /\ b * p <= q /\ q < b * (p + 1) BY <1>1, Divided
  <1> HIDE DEF p
  <1>3. a * b \in Nat /\ a * b >= 1 BY SMT
  <1>4. (a * b) * p <= n
    <2>1. a * (b * p) <= a * q BY <1>1, <1>2
    <2>2. (a * b) * p = a * (b * p) BY <1>2
    <2>3. a * (b * p) \in Nat /\ a * q \in Nat BY <1>1, <1>2
    <2> QED BY <2>1, <2>2, <2>3, <1>1
  <1>5. n < (a * b) * (p + 1)
    <2>1. q + 1 <= b * (p + 1) /\ b * (p + 1) \in Nat BY <1>1, <1>2
    <2>2. a * (q + 1) <= a * (b * (p + 1))
      <3>1. q + 1 \in Nat BY <1>1
      <3> QED BY <2>1, <3>1, Monotone, Zenon
    <2>3. (a * b) * (p + 1) = a * (b * (p + 1)) BY <1>2
    <2>4. a * (q + 1) \in Nat /\ a * (b * (p + 1)) \in Nat BY <2>1, <1>1
    <2> QED BY <2>2, <2>3, <2>4, <1>1
  <1>6. n \div (a * b) = p
    <2> DEFINE m == a * b
    <2>1. m \in Nat /\ m >= 1 /\ m * p <= n /\ n < m * (p + 1) BY <1>3, <1>4, <1>5
    <2> HIDE DEF m
    <2>2. n \div m = p BY <2>1, <1>2, Quotient
    <2> QED BY <2>2 DEF m
  <1> QED BY <1>6 DEF p, q

\* Min gives the least element.
LEMMA LeastIs ==
  ASSUME NEW S \in SUBSET Int, NEW m \in S, \A k \in S : m <= k
  PROVE  Min(S) = m
  <1>1. Min(S) \in S /\ \A k \in S : Min(S) <= k BY Zenon DEF Min
  <1>2. Min(S) \in Int /\ Min(S) <= m /\ m <= Min(S) BY <1>1
  <1> QED BY <1>2

\* The powers of two.
LEMMA Twos ==
  /\ Power(2, 0) = 1
  /\ \A k \in Nat : /\ Power(2, k) \in Nat /\ Power(2, k) >= 1
                     /\ Power(2, k + 1) = 2 * Power(2, k)
  /\ \A j, k \in Nat : j < k => Power(2, j) < Power(2, k)
  <1>1. 2 \in Nat /\ 2 >= 2 OBVIOUS
  <1>2. /\ Power(2, 0) = 1
        /\ \A k \in Nat : Power(2, k) \in Nat /\ Power(2, k + 1) = 2 * Power(2, k)
    BY <1>1, PowerIs
  <1>3. /\ \A k \in Nat : Power(2, k) >= 1
        /\ \A j, k \in Nat : j < k => Power(2, j) < Power(2, k)
    BY <1>1, PowersGrow
  <1> QED BY <1>2, <1>3

-----------------------------------------------------------------------------
(***************************************************************************)
(* utils/ceilPowTwo.c                                                      *)
(***************************************************************************)

\* Of the bits up to h, the highest w are 1.
Top(bits, h, w) == bits \subseteq 0 .. h /\ \A b \in 0 .. h : b > h - w => b \in bits

\* One |= doubles how many of the highest bits are 1.
LEMMA SmearTop ==
  ASSUME NEW bits, NEW h \in Nat, NEW k \in Nat, Top(bits, h, k)
  PROVE  Top(OrShifted(bits, k), h, 2 * k)
  <1>0. bits \subseteq 0 .. h /\ \A b \in 0 .. h : b > h - k => b \in bits BY DEF Top
  <1>1. ASSUME NEW x \in OrShifted(bits, k) PROVE x \in 0 .. h
    <2>1. CASE x \in bits BY <1>0, <2>1
    <2>2. ASSUME NEW c \in bits, c >= k, x = c - k PROVE x \in 0 .. h
      <3>1. c \in 0 .. h BY <1>0
      <3> QED BY <2>2, <3>1
    <2> QED BY <2>1, <2>2 DEF OrShifted
  <1>2. ASSUME NEW b \in 0 .. h, b > h - 2 * k PROVE b \in OrShifted(bits, k)
    <2>1. CASE b > h - k BY <2>1, <1>0 DEF OrShifted
    <2>2. CASE ~(b > h - k)
      <3>1. b + k \in 0 .. h /\ b + k > h - k /\ b + k >= k /\ b = (b + k) - k
        BY <2>2, <1>2
      <3>2. b + k \in {c \in bits : c >= k} BY <3>1, <1>0
      <3> QED BY <3>1, <3>2 DEF OrShifted
    <2> QED BY <2>1, <2>2
  <1> QED BY <1>1, <1>2 DEF Top

\* After the five of them every bit from the highest 1 down is 1.
LEMMA SmearIs ==
  /\ Smeared({}) = {}
  /\ \A h \in 0 .. 31 : \A bits \in SUBSET (0 .. h) :
       h \in bits => Smeared(bits) = 0 .. h
  <1>1. Smeared({}) = {} BY DEF Smeared, OrShifted
  <1>2. ASSUME NEW h \in 0 .. 31, NEW bits \in SUBSET (0 .. h), h \in bits
        PROVE  Smeared(bits) = 0 .. h
    <2> DEFINE b1 == OrShifted(bits, 1)
               b2 == OrShifted(b1, 2)
               b4 == OrShifted(b2, 4)
               b8 == OrShifted(b4, 8)
               b16 == OrShifted(b8, 16)
    <2>0. h \in Nat /\ 1 \in Nat /\ 2 \in Nat /\ 4 \in Nat /\ 8 \in Nat /\ 16 \in Nat
      OBVIOUS
    <2>1. Top(bits, h, 1) BY <1>2 DEF Top
    <2>7. 2 * 1 = 2 /\ 2 * 2 = 4 /\ 2 * 4 = 8 /\ 2 * 8 = 16 /\ 2 * 16 = 32 OBVIOUS
    <2>2. Top(b1, h, 2) BY <2>0, <2>1, <2>7, SmearTop
    <2> HIDE DEF b1
    <2>3. Top(b2, h, 4) BY <2>0, <2>2, <2>7, SmearTop
    <2> HIDE DEF b2
    <2>4. Top(b4, h, 8) BY <2>0, <2>3, <2>7, SmearTop
    <2> HIDE DEF b4
    <2>5. Top(b8, h, 16) BY <2>0, <2>4, <2>7, SmearTop
    <2> HIDE DEF b8
    <2>6. Top(b16, h, 32) BY <2>0, <2>5, <2>7, SmearTop
    <2>8. Smeared(bits) = b16 BY DEF Smeared, b1, b2, b4, b8
    <2> HIDE DEF b16
    <2>9. \A b \in 0 .. h : b \in b16 BY <2>6 DEF Top
    <2> QED BY <2>6, <2>8, <2>9 DEF Top
  <1> QED BY <1>1, <1>2

\* The highest bit that is 1.
LEMMA BitsAre ==
  /\ BitsOf(0) = {}
  /\ \A n \in 0 .. (WIDTH - 1) : \A h \in 0 .. (BITS - 1) :
       Power(2, h) <= n /\ n < Power(2, h + 1) =>
         BitsOf(n) \subseteq 0 .. h /\ h \in BitsOf(n)
  <1>0. \A k \in Nat : Power(2, k) \in Nat /\ Power(2, k) >= 1
                        /\ Power(2, k + 1) = 2 * Power(2, k)
    BY Twos
  <1>1. ASSUME NEW n \in Nat, NEW k \in Nat, n < Power(2, k)
        PROVE  (n \div Power(2, k)) % 2 = 0
    <2>1. n \div Power(2, k) = 0
      <3> DEFINE m == Power(2, k)
      <3>1. m \in Nat /\ m >= 1 /\ n < m BY <1>0, <1>1
      <3> HIDE DEF m
      <3>2. m * 0 <= n /\ n < m * (0 + 1) /\ 0 \in Nat BY <3>1
      <3>3. n \div m = 0 BY <3>1, <3>2, Quotient
      <3> QED BY <3>3 DEF m
    <2> QED BY <2>1
  <1>2. BitsOf(0) = {}
    <2> SUFFICES ASSUME NEW b \in 0 .. (BITS - 1) PROVE (0 \div Power(2, b)) % 2 # 1
      BY DEF BitsOf
    <2>1. b \in Nat /\ 0 < Power(2, b) BY <1>0
    <2>2. (0 \div Power(2, b)) % 2 = 0 BY <2>1, <1>1
    <2> QED BY <2>2
  <1>3. ASSUME NEW n \in 0 .. (WIDTH - 1), NEW h \in 0 .. (BITS - 1),
               Power(2, h) <= n, n < Power(2, h + 1)
        PROVE  BitsOf(n) \subseteq 0 .. h /\ h \in BitsOf(n)
    <2>0. n \in Nat /\ h \in Nat BY Widths
    <2>1. ASSUME NEW b \in BitsOf(n) PROVE b \in 0 .. h
      <3>1. b \in Nat /\ (n \div Power(2, b)) % 2 = 1 BY DEF BitsOf
      <3>2. ~(n < Power(2, b)) BY <3>1, <2>0, <1>1
      <3>3. ~(h + 1 <= b)
        <4> SUFFICES ASSUME h + 1 <= b PROVE FALSE OBVIOUS
        <4>0. h + 1 \in Nat BY <2>0
        <4>1. h + 1 = b \/ h + 1 < b BY <4>0, <3>1
        <4>2. h + 1 = b \/ Power(2, h + 1) < Power(2, b) BY <4>0, <4>1, <3>1, Twos
        <4>3. Power(2, h + 1) \in Nat /\ Power(2, b) \in Nat BY <1>0, <4>0, <3>1
        <4> QED BY <4>2, <4>3, <3>2, <1>3, <2>0
      <3> QED BY <3>1, <3>3, <2>0
    <2>2. n \div Power(2, h) = 1
      <3> DEFINE m == Power(2, h)
      <3>1. m \in Nat /\ m >= 1 /\ m <= n /\ n < 2 * m BY <1>0, <1>3, <2>0
      <3> HIDE DEF m
      <3>2. m * 1 <= n /\ n < m * (1 + 1) /\ 1 \in Nat BY <3>1
      <3>3. n \div m = 1 BY <3>1, <3>2, <2>0, Quotient
      <3> QED BY <3>3 DEF m
    <2>3. (n \div Power(2, h)) % 2 = 1 BY <2>2
    <2> QED BY <2>1, <2>3 DEF BitsOf
  <1> QED BY <1>2, <1>3

\* The number whose lowest j bits are 1.
LEMMA ValueOfLow ==
  ASSUME NEW j \in 0 .. BITS
  PROVE  ValueOf(0 .. (j - 1)) = Power(2, j) - 1
  <1> DEFINE pass(sum, b) == IF b \in 0 .. (j - 1) THEN sum + Power(2, b) ELSE sum
             step == [k \in 0 .. (BITS - 1) |-> [sum \in Nat |-> pass(sum, k)]]
             after == CHOOSE f : f = [k \in 0 .. BITS |->
                        IF k = 0 THEN 0
                        ELSE IF k - 1 \in 0 .. (j - 1) THEN f[k - 1] + Power(2, k - 1) ELSE f[k - 1]]
  <1>0. BITS \in Nat BY Widths
  <1>1. ValueOf(0 .. (j - 1)) = after[BITS] BY DEF ValueOf, Loop
  <1>2. \A k \in Nat : Power(2, k) \in Nat /\ Power(2, k + 1) = 2 * Power(2, k)
    BY Twos
  <1>3. \A k \in 0 .. (BITS - 1) : \A sum \in Nat : pass(sum, k) \in Nat
    BY <1>2
  <1>4. PICK f : Run(f, Nat, 0, BITS, step)
    <2>1. \A k \in 0 .. (BITS - 1) : \A sum \in Nat : step[k][sum] \in Nat BY <1>3
    <2>3. Steps(Nat, 0, BITS, step)
      <3> HIDE DEF step
      <3> QED BY <2>1, <1>0 DEF Steps
    <2> HIDE DEF step
    <2> QED BY <2>3, Passes, Zenon
  <1>5. f = [k \in 0 .. BITS |-> IF k = 0 THEN 0 ELSE pass(f[k - 1], k - 1)]
    <2>1. ASSUME NEW k \in 0 .. BITS
          PROVE  f[k] = IF k = 0 THEN 0 ELSE pass(f[k - 1], k - 1)
      <3>0. f \in [0 .. BITS -> Nat]
        <4> HIDE DEF step
        <4> QED BY <1>4 DEF Run
      <3>1. CASE k = 0
        <4> HIDE DEF step, pass
        <4> QED BY <3>1, <1>4 DEF Run
      <3>2. CASE k # 0
        <4>1. k - 1 \in 0 .. (BITS - 1) /\ k - 1 \in 0 .. BITS /\ (k - 1) + 1 = k
          BY <3>2, <1>0
        <4> HIDE DEF pass
        <4>2. f[k - 1] \in Nat BY <4>1, <3>0
        <4>3. step[k - 1][f[k - 1]] = pass(f[k - 1], k - 1) BY <4>1, <4>2
        <4> HIDE DEF step
        <4>4. f[k] = step[k - 1][f[k - 1]] BY <1>4, <4>1 DEF Run
        <4> QED BY <4>3, <4>4, <3>2
      <3> QED BY <3>1, <3>2
    <2>2. DOMAIN f = 0 .. BITS /\ f = [k \in DOMAIN f |-> f[k]]
      <3> HIDE DEF step
      <3> QED BY <1>4 DEF Run
    <2> HIDE DEF pass
    <2> QED BY <2>1, <2>2
  <1>6. after = [k \in 0 .. BITS |-> IF k = 0 THEN 0 ELSE pass(after[k - 1], k - 1)]
    BY <1>5, Zenon
  <1> HIDE DEF after
  <1>7. after[0] = 0 BY <1>6, <1>0
  <1>8. ASSUME NEW k \in 0 .. (BITS - 1) PROVE after[k + 1] = pass(after[k], k)
    <2>1. k + 1 \in 0 .. BITS /\ k + 1 # 0 /\ (k + 1) - 1 = k BY <1>0
    <2> HIDE DEF pass
    <2> QED BY <2>1, <1>6
  <1> DEFINE Right(k) == after[k] = IF k <= j THEN Power(2, k) - 1 ELSE Power(2, j) - 1
             S == {k \in 0 .. BITS : Right(k)}
  <1>9. 0 .. BITS \subseteq S
    <2>1. Right(0) BY <1>7, Twos
    <2>3. 0 \in S BY <2>1, <1>0
    <2>2. ASSUME NEW k \in 0 .. (BITS - 1), k \in S PROVE k + 1 \in S
      <3>0. k + 1 \in 0 .. BITS /\ k \in Nat BY <1>0
      <3>1. CASE k < j
        <4>1. after[k] = Power(2, k) - 1 /\ after[k + 1] = after[k] + Power(2, k)
          BY <2>2, <1>8, <3>0, <3>1
        <4>2. Power(2, k + 1) = 2 * Power(2, k) /\ Power(2, k) \in Nat BY <3>0, <1>2
        <4>3. after[k + 1] = Power(2, k + 1) - 1 BY <4>1, <4>2
        <4>4. k + 1 <= j BY <3>1
        <4> QED BY <4>3, <4>4, <3>0
      <3>2. CASE ~(k < j)
        <4>1. after[k] = Power(2, j) - 1 BY <2>2, <3>0, <3>2
        <4>2. after[k + 1] = after[k] BY <1>8, <3>0, <3>2
        <4>3. ~(k + 1 <= j) BY <3>2
        <4> QED BY <4>1, <4>2, <4>3, <3>0
      <3> QED BY <3>1, <3>2
    <2> HIDE DEF S
    <2> QED BY <2>2, <2>3, <1>0, BoundedInduction
  <1>10. Right(BITS)
    <2>1. BITS \in S
      <3> HIDE DEF S
      <3> QED BY <1>9, <1>0
    <2> HIDE DEF Right
    <2> QED BY <2>1
  <1>11. BITS = j \/ ~(BITS <= j) BY <1>0
  <1> QED BY <1>1, <1>10, <1>11

\* The powers of two that are not less than num and fit.
PowersTo(num) == {p \in {Power(2, b) : b \in 0 .. (BITS - 1)} : p >= num}

\* ceilPowTwo is the least power of two that is not less, or 0 where none fits.
THEOREM CeilPowTwo ==
  ASSUME NEW num \in 0 .. (WIDTH - 1)
  PROVE  ceilPowTwo(num) =
           IF num = 0 \/ PowersTo(num) = {} THEN 0 ELSE Min(PowersTo(num))
  <1>0. /\ BITS \in Nat /\ BITS >= 1 /\ BITS <= 32 /\ WIDTH \in Nat /\ WIDTH >= 2
        /\ WIDTH = Power(2, BITS)
    BY Widths, BitsAssumption DEF WIDTH
  <1>1. \A k \in Nat : Power(2, k) \in Nat /\ Power(2, k) >= 1
                        /\ Power(2, k + 1) = 2 * Power(2, k)
    BY Twos
  <1>2. ASSUME NEW n \in 0 .. (WIDTH - 1), n # 0
        PROVE  \E h \in 0 .. (BITS - 1) :
                 /\ Power(2, h) <= n /\ n < Power(2, h + 1)
                 /\ (ValueOf(Smeared(BitsOf(n))) + 1) % WIDTH = Power(2, h + 1) % WIDTH
    <2>1. PICK h \in 0 .. (BITS - 1) : Power(2, h) <= n /\ n < Power(2, h + 1)
      BY <1>0, <1>2, TopBit
    <2>2. BitsOf(n) \subseteq 0 .. h /\ h \in BitsOf(n) BY <2>1, BitsAre
    <2>3. h \in 0 .. 31 /\ h + 1 \in 0 .. BITS /\ (h + 1) - 1 = h BY <1>0
    <2>4. Smeared(BitsOf(n)) = 0 .. h BY <2>2, <2>3, SmearIs
    <2>5. ValueOf(0 .. ((h + 1) - 1)) = Power(2, h + 1) - 1 BY <2>3, ValueOfLow
    <2>6. (Power(2, h + 1) - 1) + 1 = Power(2, h + 1) BY <1>1, <2>3
    <2>7. (ValueOf(Smeared(BitsOf(n))) + 1) % WIDTH = Power(2, h + 1) % WIDTH
      BY <2>3, <2>4, <2>5, <2>6
    <2> QED BY <2>1, <2>7
  <1>3. PowersTo(num) \subseteq Int /\ \A p : p \in PowersTo(num) <=>
          \E b \in 0 .. (BITS - 1) : p = Power(2, b) /\ p >= num
    <2>1. \A b \in 0 .. (BITS - 1) : Power(2, b) \in Int BY <1>0, <1>1
    <2> QED BY <2>1 DEF PowersTo
  <1>4. CASE num = 0
    <2>1. (num - 1) % WIDTH = WIDTH - 1 /\ WIDTH - 1 \in 0 .. (WIDTH - 1) /\ WIDTH - 1 # 0
      BY <1>0, <1>4
    <2>2. PICK h \in 0 .. (BITS - 1) :
                 /\ Power(2, h) <= WIDTH - 1 /\ WIDTH - 1 < Power(2, h + 1)
                 /\ (ValueOf(Smeared(BitsOf(WIDTH - 1))) + 1) % WIDTH = Power(2, h + 1) % WIDTH
      BY <2>1, <1>2
    <2>3. h + 1 \in Nat /\ Power(2, h + 1) \in Nat BY <1>1
    <2>4. h + 1 = BITS
      <3>1. h + 1 = BITS \/ h + 1 < BITS BY <1>0
      <3>2. h + 1 < BITS => Power(2, h + 1) < WIDTH BY <2>3, <1>0, Twos
      <3> QED BY <3>1, <3>2, <2>2, <2>3, <1>0
    <2>5. Power(2, h + 1) % WIDTH = 0 BY <2>4, <1>0
    <2> QED BY <2>1, <2>2, <2>5, <1>4 DEF ceilPowTwo
  <1>5. CASE num = 1
    <2>1. (num - 1) % WIDTH = 0 BY <1>0, <1>5
    <2>2. ValueOf(Smeared(BitsOf(0))) = 0
      <3>1. 0 .. (0 - 1) = {} /\ 0 \in 0 .. BITS BY <1>0
      <3>2. ValueOf(0 .. (0 - 1)) = Power(2, 0) - 1 BY <3>1, ValueOfLow
      <3>3. Power(2, 0) - 1 = 0 BY Twos
      <3>4. Smeared(BitsOf(0)) = {} BY BitsAre, SmearIs
      <3> QED BY <3>1, <3>2, <3>3, <3>4
    <2>3. ceilPowTwo(num) = 1 BY <2>1, <2>2, <1>0 DEF ceilPowTwo
    <2>4. 1 \in PowersTo(num)
      <3>1. 0 \in 0 .. (BITS - 1) /\ Power(2, 0) = 1 BY <1>0, Twos
      <3> QED BY <3>1, <1>3, <1>5
    <2>5. \A p \in PowersTo(num) : 1 <= p BY <1>3, <1>5
    <2> QED BY <2>3, <2>4, <2>5, <1>3, <1>5, LeastIs
  <1>6. CASE num # 0 /\ num # 1
    <2>1. (num - 1) % WIDTH = num - 1 /\ num - 1 \in 0 .. (WIDTH - 1) /\ num - 1 # 0
      BY <1>0, <1>6
    <2>2. PICK h \in 0 .. (BITS - 1) :
                 /\ Power(2, h) <= num - 1 /\ num - 1 < Power(2, h + 1)
                 /\ (ValueOf(Smeared(BitsOf(num - 1))) + 1) % WIDTH = Power(2, h + 1) % WIDTH
      BY <2>1, <1>2
    <2>3. h \in Nat /\ h + 1 \in Nat /\ Power(2, h + 1) \in Nat /\ Power(2, h) \in Nat
      BY <1>1
    <2>0. num \in Nat OBVIOUS
    <2>4. ASSUME NEW p \in PowersTo(num) PROVE p >= Power(2, h + 1) /\ h + 1 <= BITS - 1
      <3>1. PICK b \in 0 .. (BITS - 1) : p = Power(2, b) /\ p >= num BY <1>3
      <3>2. b \in Nat /\ p \in Nat BY <3>1, <1>1
      <3>3. h < b
        <4>1. b = h \/ b < h \/ h < b BY <2>3, <3>2
        <4>2. b < h => Power(2, b) < Power(2, h) BY <2>3, <3>2, Twos
        <4>3. ~(Power(2, b) <= Power(2, h)) BY <2>0, <2>2, <2>3, <3>1, <3>2
        <4> QED BY <4>1, <4>2, <4>3, <2>3, <3>1, <3>2
      <3>4. b = h + 1 \/ h + 1 < b BY <3>3, <2>3
      <3>5. h + 1 < b => Power(2, h + 1) < Power(2, b) BY <2>3, <3>2, Twos
      <3> QED BY <3>1, <3>2, <3>4, <3>5, <2>3, <1>0
    <2>5. ceilPowTwo(num) = Power(2, h + 1) % WIDTH BY <2>1, <2>2 DEF ceilPowTwo
    <2>6. CASE h + 1 = BITS
      <3>1. PowersTo(num) = {} BY <2>4, <2>6, <1>0
      <3>2. Power(2, h + 1) % WIDTH = 0 BY <2>6, <1>0
      <3> QED BY <3>1, <3>2, <2>5
    <2>7. CASE h + 1 # BITS
      <3>0. h + 1 < BITS /\ h + 1 \in 0 .. (BITS - 1) BY <2>7, <1>0
      <3>1. Power(2, h + 1) < WIDTH BY <3>0, <1>0, <2>3, Twos
      <3>2. Power(2, h + 1) % WIDTH = Power(2, h + 1) BY <3>1, <2>3, <1>0
      <3>3. Power(2, h + 1) >= num BY <2>0, <2>2, <2>3
      <3>4. Power(2, h + 1) \in PowersTo(num) BY <3>0, <3>3, <1>3
      <3>5. \A p \in PowersTo(num) : Power(2, h + 1) <= p
        <4>1. \A p \in PowersTo(num) : p \in Int BY <1>3
        <4> QED BY <2>4, <2>3, <4>1
      <3>6. Min(PowersTo(num)) = Power(2, h + 1) BY <3>4, <3>5, <1>3, LeastIs
      <3> QED BY <3>2, <3>4, <3>6, <2>5, <1>6
    <2> QED BY <2>6, <2>7
  <1> QED BY <1>4, <1>5, <1>6

-----------------------------------------------------------------------------
(***************************************************************************)
(* stdlib/itoa.c                                                           *)
(***************************************************************************)

\* The radixes there are digits for.
Radix == 2 .. 16

\* A digit is a character, and not the one that ends a text.
LEMMA DigitIs ==
  ASSUME NEW r \in Radix, NEW n \in Nat
  PROVE  Digit(n % r) \in Byte \ {0}
  <1>1. n % r \in 0 .. 15 BY DEF Radix
  <1> QED BY <1>1 DEF Digit, Byte, BYTE

\* The loop of itoa takes the lowest digit and goes on with the quotient.
LEMMA LowFirstIs ==
  ASSUME NEW r \in Radix
  PROVE  /\ LowFirst(0, r) = <<>>
         /\ \A n \in Nat : LowFirst(n, r) \in Seq(Byte \ {0})
         /\ \A n \in Nat \ {0} : LowFirst(n, r) = <<Digit(n % r)>> \o LowFirst(n \div r, r)
  <1> DEFINE p == CHOOSE f : f = [n \in Nat |->
                    IF n = 0 THEN <<>> ELSE <<Digit(n % r)>> \o f[n \div r]]
             V == Seq(Byte \ {0})
             F == [Nat -> V]
             D == [n \in Nat |-> [f \in F |->
                    IF n = 0 THEN <<>> ELSE <<Digit(n % r)>> \o f[n \div r]]]
             mu == [n \in Nat |-> n]
  <1>0. \A n : LowFirst(n, r) = p[n] BY DEF LowFirst
  <1>a. \A n \in Nat : <<Digit(n % r)>> \in V
    <2> TAKE n \in Nat
    <2>1. Digit(n % r) \in Byte \ {0} BY DigitIs
    <2> QED BY <2>1
  <1>b. \A n \in Nat \ {0} : n \div r \in Nat /\ n \div r < n
    <2> TAKE n \in Nat \ {0}
    <2>1. r \in Nat /\ r >= 2 BY DEF Radix
    <2> DEFINE d == n \div r
    <2>2. d \in Nat /\ r * d <= n BY <2>1, Divided
    <2> HIDE DEF d
    <2>3. 2 * d <= r * d
      <3>1. d * 2 <= d * r BY <2>1, <2>2, Monotone
      <3> QED BY <3>1, <2>1, <2>2
    <2>4. r * d \in Nat BY <2>1, <2>2
    <2>5. d < n BY <2>2, <2>3, <2>4
    <2> QED BY <2>2, <2>5 DEF d
  <1>c. \A a, b \in V : a \o b \in V
    <2> TAKE a \in V, b \in V
    <2> QED BY ConcatProperties
  <1>d. <<>> \in V OBVIOUS
  <1>1. Recursive(Nat, mu, V, D)
    <2>1. ASSUME NEW n \in Nat, NEW f \in F PROVE D[n][f] \in V
      <3>1. CASE n = 0 BY <3>1, <1>d
      <3>2. CASE n # 0
        <4>1. f[n \div r] \in V BY <3>2, <1>b
        <4>2. D[n][f] = <<Digit(n % r)>> \o f[n \div r] BY <3>2
        <4> HIDE DEF V, D
        <4> QED BY <4>1, <4>2, <1>a, <1>c
      <3> QED BY <3>1, <3>2
    <2>2. ASSUME NEW n \in Nat, NEW g \in F, NEW h \in F,
                 \A y \in Nat : mu[y] < mu[n] => g[y] = h[y]
          PROVE  D[n][g] = D[n][h]
      <3>1. CASE n = 0 BY <3>1
      <3>2. CASE n # 0
        <4>1. n \div r \in Nat /\ n \div r < n BY <3>2, <1>b
        <4>2. g[n \div r] = h[n \div r] BY <4>1, <2>2
        <4> QED BY <4>2, <3>2
      <3> QED BY <3>1, <3>2
    <2>3. mu \in [Nat -> Nat] /\ V # {} BY <1>d
    <2> HIDE DEF mu, D, V
    <2> QED BY <2>1, <2>2, <2>3, Zenon DEF Recursive
  <1>2. PICK f : Solution(f, Nat, V, D)
    <2> HIDE DEF mu, D, V
    <2> QED BY <1>1, Recursion, Zenon
  <1>3. f = [n \in Nat |-> IF n = 0 THEN <<>> ELSE <<Digit(n % r)>> \o f[n \div r]]
    BY <1>2 DEF Solution
  <1>4. p = [n \in Nat |-> IF n = 0 THEN <<>> ELSE <<Digit(n % r)>> \o p[n \div r]]
    BY <1>3, Zenon
  <1> HIDE DEF p
  <1>5. p[0] = <<>> BY <1>4
  <1>6. \A n \in Nat \ {0} : p[n] = <<Digit(n % r)>> \o p[n \div r] BY <1>4
  <1>7. \A n \in Nat : p[n] \in V
    <2> DEFINE S == {n \in Nat : p[n] \in V}
    <2> HIDE DEF V
    <2>1. ASSUME NEW n \in Nat, \A y \in Nat : mu[y] < mu[n] => y \in S PROVE n \in S
      <3>1. CASE n = 0 BY <3>1, <1>5, <1>d
      <3>2. CASE n # 0
        <4>1. n \div r \in Nat /\ n \div r < n BY <3>2, <1>b
        <4>2. n \div r \in S BY <4>1, <2>1
        <4> QED BY <4>2, <3>2, <1>6, <1>a, <1>c
      <3> QED BY <3>1, <3>2
    <2>2. mu \in [Nat -> Nat] OBVIOUS
    <2> HIDE DEF S, mu
    <2>3. Nat \subseteq S BY <2>1, <2>2, MeasureInduction, Zenon
    <2> QED BY <2>3 DEF S
  <1> QED BY <1>0, <1>5, <1>6, <1>7, Zenon

\* How many digits a number has, and which.
LEMMA LowFirstDigits ==
  ASSUME NEW r \in Radix
  PROVE  \A n \in Nat \ {0} :
           LET s == LowFirst(n, r)
           IN /\ Len(s) >= 1
              /\ Power(r, Len(s) - 1) <= n /\ n < Power(r, Len(s))
              /\ \A j \in 1 .. Len(s) : s[j] = Digit((n \div Power(r, j - 1)) % r)
  <1> DEFINE L(n) == Len(LowFirst(n, r))
             Right(n) == /\ L(n) >= 1
                         /\ Power(r, L(n) - 1) <= n /\ n < Power(r, L(n))
                         /\ \A j \in 1 .. L(n) :
                              LowFirst(n, r)[j] = Digit((n \div Power(r, j - 1)) % r)
             S == {n \in Nat : n # 0 => Right(n)}
             mu == [n \in Nat |-> n]
  <1>0. r \in Nat /\ r >= 2 BY DEF Radix
  <1>p. \A k \in Nat : Power(r, k) \in Nat /\ Power(r, k) >= 1 /\ Power(r, k + 1) = r * Power(r, k)
    BY <1>0, PowerIs, PowersGrow
  <1>q. Power(r, 0) = 1 /\ Power(r, 1) = r
    <2>1. 0 \in Nat /\ 0 + 1 = 1 /\ r * 1 = r BY <1>0
    <2>2. Power(r, 0) = 1 BY <1>0, PowerIs
    <2> QED BY <2>1, <2>2, <1>p
  <1>l. \A n \in Nat : LowFirst(n, r) \in Seq(Byte \ {0}) /\ L(n) \in Nat
    BY LowFirstIs, LenProperties
  <1>1. ASSUME NEW n \in Nat, \A y \in Nat : mu[y] < mu[n] => y \in S, n # 0 PROVE Right(n)
    <2> DEFINE q == n \div r
               s == LowFirst(q, r)
               d == Digit(n % r)
    <2>1. q \in Nat /\ r * q <= n /\ n < r * (q + 1) BY <1>0, Divided
    <2>2. LowFirst(n, r) = <<d>> \o s BY <1>1, LowFirstIs
    <2>3. s \in Seq(Byte \ {0}) /\ Len(s) \in Nat BY <2>1, <1>l
    <2>4. <<d>> \in Seq(Byte \ {0}) /\ Len(<<d>>) = 1 /\ <<d>>[1] = d
      <3>1. d \in Byte \ {0} BY DigitIs
      <3> HIDE DEF d
      <3> QED BY <3>1
    <2>9. n \div Power(r, 0) = n BY <1>q
    <2> HIDE DEF d, s
    <2>5. /\ L(n) = Len(s) + 1
          /\ LowFirst(n, r)[1] = d
          /\ \A j \in 2 .. L(n) : LowFirst(n, r)[j] = s[j - 1]
      <3>1. /\ Len(<<d>> \o s) = 1 + Len(s)
            /\ (<<d>> \o s)[1] = d
            /\ \A j \in 2 .. (Len(s) + 1) : (<<d>> \o s)[j] = s[j - 1]
        BY <2>3, <2>4
      <3> QED BY <3>1, <2>2, <2>3
    <2>6. CASE q = 0
      <3>1. s = <<>> BY <2>6, LowFirstIs DEF s
      <3>2. L(n) = 1 BY <3>1, <2>5
      <3>3. n < r BY <2>1, <2>6, <1>0
      <3>4. Power(r, L(n) - 1) <= n /\ n < Power(r, L(n)) BY <3>2, <3>3, <1>q, <1>1
      <3>5. \A j \in 1 .. L(n) : LowFirst(n, r)[j] = Digit((n \div Power(r, j - 1)) % r)
        <4> TAKE j \in 1 .. L(n)
        <4>1. j = 1 /\ j - 1 = 0 BY <3>2
        <4> QED BY <4>1, <2>5, <2>9 DEF d
      <3> QED BY <3>2, <3>4, <3>5
    <2>7. CASE q # 0
      <3>0. Right(q)
        <4>1. q < n
          <5> HIDE DEF q
          <5>1. q * 2 <= q * r BY <1>0, <2>1, Monotone
          <5>2. q * r = r * q /\ r * q \in Nat BY <1>0, <2>1
          <5> QED BY <2>1, <2>7, <5>1, <5>2
        <4>2. q \in S BY <4>1, <2>1, <1>1
        <4> HIDE DEF q, Right
        <4> QED BY <4>2, <2>7
      <3>1. /\ Len(s) >= 1
            /\ Power(r, Len(s) - 1) <= q /\ q < Power(r, Len(s))
            /\ \A j \in 1 .. Len(s) : s[j] = Digit((q \div Power(r, j - 1)) % r)
        BY <3>0 DEF s
      <3> DEFINE k == Len(s) - 1
                 a == Power(r, k)
                 b == Power(r, k + 1)
      <3>2. k \in Nat /\ k + 1 = Len(s) BY <2>3, <3>1
      <3>3. a \in Nat /\ b \in Nat /\ a <= q /\ q + 1 <= b
        <4>1. k + 1 \in Nat BY ONLY <3>2
        <4>2. a \in Nat /\ b \in Nat BY ONLY <4>1, <3>2, <1>p
        <4>3. a <= q /\ q < b BY ONLY <3>1, <3>2
        <4>4. q \in Nat BY ONLY <2>1
        <4> HIDE DEF a, b, q
        <4> QED BY ONLY <4>2, <4>3, <4>4
      <3>4. Power(r, k + 1) = r * a /\ Power(r, (k + 1) + 1) = r * b
        <4>1. k + 1 \in Nat BY <3>2
        <4> QED BY <4>1, <3>2, <1>p
      <3>5. r * a <= r * q /\ r * (q + 1) <= r * b
        <4>1. q + 1 \in Nat BY <2>1
        <4> HIDE DEF a, b, q
        <4> QED BY <3>3, <2>1, <4>1, <1>0, Monotone
      <3>6. r * a \in Nat /\ r * b \in Nat /\ r * q \in Nat /\ r * (q + 1) \in Nat
        <4>1. q + 1 \in Nat BY <2>1
        <4> HIDE DEF a, b, q
        <4> QED BY <3>3, <2>1, <4>1, <1>0
      <3>7. r * a <= n /\ n < r * b
        <4> HIDE DEF a, b, q
        <4> QED BY <3>5, <3>6, <2>1
      <3>8. L(n) - 1 = k + 1 /\ L(n) = (k + 1) + 1 /\ L(n) >= 1 BY <2>5, <3>2
      <3>9. Power(r, L(n) - 1) <= n /\ n < Power(r, L(n)) BY <3>4, <3>7, <3>8
      <3>10. \A j \in 1 .. L(n) : LowFirst(n, r)[j] = Digit((n \div Power(r, j - 1)) % r)
        <4> TAKE j \in 1 .. L(n)
        <4>1. CASE j = 1 BY <4>1, <2>5, <2>9 DEF d
        <4>2. CASE j # 1
          <5> DEFINE i == j - 2
          <5>0. j \in 2 .. L(n) /\ i \in Nat /\ j - 1 = i + 1 /\ j - 1 \in 1 .. Len(s)
                /\ (j - 1) - 1 = i
            BY <4>2, <2>5, <2>3
          <5>1. LowFirst(n, r)[j] = s[j - 1] BY <5>0, <2>5
          <5>2. s[j - 1] = Digit((q \div Power(r, i)) % r) BY <5>0, <3>1
          <5>3. Power(r, i) \in Nat /\ Power(r, i) >= 1 /\ Power(r, j - 1) = r * Power(r, i)
            BY <5>0, <1>p
          <5>4. q \div Power(r, i) = n \div (r * Power(r, i))
            <6> DEFINE c == Power(r, i)
            <6>1. c \in Nat /\ c >= 1 /\ r >= 1 BY <5>3, <1>0
            <6> HIDE DEF c
            <6>2. (n \div r) \div c = n \div (r * c) BY <6>1, <1>0, DividedTwice
            <6> QED BY <6>2 DEF c
          <5> QED BY <5>1, <5>2, <5>3, <5>4
        <4> QED BY <4>1, <4>2
      <3> QED BY <3>8, <3>9, <3>10
    <2> QED BY <2>6, <2>7
  <1>2. Nat \subseteq S
    <2>1. \A n \in Nat : (\A y \in Nat : mu[y] < mu[n] => y \in S) => n \in S
      <3> HIDE DEF Right
      <3> QED BY <1>1
    <2>2. mu \in [Nat -> Nat] OBVIOUS
    <2> HIDE DEF S, mu
    <2> QED BY <2>1, <2>2, MeasureInduction, Zenon
  <1> QED BY <1>2

=============================================================================
