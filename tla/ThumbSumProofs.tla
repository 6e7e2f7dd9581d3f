--------------------------- MODULE ThumbSumProofs ---------------------------
(***************************************************************************)
(* The sums of ThumbResize, for images and thumbnails of every size: what  *)
(* the source coordinates of a pixel count for adds up to the part of the  *)
(* image it stands for, the pixels together weigh no more than that part   *)
(* has area, and so a picture of one colour stays one.                     *)
(*                                                                         *)
(* MapThenSumSet is a fold over a set, which no prover can evaluate for a  *)
(* set of unknown size.  Induction over the size is had from the fact that *)
(* a set of naturals has a least element; what MapThenSumSet computes is   *)
(* the function of SumExists, which adds up in every order.                *)
(***************************************************************************)
EXTENDS ThumbResizeProofs

(* A set of numbers that is not empty has a least one.                     *)
LEMMA LeastNumber ==
  ASSUME NEW T \in SUBSET Nat, T # {}
  PROVE  \E n \in T : \A m \in T : n <= m
  <1>1. IsWellFoundedOn(OpToRel(<, Nat), Nat)
    BY NatLessThanWellFounded
  <1>2. PICK n \in T : \A m \in T : ~(<<m, n>> \in OpToRel(<, Nat))
    BY <1>1, WFMin
  <1>3. ASSUME NEW m \in T PROVE n <= m
    <2>1. ~(m < n)
      BY <1>2 DEF OpToRel
    <2> QED
      BY <2>1
  <1> QED
    BY <1>3

(* Induction, said of a set, so that it takes no predicate as a parameter. *)
LEMMA SetInduction ==
  ASSUME NEW A, 0 \in A, \A n \in Nat : n \in A => n + 1 \in A
  PROVE  \A n \in Nat : n \in A
  <1> SUFFICES ASSUME Nat \ A # {} PROVE FALSE
    OBVIOUS
  <1>1. PICK n \in Nat \ A : \A m \in Nat \ A : n <= m
    BY LeastNumber
  <1>2. n # 0 /\ n - 1 \in Nat
    BY <1>1
  <1>3. n - 1 \in A
    BY <1>1, <1>2
  <1>4. (n - 1) + 1 \in A
    BY <1>2, <1>3
  <1> QED
    BY <1>1, <1>2, <1>4

(* What MapThenSumSet takes out of a set first.                            *)
Pick(s) == CHOOSE x \in s : TRUE

(* The fold that MapThenSumSet computes, of numbers p.                     *)
Round(g, p, s) == IF s = {} THEN 0 ELSE p[Pick(s)] + g[s \ {Pick(s)}]
IsSum(g, p, S) == g = [s \in SUBSET S |-> Round(g, p, s)]

(* A finite set and its subsets have a cardinality, one less without one   *)
(* of their elements.                                                      *)
LEMMA Fewer ==
  ASSUME NEW S, IsFiniteSet(S), NEW s \in SUBSET S
  PROVE  /\ IsFiniteSet(s) /\ Cardinality(s) \in Nat
         /\ Cardinality(s) = 0 <=> s = {}
         /\ \A y \in s : s \ {y} \in SUBSET S /\ Cardinality(s \ {y}) = Cardinality(s) - 1
         /\ s # {} => Pick(s) \in s
  <1>1. IsFiniteSet(s)
    BY FS_Subset
  <1>2. Cardinality(s) \in Nat
    BY <1>1, FS_CardinalityType
  <1>3. Cardinality(s) = 0 <=> s = {}
    BY <1>1, FS_EmptySet
  <1>4. ASSUME NEW y \in s PROVE s \ {y} \in SUBSET S /\ Cardinality(s \ {y}) = Cardinality(s) - 1
    BY <1>1, FS_RemoveElement
  <1>5. s # {} => Pick(s) \in s
    BY DEF Pick
  <1> QED
    BY <1>1, <1>2, <1>3, <1>4, <1>5

(* There is such a function for every finite set, though it is defined in  *)
(* terms of itself: one that is right for sets of up to n elements can be  *)
(* made right for those of n + 1.                                          *)
LEMMA SumExists ==
  ASSUME NEW S, IsFiniteSet(S), NEW p
  PROVE  \E g : IsSum(g, p, S)
  <1> DEFINE Right(g, n) == \A s \in SUBSET S : Cardinality(s) <= n => g[s] = Round(g, p, s)
             A == {n \in Nat : \E g : Right(g, n)}
  <1>1. 0 \in A
    <2>1. Right([s \in SUBSET S |-> 0], 0)
      <3> SUFFICES ASSUME NEW s \in SUBSET S, Cardinality(s) <= 0
                   PROVE  s = {}
        BY DEF Round
      <3> QED
        BY Fewer
    <2> QED
      BY <2>1
  <1>2. ASSUME NEW n \in Nat, n \in A PROVE n + 1 \in A
    <2>1. PICK g : Right(g, n)
      BY <1>2
    <2> DEFINE h == [s \in SUBSET S |-> IF Cardinality(s) <= n THEN g[s] ELSE Round(g, p, s)]
    <2>2. ASSUME NEW s \in SUBSET S, Cardinality(s) <= n + 1
          PROVE  h[s] = Round(g, p, s)
      <3>1. Cardinality(s) <= n => g[s] = Round(g, p, s)
        BY <2>1
      <3> QED
        BY <3>1
    <2>3. ASSUME NEW s \in SUBSET S, Cardinality(s) <= n + 1
          PROVE  Round(h, p, s) = Round(g, p, s)
      <3>1. CASE s = {}
        BY <3>1 DEF Round
      <3>2. CASE s # {}
        <4>1. /\ s \ {Pick(s)} \in SUBSET S
              /\ Cardinality(s \ {Pick(s)}) <= n
          <5>1. Cardinality(s) \in Nat /\ Pick(s) \in s
            BY <3>2, Fewer
          <5>2. s \ {Pick(s)} \in SUBSET S /\ Cardinality(s \ {Pick(s)}) = Cardinality(s) - 1
            BY <5>1, Fewer
          <5> QED
            BY <2>3, <5>1, <5>2
        <4>2. h[s \ {Pick(s)}] = g[s \ {Pick(s)}]
          BY <4>1
        <4> QED
          BY <4>2 DEF Round
      <3> QED
        BY <3>1, <3>2
    <2>4. Right(h, n + 1)
      <3> SUFFICES ASSUME NEW s \in SUBSET S, Cardinality(s) <= n + 1
                   PROVE  h[s] = Round(h, p, s)
        OBVIOUS
      <3> HIDE DEF h
      <3> QED
        BY <2>2, <2>3
    <2>5. \E hh : Right(hh, n + 1)
      BY <2>4
    <2> QED
      BY <2>5
  <1>3. Cardinality(S) \in Nat
    BY FS_CardinalityType
  <1>4. Cardinality(S) \in A
    <2> HIDE DEF A
    <2> QED
      BY <1>1, <1>2, <1>3, SetInduction
  <1>5. PICK g : Right(g, Cardinality(S))
    BY <1>4
  <1>6. ASSUME NEW s \in SUBSET S PROVE g[s] = Round(g, p, s) /\ (s # {} => Pick(s) \in s)
    <2>1. Cardinality(s) <= Cardinality(S)
      BY FS_Subset
    <2> QED
      BY <1>5, <2>1, Fewer
  <1> DEFINE h == [s \in SUBSET S |-> g[s]]
  <1>7. ASSUME NEW s \in SUBSET S PROVE h[s] = Round(h, p, s)
    <2>1. h[s] = Round(g, p, s)
      BY <1>6
    <2>2. s # {} => h[s \ {Pick(s)}] = g[s \ {Pick(s)}]
      OBVIOUS
    <2> QED
      BY <2>1, <2>2 DEF Round
  <1>8. h = [s \in SUBSET S |-> Round(h, p, s)]
    <2>1. h = [s \in SUBSET S |-> h[s]]
      OBVIOUS
    <2> HIDE DEF h
    <2> QED
      BY <1>7, <2>1
  <1>9. IsSum(h, p, S)
    BY <1>8 DEF IsSum
  <1> QED
    BY <1>9

(* A function that adds up numbers, in whatever order.                     *)
Adds(g, p, S) ==
  /\ g[{}] = 0
  /\ \A s \in SUBSET S : g[s] \in Int
  /\ \A s \in SUBSET S : \A y \in s : g[s] = p[y] + g[s \ {y}]

(* The order does not matter.                                              *)
LEMMA SumAdds ==
  ASSUME NEW S, IsFiniteSet(S), NEW p \in [S -> Int], NEW g, IsSum(g, p, S)
  PROVE  Adds(g, p, S)
  <1>1. ASSUME NEW s \in SUBSET S PROVE g[s] = Round(g, p, s)
    BY DEF IsSum
  <1>2. g[{}] = 0
    BY <1>1 DEF Round
  <1> DEFINE Ok(s) == g[s] \in Int /\ \A y \in s : g[s] = p[y] + g[s \ {y}]
             A == {n \in Nat : \A s \in SUBSET S : Cardinality(s) <= n => Ok(s)}
  <1>3. 0 \in A
    <2> SUFFICES ASSUME NEW s \in SUBSET S, Cardinality(s) <= 0 PROVE Ok(s)
      OBVIOUS
    <2>1. s = {}
      BY Fewer
    <2> QED
      BY <1>2, <2>1
  <1>4. ASSUME NEW n \in Nat, n \in A PROVE n + 1 \in A
    <2>0. Ok({})
      BY <1>2
    <2> SUFFICES ASSUME NEW s \in SUBSET S, Cardinality(s) <= n + 1, s # {} PROVE Ok(s)
      <3> HIDE DEF Ok
      <3> QED
        BY <2>0
    <2>1. PICK x \in s : x = Pick(s)
      BY Fewer
    <2>2. g[s] = p[x] + g[s \ {x}]
      BY <1>1, <2>1 DEF Round
    <2>3. ASSUME NEW y \in s PROVE Ok(s \ {y}) /\ \A z \in s \ {y} : Ok((s \ {y}) \ {z})
      <3>1. Cardinality(s) \in Nat
        BY Fewer
      <3>2. s \ {y} \in SUBSET S /\ Cardinality(s \ {y}) = Cardinality(s) - 1
        BY Fewer
      <3>3. \A z \in s \ {y} : /\ (s \ {y}) \ {z} \in SUBSET S
                               /\ Cardinality((s \ {y}) \ {z}) = Cardinality(s \ {y}) - 1
        BY <3>2, Fewer
      <3>4. \A t \in SUBSET S : Cardinality(t) <= n => Ok(t)
        BY <1>4
      <3>5. Cardinality(s \ {y}) <= n
        BY <3>1, <3>2
      <3>6. ASSUME NEW z \in s \ {y} PROVE Cardinality((s \ {y}) \ {z}) <= n
        <4>1. Cardinality((s \ {y}) \ {z}) = Cardinality(s \ {y}) - 1
          BY <3>3
        <4> QED
          BY <3>1, <3>2, <4>1
      <3> HIDE DEF Ok, A
      <3>7. Ok(s \ {y})
        BY <3>2, <3>4, <3>5
      <3> QED
        BY <3>3, <3>4, <3>6, <3>7
    <2>4. g[s] \in Int
      <3>1. g[s \ {x}] \in Int /\ p[x] \in Int
        BY <2>3
      <3> QED
        BY <2>2, <3>1
    <2>5. ASSUME NEW y \in s, y # x PROVE g[s] = p[y] + g[s \ {y}]
      <3>1. y \in s \ {x} /\ x \in s \ {y}
        BY <2>5
      <3>2. /\ g[s \ {x}] = p[y] + g[(s \ {x}) \ {y}]
            /\ g[s \ {y}] = p[x] + g[(s \ {y}) \ {x}]
        BY <2>3, <3>1
      <3>5. g[(s \ {y}) \ {x}] \in Int
        BY <2>3, <3>1
      <3>3. (s \ {x}) \ {y} = (s \ {y}) \ {x}
        OBVIOUS
      <3>4. p[x] \in Int /\ p[y] \in Int
        OBVIOUS
      <3>6. PICK u \in Int, px \in Int, py \in Int :
              u = g[(s \ {y}) \ {x}] /\ px = p[x] /\ py = p[y]
        BY <3>4, <3>5
      <3>7. g[s \ {x}] = py + u /\ g[s \ {y}] = px + u
        BY <3>2, <3>3, <3>6
      <3>8. g[s] = px + (py + u)
        BY <2>2, <3>6, <3>7
      <3> QED
        BY <3>6, <3>7, <3>8
    <2> QED
      BY <2>2, <2>4, <2>5
  <1>5. ASSUME NEW s \in SUBSET S PROVE Ok(s)
    <2>1. Cardinality(s) \in Nat
      BY Fewer
    <2>2. Cardinality(s) \in A
      <3> HIDE DEF A
      <3> QED
        BY <1>3, <1>4, <2>1, SetInduction
    <2> HIDE DEF Ok
    <2> QED
      BY <2>1, <2>2
  <1> QED
    BY <1>2, <1>5 DEF Adds

(* The numbers of p are the steps of q.                                    *)
StepsOf(q, p, a, b) ==
  /\ \A i \in a..(b + 1) : q[i] \in Int
  /\ \A i \in a..b : p[i] = q[i + 1] - q[i]

(* Numbers that are the steps of q add up to the way that q makes.         *)
LEMMA IntervalSum ==
  ASSUME NEW a \in Int, NEW b \in Int, a - 1 <= b, NEW p, NEW g, Adds(g, p, a..b),
         NEW q, StepsOf(q, p, a, b)
  PROVE  g[a..b] = q[b + 1] - q[a]
  <1> DEFINE A == {n \in Nat : a - 1 + n <= b => g[a..(a - 1 + n)] = q[a + n] - q[a]}
  <1>1. 0 \in A
    <2>1. a..(a - 1 + 0) = {} /\ a + 0 = a
      OBVIOUS
    <2>2. a - 1 <= b => q[a] \in Int
      BY DEF StepsOf
    <2>3. g[{}] = 0
      BY DEF Adds
    <2> QED
      BY <2>1, <2>2, <2>3
  <1>2. ASSUME NEW n \in Nat, n \in A PROVE n + 1 \in A
    <2> SUFFICES ASSUME a - 1 + (n + 1) <= b
                 PROVE  g[a..(a - 1 + (n + 1))] = q[a + (n + 1)] - q[a]
      OBVIOUS
    <2>1. PICK k \in a..b : k = a + n
      OBVIOUS
    <2>2. a - 1 + (n + 1) = k /\ a + (n + 1) = k + 1 /\ a - 1 + n = k - 1
      BY <2>1
    <2>3. g[a..(k - 1)] = q[k] - q[a]
      BY <1>2, <2>1, <2>2
    <2>4. (a..k) \ {k} = a..(k - 1) /\ a..k \in SUBSET (a..b) /\ k \in a..k
      <3>1. (a..k) \ {k} \subseteq a..(k - 1) /\ a..(k - 1) \subseteq (a..k) \ {k}
        BY <2>1
      <3>2. (a..k) \ {k} = a..(k - 1)
        BY <3>1, Zenon
      <3>3. a..k \subseteq a..b /\ k \in a..k
        BY <2>1
      <3> QED
        BY <3>2, <3>3
    <2>5. g[a..k] = p[k] + g[a..(k - 1)]
      BY <2>4 DEF Adds
    <2>6. p[k] = q[k + 1] - q[k] /\ q[k] \in Int /\ q[k + 1] \in Int /\ q[a] \in Int
      BY <2>1 DEF StepsOf
    <2>7. g[a..k] = q[k + 1] - q[a]
      BY <2>3, <2>5, <2>6
    <2> QED
      BY <2>2, <2>7
  <1>3. \A n \in Nat : n \in A
    <2> HIDE DEF A
    <2> QED
      BY <1>1, <1>2, SetInduction
  <1>4. PICK n \in Nat : n = b + 1 - a
    OBVIOUS
  <1>5. a - 1 + n = b /\ a + n = b + 1
    BY <1>4
  <1>6. n \in A
    BY <1>3
  <1> QED
    BY <1>5, <1>6

(* A row of a grid adds no more to a sum than its own product makes.       *)
LEMMA RowSum ==
  ASSUME NEW a \in Int, NEW b \in Int, NEW c \in Int, NEW d \in Int,
         NEW t, NEW g, Adds(g, t, (a..b) \X (c..d)),
         NEW one \in Nat, NEW v \in Nat, NEW q, \A y \in c..(d + 1) : q[y] \in Int,
         NEW x \in a..b,
         \A y \in c..d : /\ t[<<x, y>>] \in Nat
                         /\ t[<<x, y>>] * one <= v * (q[y + 1] - q[y]),
         NEW B \in SUBSET ((a..b) \X (c..d)), \A z \in B : z[1] # x, g[B] \in Nat, c - 1 <= d
  PROVE  /\ g[B \cup ({x} \X (c..d))] \in Nat
         /\ g[B \cup ({x} \X (c..d))] * one <= g[B] * one + v * (q[d + 1] - q[c])
  <1> DEFINE Up(m) == B \cup ({x} \X (c..m))
             Ok(m) == g[Up(m)] \in Nat /\ g[Up(m)] * one <= g[B] * one + v * (q[m + 1] - q[c])
             A == {n \in Nat : c - 1 + n <= d => Ok(c - 1 + n)}
  <1>1. 0 \in A
    <2>1. Up(c - 1) = B
      OBVIOUS
    <2>2. q[c] \in Int
      OBVIOUS
    <2>3. PICK gb \in Nat, qc \in Int : gb = g[B] /\ qc = q[c]
      BY <2>2
    <2>4. c - 1 + 1 = c /\ c - 1 + 0 = c - 1
      OBVIOUS
    <2>5. gb * one <= gb * one + v * (qc - qc)
      OBVIOUS
    <2>6. Ok(c - 1)
      BY <2>1, <2>3, <2>4, <2>5
    <2> QED
      BY <2>4, <2>6
  <1>2. ASSUME NEW n \in Nat, n \in A PROVE n + 1 \in A
    <2> SUFFICES ASSUME c - 1 + (n + 1) <= d PROVE Ok(c - 1 + (n + 1))
      OBVIOUS
    <2>1. PICK m \in c..d : m = c + n
      OBVIOUS
    <2>2. c - 1 + (n + 1) = m /\ c - 1 + n = m - 1 /\ m - 1 + 1 = m
      BY <2>1
    <2>3. Ok(m - 1)
      BY <1>2, <2>1, <2>2
    <2>4. /\ Up(m) \in SUBSET ((a..b) \X (c..d)) /\ <<x, m>> \in Up(m)
          /\ Up(m) \ {<<x, m>>} = Up(m - 1)
      <3>1. (c..m) = (c..(m - 1)) \cup {m} /\ m \notin c..(m - 1) /\ c..m \subseteq c..d /\ m \in c..m
        BY <2>1
      <3>2. <<x, m>> \notin B
        OBVIOUS
      <3>3. Up(m) = Up(m - 1) \cup {<<x, m>>}
        BY <3>1
      <3>4. <<x, m>> \notin Up(m - 1)
        BY <3>1, <3>2
      <3>5. Up(m) \in SUBSET ((a..b) \X (c..d)) /\ <<x, m>> \in Up(m)
        BY <3>1
      <3> HIDE DEF Up
      <3> QED
        BY <3>3, <3>4, <3>5
    <2> HIDE DEF Up
    <2>5. g[Up(m)] = t[<<x, m>>] + g[Up(m - 1)]
      BY <2>4, ZenonT(60) DEF Adds
    <2>6. PICK gm \in Nat, gp \in Nat, gb \in Nat, tm \in Nat, q0 \in Int, q1 \in Int, q2 \in Int :
            /\ gm = g[Up(m)] /\ gp = g[Up(m - 1)] /\ gb = g[B] /\ tm = t[<<x, m>>]
            /\ q0 = q[c] /\ q1 = q[m] /\ q2 = q[m + 1]
      <3>1. g[Up(m - 1)] \in Nat /\ t[<<x, m>>] \in Nat /\ g[B] \in Nat
        BY <2>3
      <3>2. g[Up(m)] \in Nat
        BY <2>5, <3>1
      <3>3. q[c] \in Int /\ q[m] \in Int /\ q[m + 1] \in Int
        BY <2>1
      <3> QED
        BY <3>1, <3>2, <3>3
    <2>7. gm = tm + gp
      BY <2>5, <2>6
    <2>8. gp * one <= gb * one + v * (q1 - q0) /\ tm * one <= v * (q2 - q1)
      BY <2>2, <2>3, <2>6
    <2>9. gm * one <= gb * one + v * (q2 - q0)
      <3>1. PICK gpo \in Nat, tmo \in Nat, gbo \in Nat, v0 \in Int, v1 \in Int, v2 \in Int :
              /\ gpo = gp * one /\ tmo = tm * one /\ gbo = gb * one
              /\ v0 = v * q0 /\ v1 = v * q1 /\ v2 = v * q2
        OBVIOUS
      <3>2. /\ gm * one = tmo + gpo /\ v * (q1 - q0) = v1 - v0 /\ v * (q2 - q1) = v2 - v1
            /\ v * (q2 - q0) = v2 - v0
        BY <2>7, <3>1
      <3> QED
        BY <2>8, <3>1, <3>2
    <2> QED
      BY <2>2, <2>6, <2>9
  <1>3. \A n \in Nat : n \in A
    <2> HIDE DEF A
    <2> QED
      BY <1>1, <1>2, SetInduction
  <1>4. PICK n \in Nat : c - 1 + n = d
    <2>1. d - (c - 1) \in Nat /\ c - 1 + (d - (c - 1)) = d
      OBVIOUS
    <2> QED
      BY <2>1
  <1>5. Ok(d)
    <2>1. c - 1 + n <= d => Ok(c - 1 + n)
      BY <1>3
    <2> HIDE DEF Ok
    <2> QED
      BY <1>4, <2>1
  <1> QED
    BY <1>5

(* The products of the portions of two sides, each taken down to a whole   *)
(* number, add up to no more than the product of what the sides add up to. *)
LEMMA GridSum ==
  ASSUME NEW a \in Int, NEW b \in Int, NEW c \in Int, NEW d \in Int, a - 1 <= b, c - 1 <= d,
         NEW t, NEW g, Adds(g, t, (a..b) \X (c..d)), NEW one \in Nat,
         NEW q, \A x \in a..(b + 1) : q[x] \in Int, \A x \in a..b : q[x + 1] - q[x] \in Nat,
         NEW u, \A y \in c..(d + 1) : u[y] \in Int,
         \A x \in a..b : \A y \in c..d :
           /\ t[<<x, y>>] \in Nat
           /\ t[<<x, y>>] * one <= (q[x + 1] - q[x]) * (u[y + 1] - u[y])
  PROVE  /\ g[(a..b) \X (c..d)] \in Nat
         /\ g[(a..b) \X (c..d)] * one <= (q[b + 1] - q[a]) * (u[d + 1] - u[c])
  <1> DEFINE Up(m) == (a..m) \X (c..d)
             Ok(m) == g[Up(m)] \in Nat /\ g[Up(m)] * one <= (q[m + 1] - q[a]) * (u[d + 1] - u[c])
             A == {n \in Nat : a - 1 + n <= b => Ok(a - 1 + n)}
  <1>0. PICK w \in Int, q0 \in Int : w = u[d + 1] - u[c] /\ q0 = q[a]
    <2>1. u[d + 1] \in Int /\ u[c] \in Int /\ q[a] \in Int
      OBVIOUS
    <2> QED
      BY <2>1
  <1>1. 0 \in A
    <2>1. Up(a - 1) = {} /\ a - 1 + 1 = a /\ a - 1 + 0 = a - 1
      OBVIOUS
    <2>2. g[{}] = 0
      BY DEF Adds
    <2>3. 0 * one <= (q0 - q0) * w
      BY <1>0
    <2>4. Ok(a - 1)
      <3>1. g[Up(a - 1)] = 0
        BY <2>1, <2>2
      <3>2. (q[a - 1 + 1] - q[a]) * (u[d + 1] - u[c]) = (q0 - q0) * w
        BY <1>0, <2>1
      <3> HIDE DEF Up
      <3> QED
        BY <2>3, <3>1, <3>2
    <2> QED
      BY <2>1, <2>4
  <1>2. ASSUME NEW n \in Nat, n \in A PROVE n + 1 \in A
    <2> SUFFICES ASSUME a - 1 + (n + 1) <= b PROVE Ok(a - 1 + (n + 1))
      OBVIOUS
    <2>1. PICK m \in a..b : m = a + n
      OBVIOUS
    <2>2. a - 1 + (n + 1) = m /\ a - 1 + n = m - 1 /\ m - 1 + 1 = m
      BY <2>1
    <2>3. Ok(m - 1)
      BY <1>2, <2>1, <2>2
    <2>4. /\ Up(m - 1) \in SUBSET ((a..b) \X (c..d))
          /\ \A z \in Up(m - 1) : z[1] # m
          /\ Up(m) = Up(m - 1) \cup ({m} \X (c..d))
      <3>1. (a..m) = (a..(m - 1)) \cup {m} /\ m \notin a..(m - 1) /\ a..(m - 1) \subseteq a..b
        BY <2>1
      <3> QED
        BY <3>1
    <2>5. PICK v \in Nat, q1 \in Int, q2 \in Int : q1 = q[m] /\ q2 = q[m + 1] /\ v = q2 - q1
      BY <2>1
    <2> HIDE DEF Up
    <2>6. /\ g[Up(m)] \in Nat
          /\ g[Up(m)] * one <= g[Up(m - 1)] * one + v * (u[d + 1] - u[c])
      <3>1. \A y \in c..d : /\ t[<<m, y>>] \in Nat
                            /\ t[<<m, y>>] * one <= v * (u[y + 1] - u[y])
        BY <2>5
      <3>2. g[Up(m - 1)] \in Nat
        BY <2>3
      <3>3. PICK B \in SUBSET ((a..b) \X (c..d)) : B = Up(m - 1)
        BY <2>4
      <3>4. /\ g[B \cup ({m} \X (c..d))] \in Nat
            /\ g[B \cup ({m} \X (c..d))] * one <= g[B] * one + v * (u[d + 1] - u[c])
        BY <2>4, <3>1, <3>2, <3>3, RowSum, ZenonT(60)
      <3> QED
        BY <2>4, <3>3, <3>4
    <2>7. PICK gm \in Nat, gp \in Nat : gm = g[Up(m)] /\ gp = g[Up(m - 1)]
      BY <2>3, <2>6
    <2>8. gm * one <= gp * one + v * w /\ gp * one <= (q1 - q0) * w
      BY <1>0, <2>2, <2>3, <2>5, <2>6, <2>7
    <2>9. gm * one <= (q2 - q0) * w
      <3>1. PICK vw \in Int, w0 \in Int, w1 \in Int, w2 \in Int :
              vw = v * w /\ w0 = q0 * w /\ w1 = q1 * w /\ w2 = q2 * w
        OBVIOUS
      <3>2. vw = w2 - w1 /\ (q1 - q0) * w = w1 - w0 /\ (q2 - q0) * w = w2 - w0
        BY <2>5, <3>1
      <3>3. PICK gmo \in Nat, gpo \in Nat : gmo = gm * one /\ gpo = gp * one
        OBVIOUS
      <3> QED
        BY <2>8, <3>1, <3>2, <3>3
    <2> QED
      BY <1>0, <2>2, <2>5, <2>7, <2>9
  <1>3. \A n \in Nat : n \in A
    <2> HIDE DEF A
    <2> QED
      BY <1>1, <1>2, SetInduction
  <1>4. PICK n \in Nat : a - 1 + n = b
    <2>1. b - (a - 1) \in Nat /\ a - 1 + (b - (a - 1)) = b
      OBVIOUS
    <2> QED
      BY <2>1
  <1>5. Ok(b)
    <2>1. a - 1 + n <= b => Ok(a - 1 + n)
      BY <1>3
    <2> HIDE DEF Ok
    <2> QED
      BY <1>4, <2>1
  <1> QED
    BY <1>5
-----------------------------------------------------------------------------

(* The source coordinates from f to l are those from a to k, and what they *)
(* count for are the steps of q, which leads from f to l.                  *)
Borders(f, l, a, k, q) ==
  /\ a \in Nat /\ k \in Nat /\ a <= k /\ Sources(f, l) = a..k
  /\ \A i \in a..(k + 1) : q[i] \in Int
  /\ q[a] = f /\ q[k + 1] = l
  /\ \A i \in a..k : Portion(i, f, l) = q[i + 1] - q[i] /\ Portion(i, f, l) \in 0..Fixed1

(* There are such steps: the borders of the source coordinates.            *)
LEMMA PortionSteps ==
  ASSUME PowersOfTwo, NEW f \in Nat, NEW l \in Nat, f <= l
  PROVE  \E a, k, q : Borders(f, l, a, k, q)
  <1>1. PICK one \in Nat : one = Fixed1 /\ one > 0
    <2>1. 2 ^ FracBits \in Int
      BY ThumbResizeAssumption
    <2> QED
      BY <2>1 DEF PowersOfTwo, Fixed1
  <1>2. PICK g \in Nat, gp \in Nat : g = f \div one /\ gp = g * one /\ gp <= f /\ f < gp + one
    <2>1. f \div one \in Nat /\ f % one \in 0..(one - 1) /\ f = (f \div one) * one + (f % one)
      BY <1>1, Quotient
    <2>2. (f \div one) * one \in Nat
      BY <2>1, Product
    <2> QED
      BY <2>1, <2>2
  <1>3. PICK u \in Nat, up \in Nat : u = l \div one /\ up = u * one /\ up <= l /\ l < up + one
    <2>1. l \div one \in Nat /\ l % one \in 0..(one - 1) /\ l = (l \div one) * one + (l % one)
      BY <1>1, Quotient
    <2>2. (l \div one) * one \in Nat
      BY <2>1, Product
    <2> QED
      BY <2>1, <2>2
  <1>4. g <= u
    <2>1. u < g => (u + 1) * one <= g * one
      BY Product
    <2>2. (u + 1) * one = up + one
      BY <1>3, Product
    <2> QED
      BY <1>2, <1>3, <2>1, <2>2
  <1>5. PICK k \in Nat : k = IF u = g \/ up < l THEN u ELSE u - 1
    BY <1>4
  <1>6. g <= k /\ k <= u
    BY <1>4, <1>5
  <1>7. Sources(f, l) = {j \in g..u : j = g \/ j * one < l}
    BY <1>1, <1>2, <1>3 DEF Sources, FixedToInt
  <1>8. ASSUME NEW i \in Nat
        PROVE  /\ i * one \in Nat /\ (i + 1) * one = i * one + one
               /\ i < u => i * one + one <= up
               /\ g < i => gp + one <= i * one
               /\ u < i => up + one <= i * one
    BY <1>2, <1>3, Product
  <1>9. Sources(f, l) = g..k
    <2>1. ASSUME NEW j \in g..u PROVE (j = g \/ j * one < l) <=> j <= k
      <3>1. PICK p \in Nat : p = j * one
        BY <1>8
      <3>2. j < u => p + one <= up
        BY <1>8, <3>1
      <3>3. j = u => p = up
        BY <1>3, <3>1
      <3> QED
        BY <1>1, <1>3, <1>5, <1>6, <3>1, <3>2, <3>3
    <2>2. g..k = {j \in g..u : j <= k}
      BY <1>6
    <2> QED
      BY <1>7, <2>1, <2>2
  <1> DEFINE q == [i \in Nat |-> IF i * one < f THEN f ELSE IF i * one > l THEN l ELSE i * one]
  <1>10. \A i \in g..(k + 1) : q[i] \in Int
    <2> SUFFICES ASSUME NEW i \in g..(k + 1) PROVE q[i] \in Int
      OBVIOUS
    <2>1. i \in Nat /\ i * one \in Nat
      BY <1>8
    <2> QED
      BY <2>1
  <1>11. q[g] = f
    BY <1>2
  <1>12. q[k + 1] = l
    <2>1. PICK p \in Nat : p = (k + 1) * one
      BY <1>8
    <2>2. p >= l
      <3>1. CASE k = u
        BY <1>3, <2>1, <3>1, <1>8
      <3>2. CASE k # u
        <4>1. k + 1 = u /\ up = l
          BY <1>3, <1>5, <3>2
        <4> QED
          BY <1>3, <2>1, <4>1
      <3> QED
        BY <3>1, <3>2
    <2>3. q[k + 1] = IF p < f THEN f ELSE IF p > l THEN l ELSE p
      BY <2>1
    <2> QED
      BY <2>2, <2>3
  <1>13. ASSUME NEW i \in g..k
         PROVE  Portion(i, f, l) = q[i + 1] - q[i] /\ Portion(i, f, l) \in 0..Fixed1
    <2>1. PICK p \in Nat : p = i * one /\ (i + 1) * one = p + one
      BY <1>8
    <2>2. p + one > f
      <3>1. g < i => gp + one <= p
        BY <1>8, <2>1
      <3>2. g = i => gp = p
        BY <1>2, <2>1
      <3> QED
        BY <1>2, <3>1, <3>2
    <2>3. p <= l
      <3>1. i < u => p + one <= up
        BY <1>8, <2>1
      <3>2. i = u => up = p
        BY <1>3, <2>1
      <3> QED
        BY <1>3, <1>6, <3>1, <3>2
    <2>4. q[i] = IF p < f THEN f ELSE p
      <3>1. i \in Nat
        OBVIOUS
      <3> QED
        BY <2>1, <2>3, <3>1
    <2>5. q[i + 1] = IF p + one > l THEN l ELSE p + one
      <3>1. i + 1 \in Nat
        OBVIOUS
      <3> QED
        BY <2>1, <2>2, <3>1
    <2>6. Portion(i, f, l) = Overlap(i, f, l)
      <3>1. Exact(f, l)
        BY PortionExact
      <3>2. i \in Sources(f, l) /\ i \in Nat
        BY <1>9
      <3> QED
        BY <3>1, <3>2 DEF Exact
    <2>7. Overlap(i, f, l) = (IF p + one < l THEN p + one ELSE l) - (IF p > f THEN p ELSE f)
      BY <1>1, <2>1 DEF Overlap
    <2> HIDE DEF q
    <2>8. (IF p + one < l THEN p + one ELSE l) - (IF p > f THEN p ELSE f) = q[i + 1] - q[i]
      BY <2>4, <2>5
    <2>9. (IF p + one < l THEN p + one ELSE l) - (IF p > f THEN p ELSE f) \in 0..one
      BY <2>2, <2>3
    <2> QED
      BY <1>1, <2>6, <2>7, <2>8, <2>9
  <1> HIDE DEF q
  <1>14. Borders(f, l, g, k, q)
    BY <1>6, <1>9, <1>10, <1>11, <1>12, <1>13 DEF Borders
  <1> QED
    BY <1>14

(* What the do loop of one side counts in all.                             *)
PortionSum(f, l) == MapThenSumSet(LAMBDA i : Portion(i, f, l), Sources(f, l))

(* It is such a sum, in some order.                                        *)
LEMMA PortionSumIs ==
  ASSUME NEW f, NEW l, NEW p, p = [i \in Sources(f, l) |-> Portion(i, f, l)],
         IsFiniteSet(Sources(f, l))
  PROVE  \E g : IsSum(g, p, Sources(f, l)) /\ PortionSum(f, l) = g[Sources(f, l)]
  <1> DEFINE S == Sources(f, l)
             E(g) == g = [s \in SUBSET S |->
                            IF s = {} THEN 0
                            ELSE Portion(CHOOSE x \in s : TRUE, f, l) + g[s \ {CHOOSE x \in s : TRUE}]]
             c == CHOOSE g : E(g)
  <1>1. \A g : E(g) <=> IsSum(g, p, S)
    <2> SUFFICES ASSUME NEW g PROVE E(g) <=> IsSum(g, p, S)
      OBVIOUS
    <2>1. \A s \in SUBSET S : s # {} => p[CHOOSE x \in s : TRUE] = Portion(CHOOSE x \in s : TRUE, f, l)
      OBVIOUS
    <2>2. [s \in SUBSET S |-> Round(g, p, s)]
          = [s \in SUBSET S |->
               IF s = {} THEN 0
               ELSE Portion(CHOOSE x \in s : TRUE, f, l) + g[s \ {CHOOSE x \in s : TRUE}]]
      BY <2>1, SMTT(60) DEF Round, Pick
    <2> QED
      BY <2>2 DEF IsSum
  <1>2. PICK h : IsSum(h, p, S)
    BY SumExists
  <1>3. E(h)
    <2> HIDE DEF E
    <2> QED
      BY <1>1, <1>2
  <1>4. E(c)
    BY <1>3
  <1>5. PortionSum(f, l) = c[S]
    BY DEF PortionSum, MapThenSumSet, MapThenFoldSet
  <1> HIDE DEF E, c
  <1>6. IsSum(c, p, S)
    BY <1>1, <1>4
  <1> QED
    BY <1>5, <1>6

(* It is the way from the first source coordinate to the last.             *)
LEMMA PortionsSum ==
  ASSUME PowersOfTwo, NEW f \in Nat, NEW l \in Nat, f <= l
  PROVE  PortionSum(f, l) = l - f
  <1>1. PICK a, k, q : Borders(f, l, a, k, q)
    BY PortionSteps
  <1>2. /\ a \in Int /\ k \in Int /\ a - 1 <= k /\ Sources(f, l) = a..k
        /\ \A i \in a..(k + 1) : q[i] \in Int
        /\ q[a] = f /\ q[k + 1] = l
    BY <1>1 DEF Borders
  <1>3. \A i \in a..k : Portion(i, f, l) = q[i + 1] - q[i] /\ q[i + 1] - q[i] \in Int
    BY <1>1, <1>2 DEF Borders
  <1>4. IsFiniteSet(a..k)
    BY <1>2, FS_Interval
  <1> DEFINE p == [i \in Sources(f, l) |-> Portion(i, f, l)]
  <1>5. PICK g : IsSum(g, p, a..k) /\ PortionSum(f, l) = g[a..k]
    BY <1>2, <1>4, PortionSumIs
  <1>6. p \in [a..k -> Int] /\ \A i \in a..k : p[i] = q[i + 1] - q[i]
    BY <1>2, <1>3
  <1> HIDE DEF p
  <1>7. Adds(g, p, a..k)
    BY <1>4, <1>5, <1>6, SumAdds
  <1>8. StepsOf(q, p, a, k)
    BY <1>2, <1>6 DEF StepsOf
  <1>9. g[a..k] = q[k + 1] - q[a]
    BY <1>2, <1>7, <1>8, IntervalSum
  <1> QED
    BY <1>2, <1>5, <1>9

(* What the source coordinates of a pixel count for adds up to what the    *)
(* pixel stands for, along each side: nothing of the image between its     *)
(* first and its last pixel is left out or counted twice.                  *)
THEOREM PortionsSumUp ==
  ASSUME PowersOfTwo
  PROVE  Spec => [](FitsWord => PortionsAddUp)
  <1>1. IInv => (FitsWord => PortionsAddUp)
    <2> SUFFICES ASSUME IInv, FitsWord, Working, NEW range \in {XRange, YRange}
                 PROVE  PortionSum(range[1], range[2]) = range[2] - range[1]
      BY DEF PortionsAddUp, PortionSum
    <2>1. /\ Reaches(at.x - inner.x, src.width, inner.width)
          /\ Reaches(at.y - inner.y, src.height, inner.height)
      BY PlaceReaches
    <2>2. range[1] \in Nat /\ range[2] \in Nat /\ range[1] <= range[2]
      BY <2>1 DEF XRange, YRange, Reaches
    <2> QED
      BY <2>2, PortionsSum
  <1> QED
    BY <1>1, Inductive, PTL

-----------------------------------------------------------------------------
(* What the pixels of two ranges count for together.                       *)
WeightOf(f, l, u, v) ==
  MapThenSumSet(LAMBDA p : FixedMul(Portion(p[1], f, l), Portion(p[2], u, v)),
                Sources(f, l) \X Sources(u, v))

(* It is a sum of such products, in some order.                            *)
LEMMA WeightIs ==
  ASSUME NEW f, NEW l, NEW u, NEW v, NEW S, S = Sources(f, l) \X Sources(u, v), IsFiniteSet(S),
         NEW t, t = [z \in S |-> FixedMul(Portion(z[1], f, l), Portion(z[2], u, v))]
  PROVE  \E g : IsSum(g, t, S) /\ WeightOf(f, l, u, v) = g[S]
  <1> DEFINE E(g) == g = [s \in SUBSET S |->
                            IF s = {} THEN 0
                            ELSE FixedMul(Portion((CHOOSE x \in s : TRUE)[1], f, l),
                                          Portion((CHOOSE x \in s : TRUE)[2], u, v))
                                   + g[s \ {CHOOSE x \in s : TRUE}]]
             c == CHOOSE g : E(g)
  <1>1. \A g : E(g) <=> IsSum(g, t, S)
    <2> SUFFICES ASSUME NEW g PROVE E(g) <=> IsSum(g, t, S)
      OBVIOUS
    <2>1. \A s \in SUBSET S :
            s # {} => t[CHOOSE x \in s : TRUE]
                        = FixedMul(Portion((CHOOSE x \in s : TRUE)[1], f, l),
                                   Portion((CHOOSE x \in s : TRUE)[2], u, v))
      OBVIOUS
    <2>2. [s \in SUBSET S |-> Round(g, t, s)]
          = [s \in SUBSET S |->
               IF s = {} THEN 0
               ELSE FixedMul(Portion((CHOOSE x \in s : TRUE)[1], f, l),
                             Portion((CHOOSE x \in s : TRUE)[2], u, v))
                      + g[s \ {CHOOSE x \in s : TRUE}]]
      BY <2>1, SMTT(60) DEF Round, Pick
    <2> QED
      BY <2>2 DEF IsSum
  <1>2. PICK h : IsSum(h, t, S)
    BY SumExists
  <1>3. E(h)
    <2> HIDE DEF E
    <2> QED
      BY <1>1, <1>2
  <1>4. E(c)
    <2> HIDE DEF E
    <2> QED
      BY <1>3
  <1>5. WeightOf(f, l, u, v) = c[S]
    BY DEF WeightOf, MapThenSumSet, MapThenFoldSet
  <1> HIDE DEF E, c
  <1>6. IsSum(c, t, S)
    BY <1>1, <1>4
  <1> QED
    BY <1>5, <1>6

(* A product of portions, taken down to a fixed-point number.              *)
LEMMA PortionProduct ==
  ASSUME PowersOfTwo, RoomForColours, NEW a \in 0..Fixed1, NEW b \in 0..Fixed1
  PROVE  FixedMul(a, b) \in Nat /\ FixedMul(a, b) * Fixed1 <= a * b
  <1>1. PICK one \in Nat : one = Fixed1 /\ one > 0
    <2>1. 2 ^ FracBits \in Int
      BY ThumbResizeAssumption
    <2> QED
      BY <2>1 DEF PowersOfTwo, Fixed1
  <1>2. PICK m \in Nat : m = 2 ^ (WordBits - 1) /\ one * one < m
    <2>1. 2 ^ (WordBits - 1) \in Int
      BY ThumbResizeAssumption
    <2> QED
      BY <1>1, <2>1 DEF PowersOfTwo, RoomForColours
  <1>3. a \in Nat /\ b \in Nat /\ a <= one /\ b <= one
    BY <1>1
  <1>4. PICK ab \in Nat, sq \in Nat : ab = a * b /\ sq = one * one /\ ab <= sq
    <2>1. a * b <= one * b
      BY <1>3, Product
    <2>2. b * one <= one * one
      BY <1>3, Product
    <2>3. a * b \in Nat /\ one * b = b * one /\ b * one \in Nat /\ one * one \in Nat
      BY <1>3
    <2> QED
      BY <2>1, <2>2, <2>3
  <1>5. PICK d \in Nat : d = ab \div one /\ d * one <= ab
    BY <1>1, Quotient
  <1>6. d <= ab
    <2>1. d * 1 <= d * one
      <3>1. 1 * d <= one * d
        BY <1>1, Product
      <3> QED
        BY <3>1
    <2>2. d * 1 = d /\ d * one \in Nat
      BY Product
    <2> QED
      BY <1>5, <2>1, <2>2
  <1>7. Wrap(d) = d
    <2>1. d < 2 ^ (WordBits - 1)
      BY <1>2, <1>4, <1>6
    <2> QED
      BY <2>1, Unwrapped
  <1> QED
    BY <1>1, <1>4, <1>5, <1>7 DEF FixedMul

(* The weight is no more than the area of the image the ranges enclose.    *)
LEMMA WeightBelowArea ==
  ASSUME PowersOfTwo, RoomForColours,
         NEW f \in Nat, NEW l \in Nat, f <= l, NEW u \in Nat, NEW v \in Nat, u <= v
  PROVE  /\ WeightOf(f, l, u, v) \in Nat
         /\ WeightOf(f, l, u, v) * Fixed1 <= (l - f) * (v - u)
  <1>1. PICK a, b, q : Borders(f, l, a, b, q)
    BY PortionSteps
  <1>2. PICK c, d, w : Borders(u, v, c, d, w)
    BY PortionSteps
  <1>3. /\ a \in Int /\ b \in Int /\ c \in Int /\ d \in Int /\ a - 1 <= b /\ c - 1 <= d
        /\ Sources(f, l) = a..b /\ Sources(u, v) = c..d
        /\ \A x \in a..(b + 1) : q[x] \in Int
        /\ \A y \in c..(d + 1) : w[y] \in Int
        /\ q[b + 1] - q[a] = l - f /\ w[d + 1] - w[c] = v - u
    BY <1>1, <1>2, SMTT(60) DEF Borders
  <1>4. /\ \A x \in a..b : Portion(x, f, l) = q[x + 1] - q[x] /\ Portion(x, f, l) \in 0..Fixed1
        /\ \A y \in c..d : Portion(y, u, v) = w[y + 1] - w[y] /\ Portion(y, u, v) \in 0..Fixed1
    BY <1>1, <1>2 DEF Borders
  <1>5. PICK one \in Nat : one = Fixed1
    <2>1. 2 ^ FracBits \in Int
      BY ThumbResizeAssumption
    <2> QED
      BY <2>1 DEF PowersOfTwo, Fixed1
  <1> DEFINE S == (a..b) \X (c..d)
             t == [z \in S |-> FixedMul(Portion(z[1], f, l), Portion(z[2], u, v))]
  <1>6. IsFiniteSet(S)
    <2>1. IsFiniteSet(a..b) /\ IsFiniteSet(c..d)
      BY <1>3, FS_Interval
    <2> QED
      BY <2>1, FS_Product
  <1>7. PICK g : IsSum(g, t, S) /\ WeightOf(f, l, u, v) = g[S]
    <2>1. /\ S = Sources(f, l) \X Sources(u, v)
          /\ t = [z \in S |-> FixedMul(Portion(z[1], f, l), Portion(z[2], u, v))]
      BY <1>3
    <2> HIDE DEF S, t
    <2> QED
      BY <1>6, <2>1, WeightIs
  <1>8. ASSUME NEW x \in a..b, NEW y \in c..d
        PROVE  /\ t[<<x, y>>] \in Nat
               /\ t[<<x, y>>] * one <= (q[x + 1] - q[x]) * (w[y + 1] - w[y])
    <2>1. t[<<x, y>>] = FixedMul(Portion(x, f, l), Portion(y, u, v))
      OBVIOUS
    <2>2. /\ Portion(x, f, l) \in 0..Fixed1 /\ Portion(y, u, v) \in 0..Fixed1
          /\ Portion(x, f, l) = q[x + 1] - q[x] /\ Portion(y, u, v) = w[y + 1] - w[y]
      BY <1>4
    <2>3. /\ FixedMul(Portion(x, f, l), Portion(y, u, v)) \in Nat
          /\ FixedMul(Portion(x, f, l), Portion(y, u, v)) * Fixed1
               <= Portion(x, f, l) * Portion(y, u, v)
      BY <2>2, PortionProduct
    <2> QED
      BY <1>5, <2>1, <2>2, <2>3
  <1>9. \A x \in a..b : q[x + 1] - q[x] \in Nat
    BY <1>4, <1>5
  <1>10. t \in [S -> Int]
    <2>1. \A z \in S : t[z] \in Int
      <3> SUFFICES ASSUME NEW z \in S PROVE t[z] \in Int
        OBVIOUS
      <3>1. PICK x \in a..b, y \in c..d : z = <<x, y>>
        OBVIOUS
      <3>2. t[<<x, y>>] \in Nat
        BY <1>8
      <3> QED
        BY <3>1, <3>2
    <2> QED
      BY <2>1
  <1> HIDE DEF t
  <1>11. Adds(g, t, S)
    <2> HIDE DEF S
    <2> QED
      BY <1>6, <1>7, <1>10, SumAdds
  <1>12. g[S] \in Nat /\ g[S] * one <= (q[b + 1] - q[a]) * (w[d + 1] - w[c])
    BY <1>3, <1>8, <1>9, <1>11, GridSum
  <1> QED
    BY <1>3, <1>5, <1>7, <1>12

(* The weight of the next pixel is no more than the area of the image it   *)
(* stands for: no part of the image is counted twice.                      *)
WeightBounded ==
  Working =>
    /\ Weight \in Nat
    /\ Weight * Fixed1 <= (XRange[2] - XRange[1]) * (YRange[2] - YRange[1])

(* So it is whenever the sides are in the range of a fixed_t.              *)
LEMMA WeightsBounded ==
  ASSUME PowersOfTwo, RoomForColours, IInv, FitsWord
  PROVE  WeightBounded
  <1> SUFFICES ASSUME Working
               PROVE  /\ Weight \in Nat
                      /\ Weight * Fixed1 <= (XRange[2] - XRange[1]) * (YRange[2] - YRange[1])
    BY DEF WeightBounded
  <1>1. /\ Reaches(at.x - inner.x, src.width, inner.width)
        /\ Reaches(at.y - inner.y, src.height, inner.height)
    BY PlaceReaches
  <1>2. /\ XRange[1] \in Nat /\ XRange[2] \in Nat /\ XRange[1] <= XRange[2]
        /\ YRange[1] \in Nat /\ YRange[2] \in Nat /\ YRange[1] <= YRange[2]
    BY <1>1 DEF XRange, YRange, Reaches
  <1>3. Weight = WeightOf(XRange[1], XRange[2], YRange[1], YRange[2])
    BY DEF Weight, WeightOf, Reads
  <1> QED
    BY <1>2, <1>3, WeightBelowArea

(* What the pixels a pixel is made of count for, rounded one by one, does  *)
(* not exceed the part of the image it stands for.                         *)
THEOREM WeightsStayBelow ==
  ASSUME PowersOfTwo, RoomForColours
  PROVE  Spec => [](FitsWord => WeightBounded)
  BY WeightsBounded, Inductive, PTL

(* A picture of one colour stays one.  (Black is left out: its sum is 0,   *)
(* however much it weighs, so that its weight may be beyond a fixed_t.)    *)
THEOREM PlainKept ==
  ASSUME PowersOfTwo, RoomForColours, Colour > 0
  PROVE  Spec => [](FitsWord => PlainStaysPlain)
  <1>1. IInv => (FitsWord => PlainStaysPlain)
    <2> SUFFICES ASSUME IInv, FitsWord, Working, InRange(Weight)
                 PROVE  /\ Averaged(Weight) <= Colour
                        /\ (Colour - Averaged(Weight) - 1) * Fixed1 * Fixed1 <= Colour * Weight
      BY DEF PlainStaysPlain
    <2>1. PICK w \in Nat : w = Weight
      BY WeightsBounded DEF WeightBounded
    <2>2. w < 2 ^ (WordBits - 1)
      <3>1. PICK c \in Nat : c = Colour /\ 1 <= c
        BY ThumbResizeAssumption
      <3>2. PICK m \in Nat : m = 2 ^ (WordBits - 1)
        <4>1. 2 ^ (WordBits - 1) \in Int
          BY ThumbResizeAssumption
        <4> QED
          BY <4>1 DEF PowersOfTwo
      <3>3. 1 * w <= c * w /\ c * w \in Nat
        BY <3>1, Product
      <3>4. c * w < m
        BY <2>1, <3>1, <3>2 DEF InRange
      <3> QED
        BY <3>2, <3>3, <3>4
    <2>3. Plain(w)
      BY <2>1, <2>2, PlainAverage
    <2> QED
      BY <2>1, <2>3 DEF Plain
  <1> QED
    BY <1>1, Inductive, PTL
=============================================================================
