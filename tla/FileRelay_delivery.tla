------------------------- MODULE FileRelay_delivery -------------------------
(* What FileRelay delivers: no line that was sent is lost unless it was      *)
(* dropped.  The proof counts messages: those that the frames sent carry are *)
(* in the listener's file or in a stream on the way to it, at every moment.  *)
EXTENDS FileRelay_proofs

-----------------------------------------------------------------------------
(* What At keeps of a sequence.                                             *)

\* f is the m numbers of a set in ascending order ...
Enumerates(f, m, D) ==
    /\ m \in Nat /\ f \in [1 .. m -> D]
    /\ \A i, j \in 1 .. m : i < j => f[i] < f[j]
    /\ \A x \in D : \E i \in 1 .. m : f[i] = x

\* ... so it is what Ascending chooses.
LEMMA AscendingIs ==
    ASSUME NEW n \in Nat, NEW D \in SUBSET (1 .. n), NEW m, NEW f, Enumerates(f, m, D)
    PROVE  Cardinality(D) = m /\ Ascending(D) = f
<1>0. /\ m \in Nat /\ f \in [1 .. m -> D]
      /\ \A i, j \in 1 .. m : i < j => f[i] < f[j]
      /\ \A x \in D : \E i \in 1 .. m : f[i] = x
  BY DEF Enumerates
<1>1. \A i \in 1 .. m : f[i] \in D /\ f[i] \in Nat
  <2>1. \A x \in D : x \in Nat
    OBVIOUS
  <2>2. \A i \in 1 .. m : f[i] \in D
    BY <1>0
  <2> QED
    BY <2>1, <2>2
<1>2. \A i, j \in 1 .. m : f[i] = f[j] => i = j
  <2>1. \A i, j \in 1 .. m : i < j => f[i] # f[j]
    BY <1>0, <1>1
  <2> QED
    BY <2>1
<1>3. Cardinality(D) = m
  <2>1. f \in Bijection(1 .. m, D)
    BY <1>0, <1>2 DEF Bijection, Injection, Surjection, IsInjective
  <2> QED
    BY <1>0, <2>1, FS_CountingElements DEF ExistsBijection
<1>4. ASSUME NEW i \in 1 .. m
      PROVE  Cardinality({y \in D : y <= f[i]}) = i
  <2> DEFINE B == {y \in D : y <= f[i]}
             g == [j \in 1 .. i |-> f[j]]
  <2>1. \A j \in 1 .. i : j \in 1 .. m /\ f[j] \in B
    BY <1>0, <1>1
  <2>2. \A y \in B : \E j \in 1 .. i : f[j] = y
    <3> TAKE y \in B
    <3>1. PICK j \in 1 .. m : f[j] = y
      BY <1>0
    <3>2. ~ (i < j)
      BY <1>0, <1>1, <3>1
    <3> QED
      BY <3>1, <3>2
  <2>3. g \in [1 .. i -> B] /\ \A j \in 1 .. i : g[j] = f[j]
    BY <2>1
  <2> HIDE DEF B, g
  <2>4. g \in Bijection(1 .. i, B)
    BY <1>2, <2>1, <2>2, <2>3 DEF Bijection, Injection, Surjection, IsInjective
  <2>5. Cardinality(B) = i
    BY <2>4, FS_CountingElements DEF ExistsBijection
  <2> QED
    BY <2>5 DEF B
<1>5. ASSUME NEW i \in 1 .. m
      PROVE  (CHOOSE x \in D : Cardinality({y \in D : y <= x}) = i) = f[i]
  <2>1. \A x \in D : Cardinality({y \in D : y <= x}) = i => x = f[i]
    <3> TAKE x \in D
    <3>1. PICK j \in 1 .. m : f[j] = x
      BY <1>0
    <3>2. Cardinality({y \in D : y <= x}) = j
      BY <1>4, <3>1
    <3> QED
      BY <3>1, <3>2
  <2>2. f[i] \in D /\ Cardinality({y \in D : y <= f[i]}) = i
    BY <1>1, <1>4
  <2> QED
    BY <2>1, <2>2
<1>6. Ascending(D) = [i \in 1 .. m |-> f[i]]
  BY <1>3, <1>5 DEF Ascending
<1> QED
  BY <1>0, <1>3, <1>6

\* At is known by the places it keeps.
LEMMA AtIs ==
    ASSUME NEW S, NEW s \in Seq(S), NEW D \in SUBSET DOMAIN s, NEW m, NEW f, Enumerates(f, m, D)
    PROVE  Cardinality(D) = m /\ At(s, D) = [i \in 1 .. m |-> s[f[i]]]
<1>1. Len(s) \in Nat /\ D \in SUBSET (1 .. Len(s))
  BY LenProperties
<1>2. Cardinality(D) = m /\ Ascending(D) = f
  BY <1>1, AscendingIs
<1> QED
  BY <1>2 DEF At

\* All of a sequence.
LEMMA AtAll ==
    ASSUME NEW S, NEW s \in Seq(S)
    PROVE  At(s, DOMAIN s) = s
<1> DEFINE f == [i \in 1 .. Len(s) |-> i]
<1>1. Len(s) \in Nat /\ DOMAIN s = 1 .. Len(s) /\ s = [i \in 1 .. Len(s) |-> s[i]]
  BY LenProperties
<1>2. At(s, DOMAIN s) = [i \in 1 .. Len(s) |-> s[f[i]]]
  <2>1. f \in [1 .. Len(s) -> DOMAIN s] /\ Len(s) \in Nat /\ DOMAIN s \in SUBSET DOMAIN s
    BY <1>1
  <2>2. \A i, j \in 1 .. Len(s) : i < j => f[i] < f[j]
    OBVIOUS
  <2>3. \A x \in DOMAIN s : \E i \in 1 .. Len(s) : f[i] = x
    BY <1>1
  <2> HIDE DEF f
  <2> QED
    <3>1. Enumerates(f, Len(s), DOMAIN s) /\ DOMAIN s \in SUBSET DOMAIN s
      BY <2>1, <2>2, <2>3 DEF Enumerates
    <3> QED
      BY <3>1, AtIs
<1> QED
  BY <1>1, <1>2

\* When nothing is missing, everything is kept.
LEMMA AtWhole ==
    ASSUME NEW S, NEW s \in Seq(S), NEW D \in SUBSET DOMAIN s, ~ (Len(At(s, D)) < Len(s))
    PROVE  At(s, D) = s
<1>1. Len(s) \in Nat /\ DOMAIN s = 1 .. Len(s)
  BY LenProperties
<1>2. IsFiniteSet(1 .. Len(s)) /\ Cardinality(1 .. Len(s)) = Len(s)
  <2>1. 1 \in Int /\ Len(s) \in Int
    BY <1>1
  <2>2. IsFiniteSet(1 .. Len(s)) /\ Cardinality(1 .. Len(s)) = IF 1 > Len(s) THEN 0 ELSE Len(s) - 1 + 1
    BY <2>1, FS_Interval
  <2> QED
    BY <1>1, <2>2
<1>3. Len(At(s, D)) = Cardinality(D)
  BY AtProperties
<1>4. Cardinality(D) \in Nat /\ Cardinality(D) <= Len(s)
  BY <1>1, <1>2, FS_Subset, FS_CardinalityType
<1>5. Cardinality(D) = Cardinality(1 .. Len(s))
  BY <1>1, <1>2, <1>3, <1>4
<1>6. D = DOMAIN s
  BY <1>1, <1>2, <1>5, FS_Subset
<1> QED
  BY <1>6, AtAll

\* The numbers of D at some of its places, in ascending order.
PlacesOf(D, E) == {Ascending(D)[i] : i \in E}

\* What is kept of what was kept is kept at those places.
LEMMA AtOfAt ==
    ASSUME NEW S, NEW s \in Seq(S), NEW D \in SUBSET DOMAIN s, NEW E \in SUBSET DOMAIN At(s, D)
    PROVE  At(At(s, D), E) = At(s, PlacesOf(D, E))
<1> DEFINE t == At(s, D)
           a == Ascending(D)
           F == {a[i] : i \in E}
<1>1. /\ t \in Seq(S) /\ DOMAIN t = 1 .. Cardinality(D)
      /\ \A i \in DOMAIN t : a[i] \in D /\ t[i] = s[a[i]]
      /\ \A i, j \in DOMAIN t : i < j => a[i] < a[j]
  BY AtProperties
<1> HIDE DEF t, a
<1> DEFINE b == Ascending(E)
           m == Cardinality(E)
           f == [i \in 1 .. m |-> a[b[i]]]
<1>2. E \in SUBSET DOMAIN t
  BY DEF t
<1>3. /\ m \in Nat /\ b \in [1 .. m -> E]
      /\ \A i, j \in 1 .. m : i < j => b[i] < b[j]
      /\ \A x \in E : \E i \in 1 .. m : b[i] = x
  <2>1. Len(t) \in Nat /\ E \in SUBSET (1 .. Len(t))
    BY <1>1, <1>2, LenProperties
  <2> QED
    BY <2>1, AscendingProperties
<1>4. At(t, E) = [i \in 1 .. m |-> t[b[i]]]
  BY DEF At
<1> HIDE DEF b, m
<1>5. F \in SUBSET DOMAIN s /\ f \in [1 .. m -> F]
  BY <1>1, <1>2, <1>3
<1>6. \A i, j \in 1 .. m : i < j => f[i] < f[j]
  BY <1>1, <1>2, <1>3
<1>7. \A x \in F : \E i \in 1 .. m : f[i] = x
  BY <1>3
<1>8. \A i \in 1 .. m : t[b[i]] = s[f[i]]
  BY <1>1, <1>2, <1>3
<1> HIDE DEF f, F
<1>9. At(s, F) = [i \in 1 .. m |-> s[f[i]]]
  <2>1. m \in Nat
    BY <1>3
  <2> QED
    <3>1. Enumerates(f, m, F) /\ F \in SUBSET DOMAIN s
      BY <1>5, <1>6, <1>7, <2>1 DEF Enumerates
    <3> QED
      BY <3>1, AtIs
<1>10. At(t, E) = At(s, F)
  BY <1>4, <1>8, <1>9
<1> QED
  BY <1>10 DEF t, F, a, PlacesOf

\* Places of the second of two sequences, in both one after the other.
Behind(n, B) == {n + y : y \in B}

\* D has the numbers of A and then those of B, put behind the first n.
Stacked(D, n, k, A, B) ==
    /\ D \in SUBSET (1 .. n + k)
    /\ Cardinality(A) \in Nat /\ Cardinality(B) \in Nat
    /\ Cardinality(D) = Cardinality(A) + Cardinality(B)
    /\ \A i \in 1 .. Cardinality(A) : Ascending(D)[i] = Ascending(A)[i]
    /\ \A i \in 1 .. Cardinality(B) : Ascending(D)[Cardinality(A) + i] = n + Ascending(B)[i]

\* So has the union of the two.
LEMMA AscendingJoined ==
    ASSUME NEW n \in Nat, NEW k \in Nat, NEW A \in SUBSET (1 .. n), NEW B \in SUBSET (1 .. k),
           NEW D, D = A \cup Behind(n, B)
    PROVE  Stacked(D, n, k, A, B)
<1> DEFINE a == Ascending(A)
           b == Ascending(B)
           p == Cardinality(A)
           q == Cardinality(B)
           f == [i \in 1 .. p + q |-> IF i <= p THEN a[i] ELSE n + b[i - p]]
<1>1. /\ p \in Nat /\ a \in [1 .. p -> A]
      /\ \A i, j \in 1 .. p : i < j => a[i] < a[j]
      /\ \A x \in A : \E i \in 1 .. p : a[i] = x
  BY AscendingProperties
<1>2. /\ q \in Nat /\ b \in [1 .. q -> B]
      /\ \A i, j \in 1 .. q : i < j => b[i] < b[j]
      /\ \A x \in B : \E i \in 1 .. q : b[i] = x
  BY AscendingProperties
<1> HIDE DEF a, b, p, q
<1>3. D \in SUBSET (1 .. n + k)
  <2>1. \A x \in A : x \in 1 .. n + k
    OBVIOUS
  <2>2. \A y \in B : n + y \in 1 .. n + k
    OBVIOUS
  <2> QED
    BY <2>1, <2>2 DEF Behind
<1>4. ASSUME NEW i \in 1 .. p + q
      PROVE  /\ i <= p => i \in 1 .. p /\ f[i] = a[i] /\ a[i] \in A
             /\ ~ (i <= p) => i - p \in 1 .. q /\ f[i] = n + b[i - p] /\ b[i - p] \in B
  <2>1. i <= p => i \in 1 .. p
    BY <1>1
  <2>2. ~ (i <= p) => i - p \in 1 .. q
    BY <1>1, <1>2
  <2> QED
    BY <1>1, <1>2, <2>1, <2>2
<1>5. f \in [1 .. p + q -> D]
  <2>1. \A i \in 1 .. p + q : f[i] \in D
    BY <1>4 DEF Behind
  <2> QED
    BY <2>1
<1> HIDE DEF f
<1>6. ASSUME NEW i \in 1 .. p + q, NEW j \in 1 .. p + q, i < j
      PROVE  f[i] < f[j]
  <2>1. CASE j <= p
    BY <1>1, <1>4, <1>6, <2>1
  <2>2. CASE ~ (j <= p) /\ i <= p
    <3>1. f[i] \in A /\ f[j] = n + b[j - p] /\ b[j - p] \in B
      BY <1>4, <2>2
    <3>2. f[i] \in 1 .. n /\ b[j - p] \in 1 .. k
      BY <3>1
    <3> QED
      BY <3>1, <3>2
  <2>3. CASE ~ (i <= p)
    <3>1. ~ (j <= p) /\ i - p < j - p
      BY <1>1, <1>2, <1>6, <2>3
    <3>2. i - p \in 1 .. q /\ j - p \in 1 .. q /\ f[i] = n + b[i - p] /\ f[j] = n + b[j - p]
          /\ b[i - p] \in 1 .. k /\ b[j - p] \in 1 .. k
      BY <1>4, <2>3, <3>1
    <3>3. b[i - p] < b[j - p]
      BY <1>2, <3>1, <3>2
    <3> QED
      BY <3>2, <3>3
  <2> QED
    BY <2>1, <2>2, <2>3
<1>7. ASSUME NEW x \in D
      PROVE  \E i \in 1 .. p + q : f[i] = x
  <2>1. CASE x \in A
    <3>1. PICK i \in 1 .. p : a[i] = x
      BY <1>1, <2>1
    <3>2. i \in 1 .. p + q /\ i <= p
      BY <1>1, <1>2
    <3> QED
      BY <1>4, <3>1, <3>2
  <2>2. CASE x \in Behind(n, B)
    <3>1. PICK y \in B : x = n + y
      BY <2>2 DEF Behind
    <3>2. PICK i \in 1 .. q : b[i] = y
      BY <1>2
    <3>3. p + i \in 1 .. p + q /\ ~ (p + i <= p) /\ (p + i) - p = i
      BY <1>1, <1>2
    <3> QED
      BY <1>4, <3>1, <3>2, <3>3
  <2> QED
    BY <2>1, <2>2
<1>8. Cardinality(D) = p + q /\ Ascending(D) = f
  <2>1. n + k \in Nat /\ p + q \in Nat
    BY <1>1, <1>2
  <2>2. Enumerates(f, p + q, D)
    BY <1>5, <1>6, <1>7, <2>1 DEF Enumerates
  <2> QED
    BY <1>3, <2>1, <2>2, AscendingIs
<1>9. \A i \in 1 .. p : Ascending(D)[i] = a[i]
  <2> TAKE i \in 1 .. p
  <2>1. i \in 1 .. p + q /\ i <= p
    BY <1>1, <1>2
  <2> QED
    BY <1>4, <1>8, <2>1
<1>10. \A i \in 1 .. q : Ascending(D)[p + i] = n + b[i]
  <2> TAKE i \in 1 .. q
  <2>1. p + i \in 1 .. p + q /\ ~ (p + i <= p) /\ (p + i) - p = i
    BY <1>1, <1>2
  <2> QED
    BY <1>4, <1>8, <2>1
<1> QED
  BY <1>1, <1>2, <1>3, <1>8, <1>9, <1>10 DEF a, b, p, q, Stacked

\* The places of some elements.
Places(s, P) == {i \in DOMAIN s : s[i] \in P}

\* Those in two sequences, one after the other ...
LEMMA PlacesJoined ==
    ASSUME NEW S, NEW s \in Seq(S), NEW t \in Seq(S), NEW P
    PROVE  Places(s \o t, P) = Places(s, P) \cup Behind(Len(s), Places(t, P))
<1> DEFINE c == s \o t
           A == {i \in DOMAIN s : s[i] \in P}
           B == {i \in DOMAIN t : t[i] \in P}
           D == {i \in DOMAIN c : c[i] \in P}
<1>1. /\ c \in Seq(S) /\ Len(s) \in Nat /\ Len(t) \in Nat /\ Len(c) = Len(s) + Len(t)
      /\ \A i \in 1 .. Len(s) : c[i] = s[i]
      /\ \A i \in 1 .. Len(t) : c[Len(s) + i] = t[i]
  BY Joined
<1>2. DOMAIN s = 1 .. Len(s) /\ DOMAIN t = 1 .. Len(t) /\ DOMAIN c = 1 .. Len(s) + Len(t)
  BY <1>1, LenProperties
<1> HIDE DEF c
<1>3. ASSUME NEW i \in D
      PROVE  i \in A \cup Behind(Len(s), B)
  <2>1. i \in 1 .. Len(s) + Len(t) /\ c[i] \in P
    BY <1>2
  <2>2. CASE i <= Len(s)
    <3>1. i \in 1 .. Len(s)
      BY <1>1, <2>1, <2>2
    <3> QED
      BY <1>1, <1>2, <2>1, <3>1
  <2>3. CASE ~ (i <= Len(s))
    <3>1. i - Len(s) \in 1 .. Len(t) /\ i = Len(s) + (i - Len(s))
      BY <1>1, <2>1, <2>3
    <3>2. i - Len(s) \in B
      BY <1>1, <1>2, <2>1, <3>1
    <3> QED
      BY <3>1, <3>2 DEF Behind
  <2> QED
    BY <2>2, <2>3
<1>4. \A i \in A : i \in D
  <2> TAKE i \in A
  <2>1. i \in 1 .. Len(s) /\ i \in 1 .. Len(s) + Len(t)
    BY <1>1, <1>2
  <2> QED
    BY <1>1, <1>2, <2>1
<1>5. \A j \in B : Len(s) + j \in D
  <2> TAKE j \in B
  <2>1. j \in 1 .. Len(t) /\ Len(s) + j \in 1 .. Len(s) + Len(t)
    BY <1>1, <1>2
  <2> QED
    BY <1>1, <1>2, <2>1
<1>6. D = A \cup Behind(Len(s), B)
  BY <1>3, <1>4, <1>5 DEF Behind
<1> QED
  BY <1>6 DEF c, Places

\* ... and what is kept there is what is kept of each ...
LEMMA AtJoined ==
    ASSUME NEW S, NEW s \in Seq(S), NEW t \in Seq(S), NEW P
    PROVE  At(s \o t, Places(s \o t, P)) = At(s, Places(s, P)) \o At(t, Places(t, P))
<1> DEFINE c == s \o t
           A == Places(s, P)
           B == Places(t, P)
           D == Places(c, P)
           p == Cardinality(A)
           q == Cardinality(B)
<1>1. /\ c \in Seq(S) /\ Len(s) \in Nat /\ Len(t) \in Nat /\ Len(c) = Len(s) + Len(t)
      /\ \A i \in 1 .. Len(s) : c[i] = s[i]
      /\ \A i \in 1 .. Len(t) : c[Len(s) + i] = t[i]
  BY Joined
<1>0. A \in SUBSET DOMAIN s /\ B \in SUBSET DOMAIN t /\ D = A \cup Behind(Len(s), B)
  <2>1. A \in SUBSET DOMAIN s /\ B \in SUBSET DOMAIN t
    BY DEF Places
  <2>2. D = A \cup Behind(Len(s), B)
    BY PlacesJoined
  <2> QED
    BY <2>1, <2>2
<1> HIDE DEF A, B, D
<1>2. A \in SUBSET (1 .. Len(s)) /\ B \in SUBSET (1 .. Len(t))
  BY <1>0, LenProperties
<1>3. /\ D \in SUBSET (1 .. Len(s) + Len(t)) /\ p \in Nat /\ q \in Nat /\ Cardinality(D) = p + q
      /\ \A i \in 1 .. p : Ascending(D)[i] = Ascending(A)[i]
      /\ \A i \in 1 .. q : Ascending(D)[p + i] = Len(s) + Ascending(B)[i]
  <2>1. PICK n, k : n = Len(s) /\ k = Len(t)
    OBVIOUS
  <2>2. n \in Nat /\ k \in Nat /\ A \in SUBSET (1 .. n) /\ B \in SUBSET (1 .. k)
    BY <1>1, <1>2, <2>1
  <2>8. PICK E : E = A \cup Behind(n, B)
    OBVIOUS
  <2>3. /\ E \in SUBSET (1 .. n + k)
        /\ Cardinality(A) \in Nat /\ Cardinality(B) \in Nat
        /\ Cardinality(E) = Cardinality(A) + Cardinality(B)
        /\ \A i \in 1 .. Cardinality(A) : Ascending(E)[i] = Ascending(A)[i]
        /\ \A i \in 1 .. Cardinality(B) : Ascending(E)[Cardinality(A) + i] = n + Ascending(B)[i]
    <3>1. Stacked(E, n, k, A, B)
      BY <2>2, <2>8, AscendingJoined
    <3> QED
      BY <3>1 DEF Stacked
  <2>4. E = D
    BY <1>0, <2>1, <2>8
  <2> QED
    BY <2>1, <2>3, <2>4
<1>4. /\ At(s, A) \in Seq(S) /\ Len(At(s, A)) = p /\ DOMAIN At(s, A) = 1 .. p
      /\ \A i \in DOMAIN At(s, A) : Ascending(A)[i] \in A /\ At(s, A)[i] = s[Ascending(A)[i]]
  BY <1>0, AtProperties
<1>5. /\ At(t, B) \in Seq(S) /\ Len(At(t, B)) = q /\ DOMAIN At(t, B) = 1 .. q
      /\ \A i \in DOMAIN At(t, B) : Ascending(B)[i] \in B /\ At(t, B)[i] = t[Ascending(B)[i]]
  BY <1>0, AtProperties
<1> HIDE DEF c, p, q
<1>6. DOMAIN c = 1 .. Len(s) + Len(t)
  BY <1>1, LenProperties
<1>7. /\ At(c, D) \in Seq(S) /\ Len(At(c, D)) = p + q /\ DOMAIN At(c, D) = 1 .. p + q
      /\ \A i \in DOMAIN At(c, D) : At(c, D)[i] = c[Ascending(D)[i]]
  <2>1. c \in Seq(S) /\ D \in SUBSET DOMAIN c
    BY <1>1, <1>3, <1>6
  <2>2. /\ At(c, D) \in Seq(S) /\ Len(At(c, D)) = Cardinality(D) /\ DOMAIN At(c, D) = 1 .. Cardinality(D)
        /\ \A i \in DOMAIN At(c, D) : At(c, D)[i] = c[Ascending(D)[i]]
    BY <2>1, AtProperties
  <2> QED
    BY <1>3, <2>2
<1> DEFINE e == At(s, A) \o At(t, B)
<1>8. /\ e \in Seq(S) /\ Len(e) = p + q
      /\ \A i \in 1 .. p : e[i] = At(s, A)[i]
      /\ \A i \in 1 .. q : e[p + i] = At(t, B)[i]
  <2>1. At(s, A) \in Seq(S) /\ At(t, B) \in Seq(S)
    BY <1>4, <1>5
  <2>2. /\ e \in Seq(S) /\ Len(e) = Len(At(s, A)) + Len(At(t, B))
        /\ \A i \in 1 .. Len(At(s, A)) : e[i] = At(s, A)[i]
        /\ \A i \in 1 .. Len(At(t, B)) : e[Len(At(s, A)) + i] = At(t, B)[i]
    BY <2>1, Joined
  <2> QED
    BY <1>4, <1>5, <2>2
<1> HIDE DEF e
<1>9. ASSUME NEW i \in 1 .. p + q
      PROVE  At(c, D)[i] = e[i]
  <2>1. CASE i <= p
    <3>1. i \in 1 .. p
      BY <1>3, <2>1
    <3>2. Ascending(A)[i] \in 1 .. Len(s) /\ Ascending(D)[i] = Ascending(A)[i]
      BY <1>2, <1>3, <1>4, <3>1
    <3>3. At(c, D)[i] = c[Ascending(A)[i]] /\ e[i] = s[Ascending(A)[i]]
      BY <1>4, <1>7, <1>8, <3>1, <3>2
    <3> QED
      BY <1>1, <3>2, <3>3
  <2>2. CASE ~ (i <= p)
    <3>1. PICK j \in 1 .. q : i = p + j
      <4>1. i - p \in 1 .. q /\ i = p + (i - p)
        BY <1>3, <2>2
      <4> QED
        BY <4>1
    <3>2. Ascending(B)[j] \in 1 .. Len(t) /\ Ascending(D)[i] = Len(s) + Ascending(B)[j]
      BY <1>2, <1>3, <1>5, <3>1
    <3>3. At(c, D)[i] = c[Len(s) + Ascending(B)[j]]
      BY <1>7, <3>2
    <3>4. e[i] = t[Ascending(B)[j]]
      BY <1>5, <1>8, <3>1
    <3> QED
      BY <1>1, <3>2, <3>3, <3>4
  <2> QED
    BY <2>1, <2>2
<1>10. At(c, D) = e
  BY <1>7, <1>8, <1>9, SeqEqual
<1> QED
  BY <1>10 DEF c, e, A, B, D

\* ... so the frames of a type are those of each.
LEMMA OfTypeJoined ==
    ASSUME NEW S, NEW s \in Seq(Seq(S)), NEW t \in Seq(Seq(S)), NEW type
    PROVE  OfType(s \o t, type) = OfType(s, type) \o OfType(t, type)
<1> DEFINE c == s \o t
           P == {x \in Seq(S) : Decode(x).type = type}
           D(u) == Places(u, P)
<1>1. c \in Seq(Seq(S))
  BY Joined
<1> HIDE DEF c
<1>2. ASSUME NEW u \in Seq(Seq(S))
      PROVE  OfType(u, type) = At(u, D(u)) /\ D(u) \in SUBSET DOMAIN u
  <2>1. \A i \in DOMAIN u : u[i] \in Seq(S)
    BY LenProperties, ElementOfSeq
  <2>2. D(u) = {i \in DOMAIN u : Decode(u[i]).type = type}
    BY <2>1 DEF Places
  <2> QED
    BY <2>2 DEF OfType
<1> HIDE DEF P
<1>3. At(c, D(c)) = At(s, D(s)) \o At(t, D(t))
  BY AtJoined DEF c
<1>6. OfType(c, type) = OfType(s, type) \o OfType(t, type)
  BY <1>1, <1>2, <1>3
<1> QED
  BY <1>6 DEF c

-----------------------------------------------------------------------------
(* The lines and the messages of a stream.                                  *)

\* The places where lines end, and where the j-th line begins.
EndsOf(stream)   == {i \in DOMAIN stream : stream[i] = "LF"}
FirstOf(ends, j) == IF j = 1 THEN 1 ELSE ends[j - 1] + 1

\* The lines of a stream, by the places of their ends.
LEMMA LinesShape ==
    ASSUME NEW S, NEW stream \in Seq(S)
    PROVE  LET p == Cardinality(EndsOf(stream))
               e == Ascending(EndsOf(stream))
           IN  /\ p \in Nat /\ e \in [1 .. p -> EndsOf(stream)]
               /\ \A i, j \in 1 .. p : i < j => e[i] < e[j]
               /\ \A x \in EndsOf(stream) : \E i \in 1 .. p : e[i] = x
               /\ EndsOf(stream) \in SUBSET (1 .. Len(stream)) /\ Len(stream) \in Nat
               /\ Lines(stream) \in Seq(Seq(S)) /\ Len(Lines(stream)) = p
               /\ \A j \in 1 .. p : Lines(stream)[j] = SubSeq(stream, FirstOf(e, j), e[j] - 1)
               /\ \A j \in 1 .. p : FirstOf(e, j) \in 1 .. e[j]
<1> DEFINE A == EndsOf(stream)
           p == Cardinality(A)
           e == Ascending(A)
<1>1. Len(stream) \in Nat /\ A \in SUBSET (1 .. Len(stream))
  BY LenProperties DEF EndsOf
<1>2. /\ p \in Nat /\ e \in [1 .. p -> A]
      /\ \A i, j \in 1 .. p : i < j => e[i] < e[j]
      /\ \A x \in A : \E i \in 1 .. p : e[i] = x
  BY <1>1, AscendingProperties
<1>3. DOMAIN e = 1 .. p
  BY <1>2
<1>4. Lines(stream) = [j \in 1 .. p |-> SubSeq(stream, FirstOf(e, j), e[j] - 1)]
  <2>1. Lines(stream) = [j \in DOMAIN e |-> SubSeq(stream, IF j = 1 THEN 1 ELSE e[j - 1] + 1, e[j] - 1)]
    BY DEF Lines, EndsOf
  <2> HIDE DEF e, p
  <2> QED
    BY <1>3, <2>1 DEF FirstOf
<1>5. Lines(stream) \in Seq(Seq(S))
  BY LinesArePlaced
<1>6. Len(Lines(stream)) = p
  <2>1. DOMAIN Lines(stream) = 1 .. p /\ Len(Lines(stream)) \in Nat /\ DOMAIN Lines(stream) = 1 .. Len(Lines(stream))
    BY <1>4, <1>5, LenProperties
  <2> HIDE DEF p
  <2> QED
    BY <1>2, <2>1
<1>7. ASSUME NEW j \in 1 .. p
      PROVE  FirstOf(e, j) \in 1 .. e[j]
  <2> HIDE DEF e, p, A
  <2>0. \A i \in 1 .. p : e[i] \in A
    BY <1>2
  <2>9. \A x \in A : x \in Nat \ {0}
    BY <1>1
  <2>1. e[j] \in A /\ e[j] \in Nat \ {0}
    BY <2>0, <2>9
  <2>2. CASE j = 1
    BY <2>1, <2>2 DEF FirstOf
  <2>3. CASE j # 1
    <3>1. j - 1 \in 1 .. p /\ j - 1 < j
      BY <1>2, <2>3
    <3>2. e[j - 1] \in A /\ e[j - 1] \in Nat /\ e[j - 1] < e[j]
      BY <1>2, <2>0, <2>9, <3>1
    <3> QED
      BY <2>1, <2>3, <3>2 DEF FirstOf
  <2> QED
    BY <2>2, <2>3
<1> QED
  BY <1>1, <1>2, <1>4, <1>5, <1>6, <1>7

\* A part of two sequences that is a part of the first ...
LEMMA SubSeqOfFirst ==
    ASSUME NEW S, NEW s \in Seq(S), NEW t \in Seq(S), NEW m \in Nat \ {0}, NEW n \in Int, n <= Len(s)
    PROVE  SubSeq(s \o t, m, n) = SubSeq(s, m, n)
<1> DEFINE c == s \o t
           x == SubSeq(c, m, n)
           y == SubSeq(s, m, n)
<1>1. /\ c \in Seq(S) /\ Len(s) \in Nat /\ Len(t) \in Nat /\ Len(c) = Len(s) + Len(t)
      /\ \A i \in 1 .. Len(s) : c[i] = s[i]
  BY Joined
<1> HIDE DEF c
<1>2. c \in Seq(S) /\ n <= Len(c)
  BY <1>1
<1>3. /\ x \in Seq(S) /\ Len(x) = IF m <= n THEN n - m + 1 ELSE 0
      /\ \A i \in 1 .. Len(x) : x[i] = c[m + i - 1]
  BY <1>2, SubSeqShape
<1>4. /\ y \in Seq(S) /\ Len(y) = IF m <= n THEN n - m + 1 ELSE 0
      /\ \A i \in 1 .. Len(y) : y[i] = s[m + i - 1]
  BY SubSeqShape
<1> HIDE DEF x, y
<1>5. ASSUME NEW i \in 1 .. Len(x)
      PROVE  x[i] = y[i]
  <2>1. m + i - 1 \in 1 .. Len(s) /\ i \in 1 .. Len(y)
    BY <1>1, <1>3, <1>4
  <2> QED
    BY <1>1, <1>3, <1>4, <2>1
<1>6. x = y
  BY <1>3, <1>4, <1>5, SeqEqual
<1> QED
  BY <1>6 DEF x, y, c

\* ... or of the second.
LEMMA SubSeqOfSecond ==
    ASSUME NEW S, NEW s \in Seq(S), NEW t \in Seq(S), NEW m \in Nat \ {0}, NEW n \in Int, n <= Len(t)
    PROVE  SubSeq(s \o t, Len(s) + m, Len(s) + n) = SubSeq(t, m, n)
<1> DEFINE c == s \o t
           k == Len(s)
           x == SubSeq(c, k + m, k + n)
           y == SubSeq(t, m, n)
<1>1. /\ c \in Seq(S) /\ k \in Nat /\ Len(t) \in Nat /\ Len(c) = k + Len(t)
      /\ \A i \in 1 .. Len(t) : c[k + i] = t[i]
  BY Joined
<1> HIDE DEF c, k
<1>2. PICK a, b : a = k + m /\ b = k + n
  OBVIOUS
<1>3. /\ x \in Seq(S) /\ Len(x) = IF a <= b THEN b - a + 1 ELSE 0
      /\ \A i \in 1 .. Len(x) : x[i] = c[a + i - 1]
  <2>1. c \in Seq(S) /\ a \in Nat \ {0} /\ b \in Int /\ b <= Len(c)
    BY <1>1, <1>2
  <2>2. x = SubSeq(c, a, b)
    BY <1>2
  <2> HIDE DEF x
  <2> QED
    BY <2>1, <2>2, SubSeqShape
<1>4. /\ y \in Seq(S) /\ Len(y) = IF m <= n THEN n - m + 1 ELSE 0
      /\ \A i \in 1 .. Len(y) : y[i] = t[m + i - 1]
  BY SubSeqShape
<1> HIDE DEF x, y
<1>5. Len(x) = Len(y)
  BY <1>1, <1>2, <1>3, <1>4
<1>6. ASSUME NEW i \in 1 .. Len(x)
      PROVE  x[i] = y[i]
  <2>1. i \in 1 .. Len(y)
    BY <1>5
  <2>2. m <= n /\ i <= n - m + 1
    <3>1. Len(y) # 0
      BY <2>1
    <3> QED
      BY <1>4, <2>1, <3>1
  <2>3. m + i - 1 \in 1 .. Len(t)
    BY <1>1, <2>1, <2>2
  <2>4. a + i - 1 = k + (m + i - 1)
    BY <1>1, <1>2, <2>1
  <2>5. y[i] = t[m + i - 1]
    BY <1>4, <2>1
  <2>6. x[i] = c[k + (m + i - 1)]
    BY <1>3, <1>6, <2>4
  <2> QED
    BY <1>1, <2>3, <2>5, <2>6
<1>7. x = y
  BY <1>3, <1>4, <1>5, <1>6, SeqEqual
<1> QED
  BY <1>7 DEF x, y, c, k

\* The lines of a stream that ends with a line end, and of what follows it.
LEMMA LinesJoined ==
    ASSUME NEW S, NEW s \in Seq(S), NEW t \in Seq(S), Whole(s)
    PROVE  Lines(s \o t) = Lines(s) \o Lines(t)
<1> DEFINE c == s \o t
           n == Len(s)
           k == Len(t)
           A == EndsOf(s)
           B == EndsOf(t)
           D == EndsOf(c)
           p == Cardinality(A)
           q == Cardinality(B)
           a == Ascending(A)
           b == Ascending(B)
           e == Ascending(D)
<1>1. c \in Seq(S)
  BY Joined
<1>2. D = A \cup Behind(n, B)
  <2>1. \A u : EndsOf(u) = Places(u, {"LF"})
    BY DEF EndsOf, Places
  <2>2. Places(c, {"LF"}) = Places(s, {"LF"}) \cup Behind(Len(s), Places(t, {"LF"}))
    BY PlacesJoined
  <2> QED
    BY <2>1, <2>2
<1>3. /\ p \in Nat /\ a \in [1 .. p -> A]
      /\ \A i, j \in 1 .. p : i < j => a[i] < a[j]
      /\ \A x \in A : \E i \in 1 .. p : a[i] = x
      /\ A \in SUBSET (1 .. n) /\ n \in Nat
      /\ Lines(s) \in Seq(Seq(S)) /\ Len(Lines(s)) = p
      /\ \A j \in 1 .. p : Lines(s)[j] = SubSeq(s, FirstOf(a, j), a[j] - 1)
      /\ \A j \in 1 .. p : FirstOf(a, j) \in 1 .. a[j]
  BY LinesShape
<1>4. /\ q \in Nat /\ b \in [1 .. q -> B]
      /\ B \in SUBSET (1 .. k) /\ k \in Nat
      /\ Lines(t) \in Seq(Seq(S)) /\ Len(Lines(t)) = q
      /\ \A j \in 1 .. q : Lines(t)[j] = SubSeq(t, FirstOf(b, j), b[j] - 1)
      /\ \A j \in 1 .. q : FirstOf(b, j) \in 1 .. b[j]
  BY LinesShape
<1>5. /\ Lines(c) \in Seq(Seq(S)) /\ Len(Lines(c)) = Cardinality(D)
      /\ \A j \in 1 .. Cardinality(D) : Lines(c)[j] = SubSeq(c, FirstOf(e, j), e[j] - 1)
  BY <1>1, LinesShape
<1> HIDE DEF a, b, A, B, p, q, n, k
<1>6. /\ Cardinality(D) = p + q
      /\ \A i \in 1 .. p : e[i] = a[i]
      /\ \A i \in 1 .. q : e[p + i] = n + b[i]
  <2>1. PICK n1, k1, A1, B1 : n1 = n /\ k1 = k /\ A1 = A /\ B1 = B
    OBVIOUS
  <2>5. PICK E : E = A1 \cup Behind(n1, B1)
    OBVIOUS
  <2>2. n1 \in Nat /\ k1 \in Nat /\ A1 \in SUBSET (1 .. n1) /\ B1 \in SUBSET (1 .. k1)
    BY <1>3, <1>4, <2>1
  <2>3. /\ E \in SUBSET (1 .. n1 + k1)
        /\ Cardinality(A1) \in Nat /\ Cardinality(B1) \in Nat
        /\ Cardinality(E) = Cardinality(A1) + Cardinality(B1)
        /\ \A i \in 1 .. Cardinality(A1) : Ascending(E)[i] = Ascending(A1)[i]
        /\ \A i \in 1 .. Cardinality(B1) : Ascending(E)[Cardinality(A1) + i] = n1 + Ascending(B1)[i]
    <3>1. Stacked(E, n1, k1, A1, B1)
      BY <2>2, <2>5, AscendingJoined
    <3> QED
      BY <3>1 DEF Stacked
  <2>4. D = E
    BY <1>2, <2>1, <2>5
  <2> HIDE DEF D
  <2> QED
    BY <2>1, <2>3, <2>4 DEF p, q, a, b
<1> HIDE DEF D, e
<1>7. p = 0 => n = 0
  <2>1. SUFFICES ASSUME n # 0
                 PROVE  p # 0
    OBVIOUS
  <2>2. s # << >> /\ n \in 1 .. n /\ s[n] = "LF"
    BY <1>3, <2>1, EmptySeq DEF Whole, n
  <2>3. n \in A
    BY <2>2, LenProperties DEF A, EndsOf, n
  <2> QED
    BY <1>3, <2>3
<1>8. p # 0 => a[p] = n
  <2>1. SUFFICES ASSUME p # 0
                 PROVE  a[p] = n
    OBVIOUS
  <2>2. p \in 1 .. p /\ a[p] \in A /\ a[p] \in 1 .. n
    <3>1. p \in 1 .. p
      BY <1>3, <2>1
    <3>2. a[p] \in A
      BY <1>3, <3>1
    <3>3. \A x \in A : x \in 1 .. n
      BY <1>3
    <3> QED
      BY <3>1, <3>2, <3>3
  <2>3. s # << >> /\ s[n] = "LF" /\ n \in 1 .. n
    BY <1>3, <2>2, EmptySeq DEF Whole, n
  <2>4. n \in A
    BY <2>3, LenProperties DEF A, EndsOf, n
  <2>5. PICK i \in 1 .. p : a[i] = n
    BY <1>3, <2>4
  <2>6. i = p
    <3>1. ~ (i < p)
      BY <1>3, <2>2, <2>5
    <3> QED
      BY <1>3, <3>1
  <2> QED
    BY <2>5, <2>6
<1> DEFINE l == Lines(s) \o Lines(t)
<1>9. /\ l \in Seq(Seq(S)) /\ Len(l) = p + q
      /\ \A i \in 1 .. p : l[i] = Lines(s)[i]
      /\ \A i \in 1 .. q : l[p + i] = Lines(t)[i]
  <2>1. Lines(s) \in Seq(Seq(S)) /\ Lines(t) \in Seq(Seq(S))
    BY <1>3, <1>4
  <2>2. /\ l \in Seq(Seq(S)) /\ Len(l) = Len(Lines(s)) + Len(Lines(t))
        /\ \A i \in 1 .. Len(Lines(s)) : l[i] = Lines(s)[i]
        /\ \A i \in 1 .. Len(Lines(t)) : l[Len(Lines(s)) + i] = Lines(t)[i]
    <3>1. PICK T, x, y : T = Seq(S) /\ x = Lines(s) /\ y = Lines(t)
      OBVIOUS
    <3>2. x \in Seq(T) /\ y \in Seq(T)
      BY <2>1, <3>1
    <3>3. /\ x \o y \in Seq(T) /\ Len(x \o y) = Len(x) + Len(y)
          /\ \A i \in 1 .. Len(x) : (x \o y)[i] = x[i]
          /\ \A i \in 1 .. Len(y) : (x \o y)[Len(x) + i] = y[i]
      BY <3>2, Joined
    <3> QED
      BY <3>1, <3>3
  <2> QED
    BY <1>3, <1>4, <2>2
<1> HIDE DEF l
<1>10. ASSUME NEW i \in 1 .. p
       PROVE  Lines(c)[i] = l[i]
  <2>1. i \in 1 .. p + q
    BY <1>3, <1>4
  <2>2. FirstOf(e, i) = FirstOf(a, i) /\ e[i] = a[i]
    <3>1. i # 1 => i - 1 \in 1 .. p
      BY <1>3
    <3> QED
      BY <1>6, <3>1 DEF FirstOf
  <2>3. a[i] \in 1 .. n /\ FirstOf(a, i) \in 1 .. a[i]
    BY <1>3
  <2>4. FirstOf(a, i) \in Nat \ {0} /\ a[i] - 1 \in Int /\ a[i] - 1 <= Len(s)
    <3>1. PICK first, end : first = FirstOf(a, i) /\ end = a[i]
      OBVIOUS
    <3>2. n \in Nat /\ end \in 1 .. n /\ first \in 1 .. end
      BY <1>3, <2>3, <3>1
    <3>3. first \in Nat \ {0} /\ end - 1 \in Int /\ end - 1 <= n
      BY <3>2
    <3> QED
      BY <3>1, <3>3 DEF n
  <2>5. SubSeq(c, FirstOf(a, i), a[i] - 1) = SubSeq(s, FirstOf(a, i), a[i] - 1)
    BY <2>4, SubSeqOfFirst
  <2>6. Lines(c)[i] = SubSeq(c, FirstOf(e, i), e[i] - 1)
    BY <1>5, <1>6, <2>1
  <2> HIDE DEF c
  <2> QED
    BY <1>3, <1>9, <2>2, <2>5, <2>6
<1>11. ASSUME NEW i \in 1 .. q
       PROVE  Lines(c)[p + i] = l[p + i]
  <2>1. p + i \in 1 .. p + q
    BY <1>3, <1>4
  <2>2. b[i] \in 1 .. k /\ FirstOf(b, i) \in 1 .. b[i]
    BY <1>4
  <2>3. FirstOf(e, p + i) = n + FirstOf(b, i)
    <3>1. CASE i = 1
      <4>1. CASE p = 0
        BY <1>3, <1>7, <3>1, <4>1 DEF FirstOf
      <4>2. CASE p # 0
        <5>1. p \in 1 .. p /\ p + i # 1 /\ (p + i) - 1 = p
          BY <1>3, <3>1, <4>2
        <5>2. e[p] = n
          BY <1>6, <1>8, <4>2, <5>1
        <5> QED
          BY <3>1, <5>1, <5>2 DEF FirstOf
      <4> QED
        BY <4>1, <4>2
    <3>2. CASE i # 1
      <4>1. i - 1 \in 1 .. q /\ p + i # 1 /\ (p + i) - 1 = p + (i - 1)
        BY <1>3, <1>4, <3>2
      <4>2. e[p + (i - 1)] = n + b[i - 1] /\ b[i - 1] \in 1 .. k
        BY <1>4, <1>6, <4>1
      <4> QED
        BY <1>3, <3>2, <4>1, <4>2 DEF FirstOf
    <3> QED
      BY <3>1, <3>2
  <2>4. e[p + i] - 1 = n + (b[i] - 1)
    BY <1>3, <1>6, <2>2
  <2>5. FirstOf(b, i) \in Nat \ {0} /\ b[i] - 1 \in Int /\ b[i] - 1 <= Len(t)
    BY <1>4, <2>2 DEF k
  <2>6. SubSeq(c, Len(s) + FirstOf(b, i), Len(s) + (b[i] - 1)) = SubSeq(t, FirstOf(b, i), b[i] - 1)
    BY <2>5, SubSeqOfSecond
  <2>7. Lines(c)[p + i] = SubSeq(c, FirstOf(e, p + i), e[p + i] - 1)
    BY <1>5, <1>6, <2>1
  <2> HIDE DEF c
  <2> QED
    BY <1>4, <1>9, <2>3, <2>4, <2>6, <2>7 DEF n
<1>12. ASSUME NEW i \in 1 .. p + q
       PROVE  Lines(c)[i] = l[i]
  <2>1. CASE i <= p
    <3>1. i \in 1 .. p
      BY <1>3, <2>1
    <3> QED
      BY <1>10, <3>1
  <2>2. CASE ~ (i <= p)
    <3>1. i - p \in 1 .. q /\ i = p + (i - p)
      BY <1>3, <1>4, <2>2
    <3>2. Lines(c)[p + (i - p)] = l[p + (i - p)]
      BY <1>11, <3>1
    <3> QED
      BY <3>1, <3>2
  <2> QED
    BY <2>1, <2>2
<1>13. Lines(c) = l
  <2>1. Lines(c) \in Seq(Seq(S)) /\ l \in Seq(Seq(S)) /\ Len(Lines(c)) = Len(l)
        /\ \A i \in 1 .. Len(Lines(c)) : Lines(c)[i] = l[i]
    BY <1>5, <1>6, <1>9, <1>12
  <2> QED
    BY <2>1, SeqEqual
<1> QED
  BY <1>13 DEF c, l

\* The messages of a stream are the data of its DATA lines ...
LEMMA MessagesShape ==
    ASSUME NEW S, NEW chunk \in Seq(S)
    PROVE  LET frames == OfType(Lines(chunk), "DATA")
           IN  /\ Lines(chunk) \in Seq(Seq(S)) /\ frames \in Seq(Seq(S)) /\ Messages(chunk) \in Seq(Seq(S))
               /\ Len(Messages(chunk)) = Len(frames) /\ Len(frames) \in Nat
               /\ Messages(chunk) = [i \in 1 .. Len(frames) |-> Decode(frames[i]).data]
<1> DEFINE frames == OfType(Lines(chunk), "DATA")
           M      == [i \in 1 .. Len(frames) |-> Decode(frames[i]).data]
<1>1. Lines(chunk) \in Seq(Seq(S))
  BY LinesArePlaced
<1>2. frames \in Seq(Seq(S)) /\ \A i \in DOMAIN frames : frames[i] \in Seq(S)
  BY <1>1, OfTypeTexts
<1>3. Len(frames) \in Nat /\ DOMAIN frames = 1 .. Len(frames)
  BY <1>2, LenProperties
<1>4. Messages(chunk) = M
  <2>1. Messages(chunk) = [i \in DOMAIN frames |-> Decode(frames[i]).data]
    BY DEF Messages
  <2> HIDE DEF frames
  <2> QED
    BY <1>3, <2>1
<1> HIDE DEF frames
<1>5. \A i \in 1 .. Len(frames) : Decode(frames[i]).data \in Seq(S)
  BY <1>2, <1>3, DecodedShape
<1>6. M \in Seq(Seq(S)) /\ Len(M) = Len(frames)
  BY <1>3, <1>5
<1> HIDE DEF M
<1>7. Messages(chunk) \in Seq(Seq(S)) /\ Len(Messages(chunk)) = Len(frames)
  BY <1>4, <1>6
<1> QED
  BY <1>1, <1>2, <1>3, <1>4, <1>7 DEF frames, M

\* ... so those of two streams, if the first ends with a line end, are those of
\* the first and those of the second.
LEMMA MessagesJoined ==
    ASSUME NEW S, NEW s \in Seq(S), NEW t \in Seq(S), Whole(s)
    PROVE  Messages(s \o t) = Messages(s) \o Messages(t)
<1> DEFINE c == s \o t
           f == OfType(Lines(s), "DATA")
           g == OfType(Lines(t), "DATA")
           h == OfType(Lines(c), "DATA")
           m == Messages(s) \o Messages(t)
<1>1. c \in Seq(S)
  BY Joined
<1>2. Lines(c) = Lines(s) \o Lines(t)
  BY LinesJoined
<1>3. Lines(s) \in Seq(Seq(S)) /\ Lines(t) \in Seq(Seq(S))
  BY LinesArePlaced
<1>4. h = f \o g
  BY <1>2, <1>3, OfTypeJoined
<1>5. /\ f \in Seq(Seq(S)) /\ Messages(s) \in Seq(Seq(S)) /\ Len(Messages(s)) = Len(f) /\ Len(f) \in Nat
      /\ Messages(s) = [i \in 1 .. Len(f) |-> Decode(f[i]).data]
  BY MessagesShape
<1>6. /\ g \in Seq(Seq(S)) /\ Messages(t) \in Seq(Seq(S)) /\ Len(Messages(t)) = Len(g) /\ Len(g) \in Nat
      /\ Messages(t) = [i \in 1 .. Len(g) |-> Decode(g[i]).data]
  BY MessagesShape
<1>7. /\ h \in Seq(Seq(S)) /\ Messages(c) \in Seq(Seq(S)) /\ Len(Messages(c)) = Len(h)
      /\ Messages(c) = [i \in 1 .. Len(h) |-> Decode(h[i]).data]
  BY <1>1, MessagesShape
<1> HIDE DEF f, g, h, c
<1>8. /\ Len(h) = Len(f) + Len(g)
      /\ \A i \in 1 .. Len(f) : h[i] = f[i]
      /\ \A i \in 1 .. Len(g) : h[Len(f) + i] = g[i]
  <2>1. f \in Seq(Seq(S)) /\ g \in Seq(Seq(S))
    BY <1>5, <1>6
  <2>2. /\ Len(f \o g) = Len(f) + Len(g)
        /\ \A i \in 1 .. Len(f) : (f \o g)[i] = f[i]
        /\ \A i \in 1 .. Len(g) : (f \o g)[Len(f) + i] = g[i]
    BY <2>1, Joined
  <2> QED
    BY <1>4, <2>2
<1>9. /\ m \in Seq(Seq(S)) /\ Len(m) = Len(f) + Len(g)
      /\ \A i \in 1 .. Len(f) : m[i] = Messages(s)[i]
      /\ \A i \in 1 .. Len(g) : m[Len(f) + i] = Messages(t)[i]
  <2>1. Messages(s) \in Seq(Seq(S)) /\ Messages(t) \in Seq(Seq(S))
    BY <1>5, <1>6
  <2>2. /\ m \in Seq(Seq(S)) /\ Len(m) = Len(Messages(s)) + Len(Messages(t))
        /\ \A i \in 1 .. Len(Messages(s)) : m[i] = Messages(s)[i]
        /\ \A i \in 1 .. Len(Messages(t)) : m[Len(Messages(s)) + i] = Messages(t)[i]
    <3>1. PICK T, x, y : T = Seq(S) /\ x = Messages(s) /\ y = Messages(t)
      OBVIOUS
    <3>2. x \in Seq(T) /\ y \in Seq(T)
      BY <2>1, <3>1
    <3>3. /\ x \o y \in Seq(T) /\ Len(x \o y) = Len(x) + Len(y)
          /\ \A i \in 1 .. Len(x) : (x \o y)[i] = x[i]
          /\ \A i \in 1 .. Len(y) : (x \o y)[Len(x) + i] = y[i]
      BY <3>2, Joined
    <3> QED
      BY <3>1, <3>3
  <2> QED
    BY <1>5, <1>6, <2>2
<1> HIDE DEF m
<1>10. \A i \in 1 .. Len(f) : Messages(c)[i] = m[i]
  <2> TAKE i \in 1 .. Len(f)
  <2>1. i \in 1 .. Len(h)
    BY <1>5, <1>6, <1>8
  <2>2. Messages(c)[i] = Decode(f[i]).data
    BY <1>7, <1>8, <2>1
  <2>3. m[i] = Decode(f[i]).data
    BY <1>5, <1>9
  <2> QED
    BY <2>2, <2>3
<1>11. \A i \in 1 .. Len(g) : Messages(c)[Len(f) + i] = m[Len(f) + i]
  <2> TAKE i \in 1 .. Len(g)
  <2>1. Len(f) + i \in 1 .. Len(h)
    BY <1>5, <1>6, <1>8
  <2>2. Messages(c)[Len(f) + i] = Decode(g[i]).data
    BY <1>7, <1>8, <2>1
  <2>3. m[Len(f) + i] = Decode(g[i]).data
    BY <1>6, <1>9
  <2> QED
    BY <2>2, <2>3
<1>12. \A i \in 1 .. Len(h) : Messages(c)[i] = m[i]
  <2> TAKE i \in 1 .. Len(h)
  <2>1. CASE i <= Len(f)
    <3>1. i \in 1 .. Len(f)
      BY <1>5, <2>1
    <3> QED
      BY <1>10, <3>1
  <2>2. CASE ~ (i <= Len(f))
    <3>1. i - Len(f) \in 1 .. Len(g) /\ i = Len(f) + (i - Len(f))
      BY <1>5, <1>6, <1>8, <2>2
    <3> QED
      BY <1>11, <3>1
  <2> QED
    BY <2>1, <2>2
<1>13. Messages(c) = m
  <2>1. /\ Messages(c) \in Seq(Seq(S)) /\ m \in Seq(Seq(S)) /\ Len(Messages(c)) = Len(m)
        /\ \A i \in 1 .. Len(Messages(c)) : Messages(c)[i] = m[i]
    BY <1>7, <1>8, <1>9, <1>12
  <2> QED
    BY <2>1, SeqEqual
<1> QED
  BY <1>13 DEF c, m

\* What is kept at no place.
LEMMA AtNone ==
    ASSUME NEW S, NEW s \in Seq(S)
    PROVE  At(s, {}) = << >>
<1>1. {} \in SUBSET DOMAIN s /\ Cardinality({}) = 0
  BY FS_EmptySet
<1>2. At(s, {}) \in Seq(S) /\ Len(At(s, {})) = Cardinality({})
  BY <1>1, AtProperties
<1> QED
  BY <1>1, <1>2, EmptySeq

\* A text with a line end is one line.
LEMMA LinesOne ==
    ASSUME NEW S, NEW t \in Seq(S), \A i \in 1 .. Len(t) : t[i] # "LF"
    PROVE  Lines(Append(t, "LF")) = <<t>>
<1> DEFINE T == S \cup {"LF"}
           c == Append(t, "LF")
           n == Len(t)
           D == EndsOf(c)
           f == [i \in 1 .. 1 |-> n + 1]
<1>1. t \in Seq(T) /\ "LF" \in T
  BY SeqMonotonic
<1>2. /\ c \in Seq(T) /\ n \in Nat /\ Len(c) = n + 1 /\ c[n + 1] = "LF"
      /\ \A i \in 1 .. n : c[i] = t[i]
  <2>1. n \in Nat
    BY LenProperties
  <2> QED
    BY <1>1, <2>1, AppendProperties
<1>3. DOMAIN c = 1 .. n + 1
  BY <1>2, LenProperties
<1> HIDE DEF c, n
<1>4. D = {n + 1}
  <2>1. \A i \in 1 .. n + 1 : c[i] = "LF" <=> i = n + 1
    <3> TAKE i \in 1 .. n + 1
    <3>1. i # n + 1 => i \in 1 .. n
      BY <1>2
    <3> QED
      BY <1>2, <3>1 DEF n
  <2>2. n + 1 \in 1 .. n + 1
    BY <1>2
  <2> QED
    BY <1>3, <2>1, <2>2 DEF EndsOf
<1> HIDE DEF D
<1>5. Cardinality(D) = 1 /\ Ascending(D) = f
  <2>1. Enumerates(f, 1, D)
    BY <1>2, <1>4 DEF Enumerates
  <2>2. n + 1 \in Nat /\ D \in SUBSET (1 .. n + 1)
    BY <1>2, <1>4
  <2> HIDE DEF f
  <2> QED
    BY <2>1, <2>2, AscendingIs
<1>6. f[1] = n + 1
  OBVIOUS
<1>7. /\ Lines(c) \in Seq(Seq(T)) /\ Len(Lines(c)) = 1
      /\ Lines(c)[1] = SubSeq(c, 1, n)
  <2>1. /\ Lines(c) \in Seq(Seq(T)) /\ Len(Lines(c)) = Cardinality(D)
        /\ \A j \in 1 .. Cardinality(D) : Lines(c)[j] = SubSeq(c, FirstOf(Ascending(D), j), Ascending(D)[j] - 1)
    BY <1>2, LinesShape DEF D
  <2>2. 1 \in 1 .. Cardinality(D)
    BY <1>5
  <2>3. Lines(c)[1] = SubSeq(c, FirstOf(f, 1), f[1] - 1)
    BY <1>5, <2>1, <2>2
  <2>4. FirstOf(f, 1) = 1 /\ f[1] - 1 = n
    BY <1>2, <1>6 DEF FirstOf
  <2> QED
    BY <1>5, <2>1, <2>3, <2>4
<1>8. SubSeq(c, 1, n) = t
  <2>1. 1 \in Nat \ {0} /\ n \in Int /\ n <= Len(c)
    BY <1>2
  <2>2. /\ SubSeq(c, 1, n) \in Seq(T)
        /\ Len(SubSeq(c, 1, n)) = IF 1 <= n THEN n - 1 + 1 ELSE 0
        /\ \A i \in 1 .. Len(SubSeq(c, 1, n)) : SubSeq(c, 1, n)[i] = c[1 + i - 1]
    BY <1>2, <2>1, SubSeqShape
  <2>3. Len(SubSeq(c, 1, n)) = Len(t)
    BY <1>2, <2>2 DEF n
  <2>4. \A i \in 1 .. Len(SubSeq(c, 1, n)) : SubSeq(c, 1, n)[i] = t[i]
    BY <1>2, <2>2, <2>3 DEF n
  <2> QED
    BY <1>1, <2>2, <2>3, <2>4, SeqEqual
<1>9. Lines(c) = <<t>>
  <2>1. <<t>> \in Seq(Seq(T)) /\ Len(<<t>>) = 1 /\ <<t>>[1] = t
    BY <1>1
  <2>2. \A i \in 1 .. Len(Lines(c)) : Lines(c)[i] = <<t>>[i]
    <3> TAKE i \in 1 .. Len(Lines(c))
    <3>1. i = 1
      BY <1>7
    <3>2. Lines(c)[1] = t
      BY <1>7, <1>8
    <3> QED
      BY <2>1, <3>1, <3>2
  <2> QED
    BY <1>7, <2>1, <2>2, SeqEqual
<1> QED
  BY <1>9 DEF c

\* It gives one message, if it is a DATA frame.
LEMMA OneMessage ==
    ASSUME NEW S, NEW t \in Seq(S), \A i \in 1 .. Len(t) : t[i] # "LF"
    PROVE  Messages(Append(t, "LF")) = IF Decode(t).type = "DATA" THEN <<Decode(t).data>> ELSE << >>
<1> DEFINE L == <<t>>
           D == {i \in DOMAIN L : Decode(L[i]).type = "DATA"}
           f == OfType(L, "DATA")
<1>1. Lines(Append(t, "LF")) = L
  BY LinesOne
<1>2. L \in Seq(Seq(S)) /\ DOMAIN L = {1} /\ L[1] = t
  OBVIOUS
<1> HIDE DEF L
<1>3. f = At(L, D)
  BY DEF OfType
<1>4. Messages(Append(t, "LF")) = [i \in DOMAIN f |-> Decode(f[i]).data]
  BY <1>1 DEF Messages
<1>5. CASE Decode(t).type = "DATA"
  <2>1. D = DOMAIN L
    BY <1>2, <1>5
  <2>2. f = L
    BY <1>2, <1>3, <2>1, AtAll
  <2> HIDE DEF f
  <2>3. Messages(Append(t, "LF")) = [i \in {1} |-> Decode(t).data]
    BY <1>2, <1>4, <2>2
  <2>4. [i \in {1} |-> Decode(t).data] = <<Decode(t).data>>
    OBVIOUS
  <2> QED
    BY <1>5, <2>3, <2>4
<1>6. CASE Decode(t).type # "DATA"
  <2>1. D = {}
    BY <1>2, <1>6
  <2>2. f = << >>
    BY <1>2, <1>3, <2>1, AtNone
  <2> HIDE DEF f
  <2> QED
    BY <1>4, <1>6, <2>2
<1> QED
  BY <1>5, <1>6

\* A stream in which no DATA frame begins has no message.
LEMMA HeadlessMessages ==
    ASSUME NEW S, NEW stream \in Seq(S), Heads(stream) = {}
    PROVE  Messages(stream) = << >>
<1> DEFINE L == Lines(stream)
           D == {i \in DOMAIN L : Decode(L[i]).type = "DATA"}
           f == OfType(L, "DATA")
<1>1. L \in Seq(Seq(S))
  BY LinesArePlaced
<1>2. PICK a \in [DOMAIN L -> Nat \ {0}] : PlacedAt(a, L, stream)
  BY LinesArePlaced
<1> HIDE DEF L
<1>3. ASSUME NEW j \in DOMAIN L, Decode(L[j]).type = "DATA"
      PROVE  FALSE
  <2>1. L[j] \in Seq(S) /\ Len(L[j]) \in Nat
    BY <1>1, LenProperties, ElementOfSeq
  <2>2. /\ a[j] + Len(L[j]) - 1 <= Len(stream) /\ a[j] \in Nat \ {0}
        /\ \A q \in 1 .. Len(L[j]) : L[j][q] = stream[a[j] + q - 1]
    BY <1>2 DEF PlacedAt
  <2>3. \A q \in 1 .. Len(L[j]) : L[j][q] # "DATA"
    <3> TAKE q \in 1 .. Len(L[j])
    <3>1. Len(stream) \in Nat
      BY LenProperties
    <3>2. a[j] + q - 1 \in 1 .. Len(stream)
      BY <2>1, <2>2, <3>1
    <3> QED
      BY <2>2, <3>2 DEF Heads
  <2>4. Len(L[j]) \in Nat \ {0} /\ L[j][1] = "DATA"
    BY <1>3, <2>1, <2>3, DataStarts
  <2> QED
    BY <2>3, <2>4
<1>4. D = {}
  BY <1>3
<1>5. f = << >>
  BY <1>1, <1>4, AtNone DEF OfType
<1>6. Messages(stream) = [i \in DOMAIN f |-> Decode(f[i]).data]
  BY DEF Messages, L
<1> HIDE DEF f
<1> QED
  BY <1>5, <1>6

-----------------------------------------------------------------------------
(* What decodeFrame finds, exactly.                                         *)

\* Without its line ends, a text goes up to the last character that is none.
LEMMA WithoutEndIs ==
    ASSUME NEW S, NEW text \in Seq(S), NEW n \in 0 .. Len(text), n = 0 \/ Kept(text[n]),
           \A i \in n + 1 .. Len(text) : ~ Kept(text[i])
    PROVE  WithoutEnd(text) = SubSeq(text, 1, n)
<1> DEFINE I == {i \in 1 .. Len(text) : Kept(text[i])}
<1>1. Len(text) \in Nat
  BY LenProperties
<1>2. \A i \in I : i <= n
  <2> TAKE i \in I
  <2>1. ~ (i \in n + 1 .. Len(text))
    OBVIOUS
  <2> QED
    BY <1>1, <2>1
<1>3. CASE n = 0
  <2>1. I = {}
    BY <1>1, <1>2, <1>3
  <2> QED
    BY <1>3, <2>1 DEF WithoutEnd, SelectLastInSeq
<1>4. CASE n # 0
  <2>1. n \in I
    BY <1>1, <1>4
  <2>2. Max(I) = n
    <3>1. \A m \in I : (\A i \in I : m >= i) => m = n
      BY <1>1, <1>2, <2>1
    <3>2. n \in I /\ \A i \in I : n >= i
      BY <1>1, <1>2, <2>1
    <3> HIDE DEF I
    <3> QED
      BY <3>1, <3>2 DEF Max
  <2> QED
    BY <2>1, <2>2 DEF WithoutEnd, SelectLastInSeq
<1> QED
  BY <1>3, <1>4

\* There is such a place in every text.
LEMMA WithoutEndExact ==
    ASSUME NEW S, NEW text \in Seq(S)
    PROVE  \E n \in 0 .. Len(text) : /\ WithoutEnd(text) = SubSeq(text, 1, n)
                                     /\ n = 0 \/ Kept(text[n])
                                     /\ \A i \in n + 1 .. Len(text) : ~ Kept(text[i])
<1> DEFINE I == {i \in 1 .. Len(text) : Kept(text[i])}
<1>1. Len(text) \in Nat
  BY LenProperties
<1>2. PICK n \in 0 .. Len(text) : (n = 0 \/ Kept(text[n])) /\ \A i \in n + 1 .. Len(text) : ~ Kept(text[i])
  <2>1. CASE I = {}
    BY <1>1, <2>1
  <2>2. CASE I # {}
    <3> DEFINE J == {Len(text) - i : i \in I}
    <3>1. J \subseteq Nat /\ J # {}
      BY <1>1, <2>2
    <3>2. PICK j \in J : \A k \in J : j <= k
      <4> HIDE DEF J
      <4> QED
        BY <3>1, LeastMember
    <3>3. PICK m \in I : j = Len(text) - m
      BY <3>2
    <3>4. \A i \in I : i <= m
      <4> TAKE i \in I
      <4>1. Len(text) - m <= Len(text) - i
        BY <3>2, <3>3
      <4> QED
        BY <1>1, <4>1
    <3>5. \A i \in m + 1 .. Len(text) : ~ Kept(text[i])
      <4> SUFFICES ASSUME NEW i \in m + 1 .. Len(text), Kept(text[i])
                   PROVE  FALSE
        OBVIOUS
      <4>1. i \in I /\ m \in Nat
        BY <1>1
      <4> QED
        BY <3>4, <4>1
    <3> QED
      BY <1>1, <3>5
  <2> QED
    BY <2>1, <2>2
<1> QED
  BY <1>2, WithoutEndIs

\* Without those at its beginning too.
LEMMA TrimmedIs ==
    ASSUME NEW S, NEW text \in Seq(S), NEW m \in 1 .. Len(text), NEW n \in 1 .. Len(text),
           Kept(text[m]), Kept(text[n]),
           \A i \in 1 .. m - 1 : ~ Kept(text[i]),
           \A i \in n + 1 .. Len(text) : ~ Kept(text[i])
    PROVE  Trimmed(text) = SubSeq(text, m, n)
<1> DEFINE I == {i \in 1 .. Len(text) : Kept(text[i])}
<1>1. Len(text) \in Nat /\ DOMAIN text = 1 .. Len(text)
  BY LenProperties
<1>2. WithoutEnd(text) = SubSeq(text, 1, n)
  <2>1. n \in 0 .. Len(text)
    BY <1>1
  <2> QED
    BY <2>1, WithoutEndIs
<1>3. Len(SubSeq(text, 1, n)) = n
  BY <1>1, SubSeqShape
<1>4. SelectInSeq(text, Kept) = m
  <2>1. I \subseteq Nat /\ m \in I
    BY <1>1
  <2>2. Min(I) \in I /\ Min(I) <= m
    BY <2>1, MinIsMember, MinIsLeast
  <2>3. Min(I) = m
    <3>1. Min(I) \in 1 .. Len(text) /\ Kept(text[Min(I)])
      BY <2>2
    <3>2. ~ (Min(I) \in 1 .. m - 1)
      BY <3>1
    <3> QED
      BY <1>1, <2>2, <3>1, <3>2
  <2> QED
    BY <2>1, <2>3 DEF SelectInSeq
<1>5. m <= n
  <2>1. ~ (m \in n + 1 .. Len(text))
    OBVIOUS
  <2> QED
    BY <1>1, <2>1
<1>6. Trimmed(text) = SubSeq(SubSeq(text, 1, n), m, n)
  <2>1. ~ \A i \in DOMAIN text : ~ Kept(text[i])
    BY <1>1
  <2> QED
    BY <1>2, <1>3, <1>4, <2>1 DEF Trimmed
<1>7. SubSeq(SubSeq(text, 1, n), m, n) = SubSeq(text, m, n)
  <2>1. n \in 1 .. Len(text) /\ 1 \in 1 .. Len(text) /\ m \in 1 .. n - 1 + 1 /\ n \in 1 .. n - 1 + 1
    BY <1>1, <1>5
  <2>2. SubSeq(SubSeq(text, 1, n), m, n) = SubSeq(text, 1 + m - 1, 1 + n - 1)
    BY <2>1, SubSeqOfSubSeq
  <2>3. 1 + m - 1 = m /\ 1 + n - 1 = n
    BY <2>1
  <2> QED
    BY <2>2, <2>3
<1> QED
  BY <1>6, <1>7

\* Of a text of line ends nothing is left.
LEMMA TrimmedNone ==
    ASSUME NEW S, NEW text \in Seq(S), \A i \in 1 .. Len(text) : ~ Kept(text[i])
    PROVE  Trimmed(text) = << >>
BY LenProperties DEF Trimmed

\* A line end more, at the end, makes no difference to Trimmed ...
LEMMA TrimmedEnd ==
    ASSUME NEW S, NEW text \in Seq(S), NEW b \in S, ~ Kept(b)
    PROVE  Trimmed(text \o <<b>>) = Trimmed(text)
<1> DEFINE c == text \o <<b>>
           k == Len(text)
<1>1. <<b>> \in Seq(S) /\ Len(<<b>>) = 1 /\ <<b>>[1] = b
  OBVIOUS
<1>2. /\ c \in Seq(S) /\ k \in Nat /\ Len(c) = k + 1 /\ c[k + 1] = b
      /\ \A i \in 1 .. k : c[i] = text[i]
  BY <1>1, Joined
<1>3. CASE \A i \in 1 .. k : ~ Kept(text[i])
  <2>1. \A i \in 1 .. k + 1 : ~ Kept(c[i])
    <3> TAKE i \in 1 .. k + 1
    <3>1. i # k + 1 => i \in 1 .. k
      BY <1>2
    <3> QED
      BY <1>2, <1>3, <3>1
  <2>2. Trimmed(text) = << >>
    BY <1>3, TrimmedNone
  <2>3. Trimmed(c) = << >>
    <3> HIDE DEF c
    <3> QED
      BY <1>2, <2>1, TrimmedNone
  <2> QED
    BY <2>2, <2>3
<1>4. CASE \E i \in 1 .. k : Kept(text[i])
  <2>1. PICK n \in 0 .. k : (n = 0 \/ Kept(text[n])) /\ \A i \in n + 1 .. k : ~ Kept(text[i])
    BY WithoutEndExact
  <2> DEFINE I == {i \in 1 .. k : Kept(text[i])}
  <2>2. PICK m \in I : \A i \in I : m <= i
    <3>1. I \subseteq Nat /\ I # {}
      BY <1>4
    <3> HIDE DEF I
    <3> QED
      BY <3>1, LeastMember
  <2>3. m \in 1 .. k /\ Kept(text[m]) /\ \A i \in 1 .. m - 1 : ~ Kept(text[i])
    <3>1. \A i \in 1 .. m - 1 : i \in 1 .. k /\ ~ (m <= i)
      BY <1>2
    <3> QED
      BY <2>2, <3>1
  <2>4. n \in 1 .. k /\ m <= n /\ Kept(text[n])
    <3>1. ~ (m \in n + 1 .. k)
      BY <2>1, <2>3
    <3> QED
      BY <1>2, <2>1, <2>3, <3>1
  <2>5. Trimmed(text) = SubSeq(text, m, n)
    BY <2>1, <2>3, <2>4, TrimmedIs
  <2>6. Trimmed(c) = SubSeq(c, m, n)
    <3>1. m \in 1 .. Len(c) /\ n \in 1 .. Len(c) /\ Kept(c[m]) /\ Kept(c[n])
      BY <1>2, <2>3, <2>4
    <3>2. \A i \in 1 .. m - 1 : ~ Kept(c[i])
      BY <1>2, <2>3
    <3>3. \A i \in n + 1 .. Len(c) : ~ Kept(c[i])
      <4> TAKE i \in n + 1 .. Len(c)
      <4>1. i # k + 1 => i \in 1 .. k /\ i \in n + 1 .. k
        BY <1>2
      <4> QED
        BY <1>2, <2>1, <4>1
    <3> HIDE DEF c
    <3> QED
      BY <1>2, <3>1, <3>2, <3>3, TrimmedIs
  <2>7. SubSeq(c, m, n) = SubSeq(text, m, n)
    <3>1. m \in Nat \ {0} /\ n \in Int /\ n <= Len(text)
      BY <1>2, <2>3, <2>4
    <3> QED
      BY <1>1, <3>1, SubSeqOfFirst
  <2> QED
    BY <2>5, <2>6, <2>7
<1> QED
  BY <1>3, <1>4 DEF c

\* ... nor does a CR at the end of a line to decodeFrame.
LEMMA DecodeWithoutCR ==
    ASSUME NEW S, NEW line \in Seq(S)
    PROVE  WithoutCR(line) \in Seq(S) /\ Decode(WithoutCR(line)) = Decode(line)
<1>1. CASE ~ (line # << >> /\ Last(line) = "CR")
  <2>1. WithoutCR(line) = line
    BY <1>1 DEF WithoutCR
  <2> QED
    BY <2>1
<1>2. CASE line # << >> /\ Last(line) = "CR"
  <2> DEFINE k == Len(line)
             f == SubSeq(line, 1, k - 1)
  <2>1. k \in Nat \ {0} /\ line[k] = "CR" /\ WithoutCR(line) = f
    <3>1. k \in Nat \ {0}
      BY <1>2, EmptySeq
    <3> QED
      BY <1>2, <3>1 DEF WithoutCR, Last, Front
  <2>2. f \in Seq(S) /\ Len(f) = k - 1 /\ \A i \in 1 .. k - 1 : f[i] = line[i]
    <3>1. 1 \in Nat \ {0} /\ k - 1 \in Int /\ k - 1 <= Len(line)
      BY <2>1
    <3>2. /\ f \in Seq(S) /\ Len(f) = IF 1 <= k - 1 THEN k - 1 - 1 + 1 ELSE 0
          /\ \A i \in 1 .. Len(f) : f[i] = line[1 + i - 1]
      BY <3>1, SubSeqShape
    <3> HIDE DEF f, k
    <3>3. Len(f) = k - 1
      BY <2>1, <3>2
    <3>4. \A i \in 1 .. k - 1 : f[i] = line[i]
      BY <2>1, <3>2, <3>3
    <3> QED
      BY <3>2, <3>3, <3>4
  <2>3. "CR" \in S /\ ~ Kept("CR") /\ "CR" # "NUL"
    <3>1. line[k] \in S
      BY <2>1, ElementOfSeq
    <3> QED
      BY <2>1, <3>1 DEF Kept, LineEnds
  <2> HIDE DEF f, k
  <2>4. line = f \o <<"CR">>
    <3> DEFINE c == f \o <<"CR">>
    <3>1. <<"CR">> \in Seq(S) /\ Len(<<"CR">>) = 1 /\ <<"CR">>[1] = "CR"
      BY <2>3
    <3>2. /\ c \in Seq(S) /\ Len(c) = Len(f) + 1 /\ c[Len(f) + 1] = "CR"
          /\ \A i \in 1 .. Len(f) : c[i] = f[i]
      BY <2>2, <3>1, Joined
    <3> HIDE DEF c
    <3>3. Len(c) = Len(line) /\ Len(line) = k
      BY <2>1, <2>2, <3>2 DEF k
    <3>4. \A i \in 1 .. Len(line) : line[i] = c[i]
      <4> TAKE i \in 1 .. Len(line)
      <4>1. i # k => i \in 1 .. k - 1
        BY <2>1, <3>3
      <4>2. k - 1 + 1 = k
        BY <2>1
      <4> QED
        BY <2>1, <2>2, <3>2, <4>1, <4>2
    <3> QED
      BY <3>2, <3>3, <3>4, SeqEqual DEF c
  <2>5. LineOf(f) = LineOf(line)
    <3>1. CASE \E i \in 1 .. k - 1 : f[i] = "NUL"
      <4>1. PICK at \in 1 .. Len(f) : f[at] = "NUL" /\ \A i \in 1 .. at - 1 : f[i] # "NUL"
        BY <2>2, <3>1, HasFirstPlace
      <4>2. at \in 1 .. Len(line) /\ line[at] = "NUL" /\ \A i \in 1 .. at - 1 : line[i] # "NUL"
        <5>1. at \in 1 .. k - 1 /\ at \in 1 .. k
          BY <2>1, <2>2
        <5>2. \A i \in 1 .. at - 1 : i \in 1 .. k - 1
          BY <2>1, <5>1
        <5> QED
          BY <2>2, <4>1, <5>1, <5>2 DEF k
      <4>3. Before(f, "NUL") = SubSeq(f, 1, at - 1)
        BY <2>2, <4>1, FirstPlace
      <4>4. Before(line, "NUL") = SubSeq(line, 1, at - 1)
        BY <4>2, FirstPlace
      <4>5. SubSeq(line, 1, at - 1) = SubSeq(f, 1, at - 1)
        <5>1. 1 \in Nat \ {0} /\ at - 1 \in Int /\ at - 1 <= Len(f) /\ <<"CR">> \in Seq(S)
          BY <2>1, <2>2, <2>3
        <5> QED
          BY <2>2, <2>4, <5>1, SubSeqOfFirst
      <4> QED
        BY <4>3, <4>4, <4>5 DEF LineOf
    <3>2. CASE \A i \in 1 .. k - 1 : f[i] # "NUL"
      <4>1. Before(f, "NUL") = f
        BY <2>2, <3>2, NoPlace
      <4>2. \A i \in 1 .. Len(line) : line[i] # "NUL"
        <5> TAKE i \in 1 .. Len(line)
        <5>1. i # k => i \in 1 .. k - 1
          BY <2>1 DEF k
        <5> QED
          BY <2>1, <2>2, <2>3, <3>2, <5>1
      <4>3. Before(line, "NUL") = line
        BY <4>2, NoPlace
      <4>4. Trimmed(f \o <<"CR">>) = Trimmed(f)
        BY <2>2, <2>3, TrimmedEnd
      <4> QED
        BY <2>4, <4>1, <4>3, <4>4 DEF LineOf
    <3> QED
      BY <3>1, <3>2
  <2>6. Decode(f) = Decode(line)
    BY <2>5 DEF Decode, LineOf
  <2> QED
    BY <2>1, <2>2, <2>6
<1> QED
  BY <1>1, <1>2

\* What `listening` takes of whole lines are, but for a CR, the DATA lines, so it
\* loses and adds no message.
LEMMA DispatchedMessages ==
    ASSUME NEW S, NEW chunk \in Seq(S), NEW k \in 1 .. Len(chunk), chunk[k] = "LF"
    PROVE  LET u == OfType(Dispatched(chunk), "DATA")
           IN  /\ u \in Seq(Seq(S)) /\ Len(u) \in Nat
               /\ Messages(chunk) = [i \in 1 .. Len(u) |-> Decode(u[i]).data]
<1> DEFINE L     == Lines(chunk)
           lines == [j \in DOMAIN L |-> WithoutCR(L[j])]
           D     == {j \in DOMAIN lines : lines[j] # << >>}
           t     == At(lines, D)
           E     == {i \in DOMAIN t : Decode(t[i]).type = "DATA"}
           F     == PlacesOf(D, E)
           G     == {j \in DOMAIN L : Decode(L[j]).type = "DATA"}
           u     == OfType(Dispatched(chunk), "DATA")
<1>1. L \in Seq(Seq(S)) /\ L # << >>
  BY LinesArePlaced
<1>2. Len(L) \in Nat /\ DOMAIN L = 1 .. Len(L) /\ \A j \in DOMAIN L : L[j] \in Seq(S)
  BY <1>1, LenProperties, ElementOfSeq
<1>3. Dispatched(chunk) = IF lines = << >> THEN <<chunk>> ELSE t
  BY DEF Dispatched
<1> HIDE DEF L
<1>4. \A j \in DOMAIN L : WithoutCR(L[j]) \in Seq(S) /\ Decode(WithoutCR(L[j])) = Decode(L[j])
  BY <1>2, DecodeWithoutCR
<1>5. /\ lines \in Seq(Seq(S)) /\ DOMAIN lines = DOMAIN L /\ lines # << >>
      /\ \A j \in DOMAIN L : Decode(lines[j]) = Decode(L[j])
  <2>1. [j \in 1 .. Len(L) |-> WithoutCR(L[j])] \in Seq(Seq(S))
    BY <1>2, <1>4
  <2>2. lines \in Seq(Seq(S)) /\ DOMAIN lines = DOMAIN L
    BY <1>2, <2>1
  <2>3. DOMAIN lines # {}
    <3>1. Len(L) # 0
      BY <1>1, EmptySeq
    <3>2. 1 \in DOMAIN L
      BY <1>2, <3>1
    <3> QED
      BY <2>2, <3>2
  <2> QED
    BY <1>4, <2>2, <2>3
<1>6. Dispatched(chunk) = t
  BY <1>3, <1>5
<1> HIDE DEF lines
<1>7. D \in SUBSET DOMAIN lines
  OBVIOUS
<1>8. /\ t \in Seq(Seq(S)) /\ DOMAIN t = 1 .. Cardinality(D)
      /\ \A i \in DOMAIN t : Ascending(D)[i] \in D /\ t[i] = lines[Ascending(D)[i]]
  <2> HIDE DEF D
  <2> QED
    BY <1>5, <1>7, AtProperties
<1>9. \A x \in D : \E i \in 1 .. Cardinality(D) : Ascending(D)[i] = x
  <2>1. D \in SUBSET (1 .. Len(L))
    BY <1>2, <1>5
  <2> HIDE DEF D
  <2> QED
    BY <1>2, <2>1, AscendingProperties
<1>10. \A j \in DOMAIN lines : Decode(lines[j]).type = "DATA" => j \in D
  <2> SUFFICES ASSUME NEW j \in DOMAIN lines, Decode(lines[j]).type = "DATA"
               PROVE  lines[j] # << >>
    OBVIOUS
  <2>1. lines[j] \in Seq(S)
    BY <1>5, LenProperties, ElementOfSeq
  <2>2. Decode(lines[j]).type \in Types
    BY DEF Types
  <2>3. \E i \in 1 .. Len(LineOf(lines[j])) : LineOf(lines[j])[i] = "|"
    BY <2>1, <2>2, DecodedShape
  <2>4. PICK m \in 1 .. Len(lines[j]) + 1, n \in 0 .. Len(lines[j]) : LineOf(lines[j]) = SubSeq(lines[j], m, n)
    BY <2>1, LineOfShape
  <2>5. SUFFICES ASSUME lines[j] = << >>
                 PROVE  FALSE
    OBVIOUS
  <2>6. Len(lines[j]) = 0
    BY <2>5, EmptySeq
  <2>7. m = 1 /\ n = 0
    BY <2>6
  <2>8. LineOf(lines[j]) = << >>
    BY <2>4, <2>7, SubSeqEmpty
  <2> QED
    BY <2>3, <2>8, EmptySeq
<1>11. F = G
  <2>1. \A i \in E : Ascending(D)[i] \in G
    <3> TAKE i \in E
    <3>1. i \in DOMAIN t /\ Decode(t[i]).type = "DATA"
      OBVIOUS
    <3>2. Ascending(D)[i] \in D /\ t[i] = lines[Ascending(D)[i]]
      BY <1>8, <3>1
    <3>3. Ascending(D)[i] \in DOMAIN L
      BY <1>5, <1>7, <3>2
    <3>4. Decode(L[Ascending(D)[i]]).type = "DATA"
      BY <1>5, <3>1, <3>2, <3>3
    <3> QED
      BY <3>3, <3>4
  <2>2. \A j \in G : j \in F
    <3> TAKE j \in G
    <3>1. j \in DOMAIN lines /\ Decode(lines[j]).type = "DATA"
      BY <1>5
    <3>2. PICK i \in 1 .. Cardinality(D) : Ascending(D)[i] = j
      BY <1>9, <1>10, <3>1
    <3>3. i \in DOMAIN t /\ t[i] = lines[j]
      BY <1>8, <3>2
    <3>4. i \in E
      BY <3>1, <3>3
    <3> QED
      BY <3>2, <3>4 DEF PlacesOf
  <2> QED
    BY <2>1, <2>2 DEF PlacesOf
<1>12. u = At(t, E)
  BY <1>6 DEF OfType
<1>13. At(t, E) = At(lines, F)
  <2>1. E \in SUBSET DOMAIN At(lines, D)
    OBVIOUS
  <2> HIDE DEF D, E
  <2> QED
    BY <1>5, <1>7, <2>1, AtOfAt
<1>14. OfType(L, "DATA") = At(L, G)
  BY DEF OfType
<1>15. G \in SUBSET DOMAIN L /\ G \in SUBSET DOMAIN lines
  BY <1>5
<1> DEFINE n == Cardinality(G)
           a == Ascending(G)
<1> HIDE DEF F, G, t, E, D
<1>16. /\ At(L, G) \in Seq(Seq(S)) /\ Len(At(L, G)) = n /\ DOMAIN At(L, G) = 1 .. n
       /\ \A i \in DOMAIN At(L, G) : a[i] \in G /\ At(L, G)[i] = L[a[i]]
  BY <1>1, <1>15, AtProperties
<1>17. /\ At(lines, G) \in Seq(Seq(S)) /\ Len(At(lines, G)) = n /\ DOMAIN At(lines, G) = 1 .. n
       /\ \A i \in DOMAIN At(lines, G) : a[i] \in G /\ At(lines, G)[i] = lines[a[i]]
  BY <1>5, <1>15, AtProperties
<1>18. u = At(lines, G)
  BY <1>11, <1>12, <1>13
<1> HIDE DEF u, n, a
<1>19. u \in Seq(Seq(S)) /\ Len(u) = n /\ n \in Nat
  <2>1. u \in Seq(Seq(S)) /\ Len(u) = n
    BY <1>17, <1>18
  <2> QED
    BY <2>1, LenProperties
<1>20. Messages(chunk) = [i \in 1 .. n |-> Decode(At(L, G)[i]).data]
  <2>1. Messages(chunk) = [i \in 1 .. Len(OfType(L, "DATA")) |-> Decode(OfType(L, "DATA")[i]).data]
    BY MessagesShape DEF L
  <2> QED
    BY <1>14, <1>16, <2>1
<1>21. \A i \in 1 .. n : Decode(At(L, G)[i]).data = Decode(u[i]).data
  <2> TAKE i \in 1 .. n
  <2>1. At(L, G)[i] = L[a[i]] /\ u[i] = lines[a[i]] /\ a[i] \in DOMAIN L
    BY <1>15, <1>16, <1>17, <1>18
  <2> QED
    BY <1>5, <2>1
<1>22. Messages(chunk) = [i \in 1 .. Len(u) |-> Decode(u[i]).data]
  BY <1>19, <1>20, <1>21
<1> QED
  BY <1>19, <1>22 DEF u

\* They are passed on as they are, each with a line end of its own.
LEMMA ForwardedMessages ==
    ASSUME NEW S, "LF" \in S, NEW texts \in Seq(Seq(S)),
           \A i \in DOMAIN texts : /\ Decode(texts[i]).type = "DATA" /\ Len(texts[i]) + 1 < BufSize
                                   /\ \A q \in 1 .. Len(texts[i]) : texts[i][q] # "LF"
    PROVE  /\ FlattenSeq(AllForwarded(texts)) \in Seq(S) /\ Whole(FlattenSeq(AllForwarded(texts)))
           /\ Messages(FlattenSeq(AllForwarded(texts))) = [i \in 1 .. Len(texts) |-> Decode(texts[i]).data]
<1> DEFINE f == AllForwarded(texts)
           M(n) == [i \in 1 .. n |-> Decode(texts[i]).data]
           P == {e \in Nat \X Seq(S) : Whole(e[2]) /\ (e[1] <= Len(texts) => Messages(e[2]) = M(e[1]))}
<1>1. Len(texts) \in Nat /\ DOMAIN texts = 1 .. Len(texts)
  BY LenProperties
<1>2. /\ f \in Seq(Seq(S)) /\ DOMAIN f = DOMAIN texts
      /\ \A i \in DOMAIN texts : texts[i] \in Seq(S) /\ f[i] = Forwarded(texts[i]) /\ Whole(f[i])
  BY AllForwardedTexts
<1>3. Len(f) = Len(texts)
  <2>1. Len(f) \in Nat /\ DOMAIN f = 1 .. Len(f)
    BY <1>2, LenProperties
  <2> HIDE DEF f
  <2> QED
    BY <1>1, <1>2, <2>1
<1> HIDE DEF f
<1>4. ASSUME NEW i \in 1 .. Len(texts)
      PROVE  f[i] \in Seq(S) /\ Whole(f[i]) /\ Messages(f[i]) = <<Decode(texts[i]).data>>
  <2>1. f[i] \in Seq(S) /\ Whole(f[i])
    BY <1>1, <1>2, <1>3, ElementOfSeq
  <2>2. texts[i] \in Seq(S) /\ f[i] = Append(texts[i], "LF")
    BY <1>1, <1>2, ForwardedText
  <2>3. Messages(Append(texts[i], "LF")) = <<Decode(texts[i]).data>>
    BY <1>1, <2>2, OneMessage
  <2> QED
    BY <2>1, <2>2, <2>3
<1>5. <<0, << >>>> \in P
  <2>1. << >> \in Seq(S) /\ Whole(<< >>) /\ Heads(<< >>) = {}
    BY EmptySeq DEF Whole, Heads
  <2>2. Messages(<< >>) = << >>
    BY <2>1, HeadlessMessages
  <2>3. M(0) = << >>
    OBVIOUS
  <2> QED
    BY <2>1, <2>2, <2>3
<1>6. ASSUME NEW i \in 1 .. Len(f), NEW s \in Seq(S), <<i - 1, s>> \in P
      PROVE  <<i, s \o f[i]>> \in P
  <2>1. i \in Nat /\ i - 1 \in Nat /\ i - 1 <= Len(texts) /\ i \in 1 .. Len(texts)
    BY <1>1, <1>3
  <2>2. Whole(s) /\ Messages(s) = M(i - 1)
    BY <1>6, <2>1
  <2>3. f[i] \in Seq(S) /\ Whole(f[i]) /\ Messages(f[i]) = <<Decode(texts[i]).data>>
    BY <1>4, <2>1
  <2>4. s \o f[i] \in Seq(S) /\ Whole(s \o f[i])
    BY <2>2, <2>3, Joined, JoinedWhole
  <2>5. Messages(s \o f[i]) = M(i - 1) \o <<Decode(texts[i]).data>>
    <3>1. PICK b : b = f[i]
      OBVIOUS
    <3> HIDE DEF M
    <3>2. b \in Seq(S) /\ Whole(s)
      BY <2>2, <2>3, <3>1
    <3>3. Messages(s \o b) = Messages(s) \o Messages(b)
      BY <3>2, MessagesJoined
    <3> QED
      BY <2>2, <2>3, <3>1, <3>3
  <2>6. M(i - 1) \o <<Decode(texts[i]).data>> = M(i)
    <3> DEFINE d == [j \in 1 .. Len(texts) |-> Decode(texts[j]).data]
               T == {d[j] : j \in 1 .. Len(texts)}
               x == Decode(texts[i]).data
               m == [j \in 1 .. i - 1 |-> d[j]]
               w == [j \in 1 .. i |-> d[j]]
    <3>1. M(i - 1) = m /\ M(i) = w /\ x = d[i]
      BY <2>1
    <3>2. \A j \in 1 .. i : d[j] \in T
      BY <2>1
    <3> HIDE DEF d, T, x
    <3>3. m \in Seq(T) /\ w \in Seq(T) /\ Len(m) = i - 1 /\ Len(w) = i /\ <<x>> \in Seq(T)
      BY <2>1, <3>1, <3>2
    <3>4. /\ m \o <<x>> \in Seq(T) /\ Len(m \o <<x>>) = i
          /\ \A j \in 1 .. i - 1 : (m \o <<x>>)[j] = m[j]
          /\ (m \o <<x>>)[i] = x
      <4>1. Len(<<x>>) = 1 /\ <<x>>[1] = x
        OBVIOUS
      <4> DEFINE v == <<x>>
                 y == m \o v
      <4>2. /\ y \in Seq(T) /\ Len(y) = Len(m) + Len(v)
            /\ \A j \in 1 .. Len(m) : y[j] = m[j]
            /\ \A j \in 1 .. Len(v) : y[Len(m) + j] = v[j]
        BY <3>3, Joined
      <4>3. Len(v) = 1 /\ v[1] = x /\ Len(m) + 1 = i /\ 1 \in 1 .. Len(v)
        BY <2>1, <3>3, <4>1
      <4> HIDE DEF v, y, m
      <4>4. y \in Seq(T) /\ Len(y) = i /\ (\A j \in 1 .. i - 1 : y[j] = m[j]) /\ y[i] = x
        BY <3>3, <4>2, <4>3
      <4> QED
        BY <4>4 DEF y, v
    <3>5. \A j \in 1 .. i : (m \o <<x>>)[j] = w[j]
      <4> TAKE j \in 1 .. i
      <4>1. j # i => j \in 1 .. i - 1
        BY <2>1
      <4>2. w[j] = d[j] /\ (j # i => m[j] = d[j])
        BY <4>1
      <4> QED
        BY <3>1, <3>4, <4>1, <4>2
    <3>6. m \o <<x>> = w
      <4> HIDE DEF m, w
      <4> QED
        BY <3>3, <3>4, <3>5, SeqEqual
    <3> QED
      BY <3>1, <3>6 DEF x
  <2> HIDE DEF M
  <2> QED
    BY <2>1, <2>4, <2>5, <2>6
<1> HIDE DEF P
<1>7. FlattenSeq(f) \in Seq(S) /\ <<Len(f), FlattenSeq(f)>> \in P
  BY <1>2, <1>5, <1>6, FlattenInduction
<1>8. Whole(FlattenSeq(f)) /\ Messages(FlattenSeq(f)) = M(Len(texts))
  BY <1>1, <1>3, <1>7 DEF P
<1> QED
  BY <1>7, <1>8 DEF f

\* A whole DATA frame whose data have no NUL is decoded to its data, less the line
\* ends at their end.
LEMMA DecodedExactly ==
    ASSUME NEW S, NEW ip \in Addresses, ip \in Seq(S), NEW y \in Seq(S), NEW h \in Seq(S),
           Len(h) = Len(ip) + Len(y) + 3, h[1] = "DATA", h[2] = "|", h[Len(ip) + 3] = "|",
           \A i \in 1 .. Len(ip) : h[i + 2] = ip[i],
           \A i \in 1 .. Len(y) : h[Len(ip) + 3 + i] = y[i] /\ y[i] # "NUL"
    PROVE  Decode(h).type = "DATA" /\ Decode(h).data = WithoutEnd(y)
<1> DEFINE a    == Len(ip)
           b    == Len(y)
           z    == WithoutEnd(y)
           line == LineOf(h)
           rest == After(line, "|")
<1>1. a \in Nat /\ b \in Nat /\ Len(h) = a + b + 3 /\ a + 3 \in 1 .. Len(h) /\ 1 \in 1 .. Len(h) /\ 2 \in 1 .. Len(h)
  BY LenProperties
<1>2. ASSUME NEW i \in 1 .. Len(h)
      PROVE  h[i] # "NUL"
  <2>1. CASE i \in {1, 2, a + 3}
    BY <2>1
  <2>2. CASE i - 2 \in 1 .. a
    <3>1. h[(i - 2) + 2] = ip[i - 2] /\ (i - 2) + 2 = i
      BY <2>2
    <3> QED
      BY <2>2, <3>1, AddressCharacters
  <2>3. CASE i - (a + 3) \in 1 .. b
    <3>1. h[a + 3 + (i - (a + 3))] = y[i - (a + 3)] /\ a + 3 + (i - (a + 3)) = i
      BY <1>1, <2>3
    <3> QED
      BY <2>3, <3>1
  <2>4. i \in {1, 2, a + 3} \/ i - 2 \in 1 .. a \/ i - (a + 3) \in 1 .. b
    BY <1>1
  <2> QED
    BY <2>1, <2>2, <2>3, <2>4
<1>3. PICK n \in 0 .. b : /\ z = SubSeq(y, 1, n)
                          /\ n = 0 \/ Kept(y[n])
                          /\ \A i \in n + 1 .. b : ~ Kept(y[i])
  BY WithoutEndExact
<1>4. z \in Seq(S) /\ Len(z) = n /\ \A i \in 1 .. n : z[i] = y[i]
  <2>1. 1 \in Nat \ {0} /\ n \in Int /\ n <= Len(y)
    BY <1>1
  <2>2. /\ z \in Seq(S) /\ Len(z) = IF 1 <= n THEN n - 1 + 1 ELSE 0
        /\ \A i \in 1 .. Len(z) : z[i] = y[1 + i - 1]
    BY <1>3, <2>1, SubSeqShape
  <2> HIDE DEF z
  <2> QED
    BY <1>1, <2>2
<1> HIDE DEF z
<1>5. line = SubSeq(h, 1, a + 3 + n)
  <2>1. Before(h, "NUL") = h
    BY <1>2, NoPlace
  <2>2. Kept("DATA") /\ Kept("|")
    BY DEF Kept, LineEnds
  <2>3. a + 3 + n \in 1 .. Len(h) /\ Kept(h[1])
    BY <1>1, <2>2
  <2>4. Kept(h[a + 3 + n])
    <3>1. n = 0 => a + 3 + n = a + 3
      BY <1>1
    <3>2. n # 0 => n \in 1 .. b
      BY <1>1
    <3> QED
      BY <1>3, <2>2, <3>1, <3>2
  <2>5. \A i \in a + 3 + n + 1 .. Len(h) : ~ Kept(h[i])
    <3> TAKE i \in a + 3 + n + 1 .. Len(h)
    <3>1. i - (a + 3) \in n + 1 .. b /\ i - (a + 3) \in 1 .. b /\ a + 3 + (i - (a + 3)) = i
      BY <1>1
    <3>2. h[i] = y[i - (a + 3)]
      BY <3>1
    <3> QED
      BY <1>3, <3>1, <3>2
  <2>6. \A i \in 1 .. 1 - 1 : ~ Kept(h[i])
    OBVIOUS
  <2> HIDE DEF a
  <2>7. Trimmed(h) = SubSeq(h, 1, a + 3 + n)
    BY <1>1, <2>3, <2>4, <2>5, <2>6, TrimmedIs
  <2> QED
    BY <2>1, <2>7 DEF LineOf
<1>6. /\ line \in Seq(S) /\ Len(line) = a + 3 + n
      /\ \A i \in 1 .. a + 3 + n : line[i] = h[i]
  <2>1. 1 \in Nat \ {0} /\ a + 3 + n \in Int /\ a + 3 + n <= Len(h)
    BY <1>1
  <2>2. /\ line \in Seq(S) /\ Len(line) = IF 1 <= a + 3 + n THEN a + 3 + n - 1 + 1 ELSE 0
        /\ \A i \in 1 .. Len(line) : line[i] = h[1 + i - 1]
    BY <1>5, <2>1, SubSeqShape
  <2> HIDE DEF line
  <2>3. Len(line) = a + 3 + n
    BY <1>1, <2>2
  <2>4. \A i \in 1 .. a + 3 + n : 1 + i - 1 = i
    BY <1>1
  <2> QED
    BY <2>2, <2>3, <2>4
<1> HIDE DEF line
<1>7. 1 \in 1 .. Len(line) /\ 2 \in 1 .. Len(line) /\ line[1] = "DATA" /\ line[2] = "|"
  BY <1>1, <1>6
<1>8. Before(line, "|") = SubSeq(line, 1, 1) /\ rest = SubSeq(line, 3, a + 3 + n)
  <2>1. \A i \in 1 .. 2 - 1 : line[i] # "|"
    BY <1>7
  <2>2. Before(line, "|") = SubSeq(line, 1, 2 - 1) /\ rest = SubSeq(line, 2 + 1, Len(line))
    <3>1. PICK at, c : at = 2 /\ c = "|"
      OBVIOUS
    <3>2. line \in Seq(S) /\ at \in 1 .. Len(line) /\ line[at] = c /\ \A i \in 1 .. at - 1 : line[i] # c
      BY <1>6, <1>7, <2>1, <3>1
    <3>3. Before(line, c) = SubSeq(line, 1, at - 1) /\ After(line, c) = SubSeq(line, at + 1, Len(line))
      BY <3>2, FirstPlace, ZenonT(60)
    <3> QED
      BY <3>1, <3>3
  <2> QED
    BY <1>6, <2>2
<1>9. SubSeq(line, 1, 1) = <<"DATA">>
  <2>1. 1 \in Nat \ {0} /\ 1 \in Int /\ 1 <= Len(line)
    BY <1>7
  <2>2. /\ SubSeq(line, 1, 1) \in Seq(S) /\ Len(SubSeq(line, 1, 1)) = IF 1 <= 1 THEN 1 - 1 + 1 ELSE 0
        /\ \A i \in 1 .. Len(SubSeq(line, 1, 1)) : SubSeq(line, 1, 1)[i] = line[1 + i - 1]
    BY <1>6, <2>1, SubSeqShape
  <2>3. <<"DATA">> \in Seq(S)
    BY <1>1, ElementOfSeq
  <2>4. Len(SubSeq(line, 1, 1)) = Len(<<"DATA">>)
    BY <2>2
  <2>5. \A i \in 1 .. Len(SubSeq(line, 1, 1)) : SubSeq(line, 1, 1)[i] = <<"DATA">>[i]
    <3>1. Len(SubSeq(line, 1, 1)) = 1 /\ SubSeq(line, 1, 1)[1] = line[1]
      BY <2>2
    <3> QED
      BY <1>7, <3>1
  <2> QED
    BY <2>2, <2>3, <2>4, <2>5, SeqEqual
<1>10. /\ rest \in Seq(S) /\ Len(rest) = a + 1 + n
       /\ \A i \in 1 .. a + 1 + n : rest[i] = h[i + 2]
  <2>1. 3 \in Nat \ {0} /\ a + 3 + n \in Int /\ a + 3 + n <= Len(line)
    BY <1>1, <1>6
  <2>2. /\ rest \in Seq(S) /\ Len(rest) = IF 3 <= a + 3 + n THEN a + 3 + n - 3 + 1 ELSE 0
        /\ \A i \in 1 .. Len(rest) : rest[i] = line[3 + i - 1]
    <3> DEFINE u == SubSeq(line, 3, a + 3 + n)
    <3>1. /\ u \in Seq(S) /\ Len(u) = IF 3 <= a + 3 + n THEN a + 3 + n - 3 + 1 ELSE 0
          /\ \A i \in 1 .. Len(u) : u[i] = line[3 + i - 1]
      BY <1>6, <2>1, SubSeqShape
    <3>2. rest = u
      BY <1>8
    <3> HIDE DEF rest, u
    <3> QED
      BY <3>1, <3>2
  <2> HIDE DEF rest
  <2>3. Len(rest) = a + 1 + n
    BY <1>1, <2>2
  <2>4. \A i \in 1 .. a + 1 + n : 3 + i - 1 = i + 2 /\ i + 2 \in 1 .. a + 3 + n
    BY <1>1
  <2> QED
    BY <1>6, <2>2, <2>3, <2>4
<1> HIDE DEF rest
<1>11. a + 1 \in 1 .. Len(rest) /\ rest[a + 1] = "|" /\ \A i \in 1 .. (a + 1) - 1 : rest[i] # "|"
  <2>1. a + 1 \in 1 .. a + 1 + n /\ (a + 1) + 2 = a + 3 /\ (a + 1) - 1 = a
    BY <1>1
  <2>2. \A i \in 1 .. a : rest[i] # "|"
    <3> TAKE i \in 1 .. a
    <3>1. i \in 1 .. a + 1 + n
      BY <1>1
    <3>2. rest[i] = ip[i]
      BY <1>10, <3>1
    <3> QED
      BY <3>2, AddressCharacters
  <2>3. rest[a + 1] = "|"
    BY <1>10, <2>1
  <2> QED
    BY <1>10, <2>1, <2>2, <2>3
<1>12. Before(rest, "|") = SubSeq(rest, 1, (a + 1) - 1) /\ After(rest, "|") = SubSeq(rest, (a + 1) + 1, Len(rest))
  <2> HIDE DEF a, rest
  <2>1. PICK at, c : at = a + 1 /\ c = "|"
    OBVIOUS
  <2>2. rest \in Seq(S) /\ at \in 1 .. Len(rest) /\ rest[at] = c /\ \A i \in 1 .. at - 1 : rest[i] # c
    BY <1>10, <1>11, <2>1
  <2>3. Before(rest, c) = SubSeq(rest, 1, at - 1) /\ After(rest, c) = SubSeq(rest, at + 1, Len(rest))
    BY <2>2, FirstPlace, ZenonT(60)
  <2> QED
    BY <2>1, <2>3
<1>13. SubSeq(rest, 1, (a + 1) - 1) = ip
  <2> DEFINE u == SubSeq(rest, 1, (a + 1) - 1)
  <2>1. 1 \in Nat \ {0} /\ (a + 1) - 1 \in Int /\ (a + 1) - 1 <= Len(rest) /\ (a + 1) - 1 = a
    BY <1>1, <1>11
  <2>2. /\ u \in Seq(S) /\ Len(u) = IF 1 <= (a + 1) - 1 THEN (a + 1) - 1 - 1 + 1 ELSE 0
        /\ \A i \in 1 .. Len(u) : u[i] = rest[1 + i - 1]
    BY <1>10, <2>1, SubSeqShape
  <2> HIDE DEF u
  <2>3. Len(u) = Len(ip)
    BY <1>1, <2>1, <2>2
  <2>4. ASSUME NEW i \in 1 .. Len(u)
        PROVE  u[i] = ip[i]
    <3>1. i \in 1 .. Len(ip) /\ i \in 1 .. a + 1 + n /\ 1 + i - 1 = i
      BY <1>1, <2>3
    <3> QED
      BY <1>10, <2>2, <3>1
  <2> QED
    BY <2>2, <2>3, <2>4, SeqEqual DEF u
<1>14. SubSeq(rest, (a + 1) + 1, Len(rest)) = z
  <2> DEFINE u == SubSeq(rest, (a + 1) + 1, Len(rest))
  <2>1. (a + 1) + 1 \in Nat \ {0} /\ Len(rest) \in Int /\ Len(rest) <= Len(rest)
    BY <1>1, <1>10
  <2>2. /\ u \in Seq(S) /\ Len(u) = IF (a + 1) + 1 <= Len(rest) THEN Len(rest) - ((a + 1) + 1) + 1 ELSE 0
        /\ \A i \in 1 .. Len(u) : u[i] = rest[(a + 1) + 1 + i - 1]
    BY <1>10, <2>1, SubSeqShape
  <2> HIDE DEF u
  <2>3. Len(u) = n
    BY <1>1, <1>10, <2>2
  <2>4. ASSUME NEW i \in 1 .. Len(u)
        PROVE  u[i] = z[i]
    <3>1. i \in 1 .. n /\ i \in 1 .. b
      BY <1>1, <2>3
    <3>2. (a + 1) + 1 + i - 1 \in 1 .. a + 1 + n /\ ((a + 1) + 1 + i - 1) + 2 = a + 3 + i
      BY <1>1, <3>1
    <3>3. u[i] = h[a + 3 + i]
      BY <1>10, <2>2, <3>2
    <3> QED
      BY <1>4, <3>1, <3>3
  <2>5. u = z
    <3>1. u \in Seq(S) /\ z \in Seq(S) /\ Len(u) = Len(z) /\ \A i \in 1 .. Len(u) : u[i] = z[i]
      BY <1>4, <2>2, <2>3, <2>4
    <3> QED
      BY <3>1, SeqEqual
  <2> QED
    BY <2>5 DEF u
<1>15. Decode(h) = [type |-> "DATA", ip |-> ip, data |-> z]
  <2>1. Contains(line, "|") /\ Contains(rest, "|")
    BY <1>7, <1>11 DEF Contains
  <2>2. Before(line, "|") \in {<<t>> : t \in Types}
    BY <1>8, <1>9 DEF Types
  <2>3. Before(rest, "|") = ip /\ After(rest, "|") = z
    BY <1>12, <1>13, <1>14
  <2>4. line[1] = "DATA"
    BY <1>7
  <2> QED
    BY <2>1, <2>2, <2>3, <2>4 DEF Decode, LineOf, line, rest
<1> QED
  BY <1>15 DEF z

\* What a listener gets of a text: up to a line end within it, and without others.
Got(x) == WithoutEnd(Before(x, "LF"))

\* It is a text too.
LEMMA GotShape ==
    ASSUME NEW S, NEW x \in Seq(S)
    PROVE  Got(x) \in Seq(S)
<1>1. Before(x, "LF") \in Seq(S)
  BY PartsAreShorter
<1>2. PICK n \in 0 .. Len(Before(x, "LF")) : Got(x) = SubSeq(Before(x, "LF"), 1, n)
  BY <1>1, WithoutEndShape DEF Got
<1>3. 1 \in Nat \ {0} /\ n \in Int /\ n <= Len(Before(x, "LF"))
  BY <1>1, LenProperties
<1> QED
  BY <1>1, <1>2, <1>3, SubSeqShape

\* A frame of a text without line ends within it is one line and one message ...
LEMMA MessageOfLine ==
    ASSUME NEW S, "DATA" \in S, "|" \in S, "LF" \in S, NEW ip \in Addresses, ip \in Seq(S), NEW y \in Seq(S),
           \A i \in 1 .. Len(y) : y[i] # "NUL" /\ y[i] # "LF"
    PROVE  Messages(FrameText(Data(ip, y))) = <<WithoutEnd(y)>>
<1> DEFINE f == FrameText(Data(ip, y))
           a == Len(ip)
           b == Len(y)
           h == SubSeq(f, 1, a + b + 3)
<1>1. a \in Nat /\ b \in Nat
  BY LenProperties
<1>2. /\ f \in Seq(S) /\ Len(f) = a + b + 4
      /\ f[1] = "DATA" /\ f[2] = "|" /\ f[a + 3] = "|" /\ f[Len(f)] = "LF"
      /\ \A i \in 1 .. a : f[i + 2] = ip[i]
      /\ \A i \in 1 .. b : f[a + 3 + i] = y[i]
  BY DataFrame
<1> HIDE DEF f
<1>3. h \in Seq(S) /\ Len(h) = a + b + 3 /\ \A i \in 1 .. a + b + 3 : h[i] = f[i]
  <2>1. 1 \in Nat \ {0} /\ a + b + 3 \in Int /\ a + b + 3 <= Len(f)
    BY <1>1, <1>2
  <2>2. /\ h \in Seq(S) /\ Len(h) = IF 1 <= a + b + 3 THEN a + b + 3 - 1 + 1 ELSE 0
        /\ \A i \in 1 .. Len(h) : h[i] = f[1 + i - 1]
    <3>1. PICK n : n = a + b + 3
      OBVIOUS
    <3>2. f \in Seq(S) /\ n \in Int /\ n <= Len(f) /\ 1 \in Nat \ {0}
      BY <1>2, <2>1, <3>1
    <3>3. /\ SubSeq(f, 1, n) \in Seq(S) /\ Len(SubSeq(f, 1, n)) = IF 1 <= n THEN n - 1 + 1 ELSE 0
          /\ \A i \in 1 .. Len(SubSeq(f, 1, n)) : SubSeq(f, 1, n)[i] = f[1 + i - 1]
      BY <3>2, SubSeqShape
    <3> QED
      BY <3>1, <3>3
  <2> HIDE DEF h
  <2>3. Len(h) = a + b + 3
    BY <1>1, <2>2
  <2>4. \A i \in 1 .. a + b + 3 : 1 + i - 1 = i
    BY <1>1
  <2> QED
    BY <2>2, <2>3, <2>4
<1> HIDE DEF h
<1>4. f = Append(h, "LF")
  <2> DEFINE c == Append(h, "LF")
  <2>1. /\ c \in Seq(S) /\ Len(c) = Len(h) + 1
        /\ \A i \in 1 .. Len(h) : c[i] = h[i]
        /\ c[Len(h) + 1] = "LF"
    <3>1. h \in Seq(S)
      BY <1>3
    <3> QED
      BY <3>1, AppendProperties
  <2> HIDE DEF c
  <2>2. Len(c) = Len(f) /\ Len(f) = a + b + 3 + 1
    BY <1>1, <1>2, <1>3, <2>1
  <2>3. ASSUME NEW i \in 1 .. Len(f)
        PROVE  f[i] = c[i]
    <3>1. CASE i = Len(f)
      BY <1>2, <1>3, <2>1, <2>2, <3>1
    <3>2. CASE i # Len(f)
      <4>1. i \in 1 .. a + b + 3
        BY <1>1, <2>2, <3>2
      <4> QED
        BY <1>3, <2>1, <4>1
    <3> QED
      BY <3>1, <3>2
  <2> QED
    BY <1>2, <2>1, <2>2, <2>3, SeqEqual DEF c
<1>5. /\ Len(h) = Len(ip) + Len(y) + 3 /\ h[1] = "DATA" /\ h[2] = "|" /\ h[Len(ip) + 3] = "|"
      /\ \A i \in 1 .. Len(ip) : h[i + 2] = ip[i]
      /\ \A i \in 1 .. Len(y) : h[Len(ip) + 3 + i] = y[i] /\ y[i] # "NUL"
  <2>1. /\ 1 \in 1 .. a + b + 3 /\ 2 \in 1 .. a + b + 3 /\ a + 3 \in 1 .. a + b + 3
        /\ \A i \in 1 .. a : i + 2 \in 1 .. a + b + 3
        /\ \A i \in 1 .. b : a + 3 + i \in 1 .. a + b + 3
    BY <1>1
  <2> QED
    BY <1>2, <1>3, <2>1
<1>6. Decode(h).type = "DATA" /\ Decode(h).data = WithoutEnd(y)
  BY <1>3, <1>5, DecodedExactly
<1>7. ASSUME NEW i \in 1 .. Len(h)
      PROVE  h[i] # "LF"
  <2>1. CASE i \in {1, 2, a + 3}
    BY <1>5, <2>1
  <2>2. CASE i - 2 \in 1 .. a
    <3>1. h[(i - 2) + 2] = ip[i - 2]
      BY <1>5, <2>2
    <3>2. (i - 2) + 2 = i
      BY <1>3
    <3> QED
      BY <2>2, <3>1, <3>2, AddressCharacters DEF Kept, LineEnds
  <2>3. CASE i - (a + 3) \in 1 .. b
    <3>1. h[a + 3 + (i - (a + 3))] = y[i - (a + 3)] /\ a + 3 + (i - (a + 3)) = i
      BY <1>1, <1>5, <2>3
    <3> QED
      BY <2>3, <3>1
  <2>4. i \in {1, 2, a + 3} \/ i - 2 \in 1 .. a \/ i - (a + 3) \in 1 .. b
    BY <1>1, <1>3
  <2> QED
    BY <2>1, <2>2, <2>3, <2>4
<1>8. Messages(Append(h, "LF")) = IF Decode(h).type = "DATA" THEN <<Decode(h).data>> ELSE << >>
  BY <1>3, <1>7, OneMessage
<1> QED
  BY <1>4, <1>6, <1>8 DEF f

\* ... and of any text, one message: what follows a line end is no frame.
LEMMA MessagesOfFrame ==
    ASSUME NEW S, "DATA" \in S, "|" \in S, "LF" \in S, NEW ip \in Addresses, ip \in Seq(S), NEW x \in Seq(S),
           \A i \in 1 .. Len(x) : x[i] # "NUL" /\ x[i] # "DATA"
    PROVE  Messages(FrameText(Data(ip, x))) = <<Got(x)>>
<1>1. CASE \A i \in 1 .. Len(x) : x[i] # "LF"
  <2>1. Before(x, "LF") = x
    BY <1>1, NoPlace
  <2>2. Messages(FrameText(Data(ip, x))) = <<WithoutEnd(x)>>
    BY <1>1, MessageOfLine
  <2> QED
    BY <2>1, <2>2 DEF Got
<1>2. CASE \E k \in 1 .. Len(x) : x[k] = "LF"
  <2>1. PICK at \in 1 .. Len(x) : x[at] = "LF" /\ \A i \in 1 .. at - 1 : x[i] # "LF"
    <3>1. PICK k \in 1 .. Len(x) : x[k] = "LF"
      BY <1>2
    <3>2. PICK c : c = "LF"
      OBVIOUS
    <3>3. x[k] = c
      BY <3>1, <3>2
    <3>4. \E at \in 1 .. Len(x) : x[at] = c /\ \A i \in 1 .. at - 1 : x[i] # c
      BY <3>3, HasFirstPlace, SMTT(60)
    <3> QED
      BY <3>2, <3>4
  <2> DEFINE a == Len(ip)
             b == Len(x)
             y == SubSeq(x, 1, at - 1)
             z == SubSeq(x, at + 1, b)
             l == <<"LF">>
             w == z \o l
             f == FrameText(Data(ip, x))
             g == FrameText(Data(ip, y))
             c == g \o w
  <2>2. a \in Nat /\ b \in Nat /\ at \in Nat \ {0} /\ at <= b
    BY LenProperties
  <2>3. Before(x, "LF") = y
    BY <2>1, FirstPlace
  <2>4. y \in Seq(S) /\ Len(y) = at - 1 /\ \A i \in 1 .. at - 1 : y[i] = x[i]
    <3>1. 1 \in Nat \ {0} /\ at - 1 \in Int /\ at - 1 <= Len(x)
      BY <2>2
    <3>2. /\ y \in Seq(S) /\ Len(y) = IF 1 <= at - 1 THEN at - 1 - 1 + 1 ELSE 0
          /\ \A i \in 1 .. Len(y) : y[i] = x[1 + i - 1]
      BY <3>1, SubSeqShape
    <3> HIDE DEF y
    <3>3. Len(y) = at - 1
      BY <2>2, <3>2
    <3> QED
      BY <3>2, <3>3
  <2>5. z \in Seq(S) /\ Len(z) = b - at /\ \A i \in 1 .. b - at : z[i] = x[at + i]
    <3>1. at + 1 \in Nat \ {0} /\ b \in Int /\ b <= Len(x)
      BY <2>2
    <3>2. /\ z \in Seq(S) /\ Len(z) = IF at + 1 <= b THEN b - (at + 1) + 1 ELSE 0
          /\ \A i \in 1 .. Len(z) : z[i] = x[at + 1 + i - 1]
      <4> HIDE DEF b
      <4> QED
        BY <3>1, SubSeqShape
    <3> HIDE DEF z
    <3>3. Len(z) = b - at
      BY <2>2, <3>2
    <3>4. \A i \in 1 .. b - at : at + 1 + i - 1 = at + i
      BY <2>2
    <3> QED
      BY <3>2, <3>3, <3>4
  <2> HIDE DEF y, z
  <2>6. /\ w \in Seq(S) /\ Len(w) = b - at + 1
        /\ \A i \in 1 .. b - at : w[i] = x[at + i]
        /\ w[b - at + 1] = "LF"
    <3>1. l \in Seq(S) /\ Len(l) = 1 /\ l[1] = "LF"
      OBVIOUS
    <3> HIDE DEF l
    <3>2. /\ w \in Seq(S) /\ Len(w) = Len(z) + Len(l)
          /\ \A i \in 1 .. Len(z) : w[i] = z[i]
          /\ \A i \in 1 .. Len(l) : w[Len(z) + i] = l[i]
      <4>1. z \in Seq(S) /\ l \in Seq(S)
        BY <2>5, <3>1
      <4> QED
        BY <4>1, Joined
    <3> HIDE DEF w
    <3> QED
      BY <2>5, <3>1, <3>2
  <2> HIDE DEF w
  <2>7. /\ f \in Seq(S) /\ Len(f) = a + b + 4
        /\ f[1] = "DATA" /\ f[2] = "|" /\ f[a + 3] = "|" /\ f[Len(f)] = "LF"
        /\ \A i \in 1 .. a : f[i + 2] = ip[i]
        /\ \A i \in 1 .. b : f[a + 3 + i] = x[i]
    BY DataFrame
  <2>8. /\ g \in Seq(S) /\ Len(g) = a + (at - 1) + 4
        /\ g[1] = "DATA" /\ g[2] = "|" /\ g[a + 3] = "|" /\ g[Len(g)] = "LF"
        /\ \A i \in 1 .. a : g[i + 2] = ip[i]
        /\ \A i \in 1 .. at - 1 : g[a + 3 + i] = x[i]
    <3>1. /\ g \in Seq(S) /\ Len(g) = a + Len(y) + 4
          /\ g[1] = "DATA" /\ g[2] = "|" /\ g[a + 3] = "|" /\ g[Len(g)] = "LF"
          /\ \A i \in 1 .. a : g[i + 2] = ip[i]
          /\ \A i \in 1 .. Len(y) : g[a + 3 + i] = y[i]
      BY <2>4, DataFrame
    <3> HIDE DEF g
    <3> QED
      BY <2>4, <3>1
  <2> HIDE DEF f, g, a, b
  <2>9. /\ c \in Seq(S) /\ Len(c) = Len(g) + Len(w)
        /\ \A i \in 1 .. Len(g) : c[i] = g[i]
        /\ \A i \in 1 .. Len(w) : c[Len(g) + i] = w[i]
    <3>1. g \in Seq(S) /\ w \in Seq(S)
      BY <2>6, <2>8
    <3> QED
      BY <3>1, Joined
  <2> HIDE DEF c
  <2>10. Len(c) = Len(f) /\ Len(g) = a + 3 + at
    BY <2>2, <2>6, <2>7, <2>8, <2>9
  <2>11. ASSUME NEW i \in 1 .. Len(f)
         PROVE  f[i] = c[i]
    <3>1. CASE i \in {1, 2, a + 3}
      <4>1. i \in 1 .. Len(g)
        BY <2>2, <2>10, <3>1
      <4> QED
        BY <2>7, <2>8, <2>9, <3>1, <4>1
    <3>2. CASE i - 2 \in 1 .. a
      <4>1. i \in 1 .. Len(g) /\ (i - 2) + 2 = i
        BY <2>2, <2>10, <3>2
      <4>2. f[(i - 2) + 2] = ip[i - 2] /\ g[(i - 2) + 2] = ip[i - 2]
        BY <2>7, <2>8, <3>2
      <4> QED
        BY <2>9, <4>1, <4>2
    <3>3. CASE i - (a + 3) \in 1 .. at - 1
      <4>1. i \in 1 .. Len(g) /\ a + 3 + (i - (a + 3)) = i /\ i - (a + 3) \in 1 .. b
        BY <2>2, <2>10, <3>3
      <4>2. f[a + 3 + (i - (a + 3))] = x[i - (a + 3)] /\ g[a + 3 + (i - (a + 3))] = x[i - (a + 3)]
        BY <2>7, <2>8, <3>3, <4>1
      <4> QED
        BY <2>9, <4>1, <4>2
    <3>4. CASE i = a + 3 + at
      <4>1. i \in 1 .. Len(g) /\ i = Len(g) /\ at \in 1 .. b
        BY <2>2, <2>10, <3>4
      <4>2. f[a + 3 + at] = x[at]
        BY <2>7, <4>1
      <4> QED
        BY <2>1, <2>8, <2>9, <3>4, <4>1, <4>2
    <3>5. CASE i - (a + 3 + at) \in 1 .. b - at
      <4> DEFINE j == i - (a + 3 + at)
      <4>1. i = Len(g) + j /\ j \in 1 .. Len(w) /\ at + j \in 1 .. b /\ a + 3 + (at + j) = i
        BY <2>2, <2>6, <2>10, <3>5
      <4>2. w[j] = x[at + j]
        BY <2>6, <3>5
      <4>3. f[a + 3 + (at + j)] = x[at + j] /\ c[Len(g) + j] = w[j]
        BY <2>7, <2>9, <4>1
      <4> HIDE DEF j
      <4> QED
        BY <4>1, <4>2, <4>3
    <3>6. CASE i = Len(f)
      <4>1. i = Len(g) + (b - at + 1) /\ b - at + 1 \in 1 .. Len(w)
        BY <2>2, <2>6, <2>7, <2>10, <3>6
      <4> QED
        BY <2>6, <2>7, <2>9, <3>6, <4>1
    <3>7. \/ i \in {1, 2, a + 3} \/ i - 2 \in 1 .. a \/ i - (a + 3) \in 1 .. at - 1
          \/ i = a + 3 + at \/ i - (a + 3 + at) \in 1 .. b - at \/ i = Len(f)
      BY <2>2, <2>7
    <3> QED
      BY <3>1, <3>2, <3>3, <3>4, <3>5, <3>6, <3>7
  <2>12. f = c
    BY <2>7, <2>9, <2>10, <2>11, SeqEqual
  <2>13. Whole(g)
    BY <2>8 DEF Whole
  <2>14. Heads(w) = {}
    <3>1. ASSUME NEW i \in 1 .. Len(w)
          PROVE  w[i] # "DATA"
      <4>1. i # b - at + 1 => i \in 1 .. b - at /\ at + i \in 1 .. b
        BY <2>2, <2>6
      <4> QED
        BY <2>6, <4>1 DEF b
    <3> QED
      BY <3>1 DEF Heads
  <2>15. Messages(w) = << >>
    BY <2>6, <2>14, HeadlessMessages
  <2>16. Messages(g) = <<WithoutEnd(y)>>
    <3>1. \A i \in 1 .. Len(y) : y[i] # "NUL" /\ y[i] # "LF"
      <4> TAKE i \in 1 .. Len(y)
      <4>1. i \in 1 .. at - 1 /\ i \in 1 .. b
        BY <2>2, <2>4
      <4> QED
        BY <2>1, <2>4, <4>1 DEF b
    <3> QED
      BY <2>4, <3>1, MessageOfLine DEF g
  <2>17. Messages(c) = Messages(g) \o Messages(w)
    <3>1. g \in Seq(S) /\ w \in Seq(S)
      BY <2>6, <2>8
    <3> QED
      BY <2>13, <3>1, MessagesJoined DEF c
  <2>18. <<WithoutEnd(y)>> \o << >> = <<WithoutEnd(y)>>
    OBVIOUS
  <2> QED
    BY <2>3, <2>12, <2>15, <2>16, <2>17, <2>18 DEF Got, f
<1> QED
  BY <1>1, <1>2

-----------------------------------------------------------------------------
(* How often a sequence has an element.                                     *)

\* At how many places s has v.
Count(s, v) == Cardinality(Places(s, {v}))

\* A natural number, zero when there is none.
LEMMA CountType ==
    ASSUME NEW S, NEW s \in Seq(S), NEW v
    PROVE  /\ Count(s, v) \in Nat
           /\ Count(s, v) = 0 <=> \A i \in DOMAIN s : s[i] # v
<1> DEFINE D == Places(s, {v})
<1>1. Len(s) \in Nat /\ DOMAIN s = 1 .. Len(s)
  BY LenProperties
<1>2. D \in SUBSET (1 .. Len(s))
  BY <1>1 DEF Places
<1>3. IsFiniteSet(1 .. Len(s))
  <2>1. 1 \in Int /\ Len(s) \in Int
    BY <1>1
  <2> QED
    BY <2>1, FS_Interval
<1>4. D = {} <=> \A i \in DOMAIN s : s[i] # v
  BY DEF Places
<1> HIDE DEF D
<1>5. IsFiniteSet(D)
  BY <1>2, <1>3, FS_Subset
<1>6. Cardinality(D) \in Nat /\ (Cardinality(D) = 0 <=> D = {})
  BY <1>5, FS_EmptySet, FS_CardinalityType
<1> QED
  BY <1>4, <1>6 DEF Count, D

\* In two sequences, one after the other, it is the sum ...
LEMMA CountJoined ==
    ASSUME NEW S, NEW s \in Seq(S), NEW t \in Seq(S), NEW v
    PROVE  Count(s \o t, v) = Count(s, v) + Count(t, v)
<1> DEFINE n == Len(s)
           k == Len(t)
           A == Places(s, {v})
           B == Places(t, {v})
<1>1. n \in Nat /\ DOMAIN s = 1 .. n /\ k \in Nat /\ DOMAIN t = 1 .. k
  BY LenProperties
<1>2. A \in SUBSET (1 .. n) /\ B \in SUBSET (1 .. k)
  BY <1>1 DEF Places
<1>3. PICK E : E = A \cup Behind(n, B) /\ Places(s \o t, {v}) = E
  BY PlacesJoined
<1> HIDE DEF A, B, n, k
<1>4. /\ E \in SUBSET (1 .. n + k)
      /\ Cardinality(A) \in Nat /\ Cardinality(B) \in Nat
      /\ Cardinality(E) = Cardinality(A) + Cardinality(B)
  <2>1. /\ E \in SUBSET (1 .. n + k)
        /\ Cardinality(A) \in Nat /\ Cardinality(B) \in Nat
        /\ Cardinality(E) = Cardinality(A) + Cardinality(B)
        /\ \A i \in 1 .. Cardinality(A) : Ascending(E)[i] = Ascending(A)[i]
        /\ \A i \in 1 .. Cardinality(B) : Ascending(E)[Cardinality(A) + i] = n + Ascending(B)[i]
    <3>1. Stacked(E, n, k, A, B)
      BY <1>1, <1>2, <1>3, AscendingJoined
    <3> QED
      BY <3>1 DEF Stacked
  <2> QED
    BY <2>1
<1> QED
  BY <1>3, <1>4 DEF Count, A, B

\* ... none in the empty one ...
LEMMA CountNone == \A v : Count(<< >>, v) = 0
<1> TAKE v
<1>1. << >> \in Seq({}) /\ DOMAIN << >> = {}
  BY EmptySeq
<1> QED
  BY <1>1, CountType

\* ... and one in a sequence of it.
LEMMA CountOne ==
    ASSUME NEW w, NEW v
    PROVE  Count(<<w>>, v) = IF w = v THEN 1 ELSE 0
<1>1. Places(<<w>>, {v}) = IF w = v THEN {1} ELSE {}
  BY DEF Places
<1> QED
  BY <1>1, FS_EmptySet, FS_Singleton DEF Count

\* When one element is removed.
LEMMA CountRemoved ==
    ASSUME NEW S, NEW s \in Seq(S), NEW i \in DOMAIN s, NEW v
    PROVE  Count(s, v) = Count(RemoveAt(s, i), v) + IF s[i] = v THEN 1 ELSE 0
<1> DEFINE n == Len(s)
           a == SubSeq(s, 1, i - 1)
           b == SubSeq(s, i + 1, n)
           l == <<s[i]>>
<1>1. n \in Nat /\ DOMAIN s = 1 .. n /\ i \in 1 .. n
  BY LenProperties
<1>2. a \in Seq(S) /\ b \in Seq(S) /\ l \in Seq(S)
  <2>1. 1 \in Nat \ {0} /\ i - 1 \in Int /\ i - 1 <= Len(s)
    BY <1>1
  <2>2. i + 1 \in Nat \ {0} /\ Len(s) \in Int /\ Len(s) <= Len(s)
    BY <1>1
  <2>3. a \in Seq(S)
    BY <2>1, SubSeqShape
  <2>4. b \in Seq(S)
    BY <2>2, SubSeqShape
  <2>5. s[i] \in S
    BY <1>1, ElementOfSeq
  <2> QED
    BY <2>3, <2>4, <2>5
<1>3. s = a \o (l \o b)
  <2>1. SubSeq(s, 1, n) = s
    BY SubSeqFull
  <2>2. SubSeq(s, i, n) = l \o b
    <3>1. i \in 1 .. Len(s) /\ n \in i .. Len(s)
      BY <1>1
    <3> HIDE DEF n
    <3> QED
      BY <3>1, SubSeqRecursiveFirst
  <2>3. SubSeq(s, 1, i - 1) \o SubSeq(s, (i - 1) + 1, n) = SubSeq(s, 1, n)
    <3>1. PICK k : k = i - 1
      OBVIOUS
    <3>2. 1 \in 1 .. Len(s) + 1 /\ k \in 1 - 1 .. Len(s) /\ n \in k .. Len(s)
      BY <1>1, <3>1
    <3> HIDE DEF n
    <3>3. SubSeq(s, 1, k) \o SubSeq(s, k + 1, n) = SubSeq(s, 1, n)
      BY <3>2, ConcatAdjacentSubSeq
    <3> QED
      BY <3>1, <3>3
  <2>4. (i - 1) + 1 = i
    BY <1>1
  <2> QED
    BY <2>1, <2>2, <2>3, <2>4
<1>4. RemoveAt(s, i) = a \o b
  BY DEF RemoveAt
<1>5. Count(l, v) = IF s[i] = v THEN 1 ELSE 0
  BY CountOne
<1> HIDE DEF a, b, l, n
<1>6. l \o b \in Seq(S)
  BY <1>2
<1>7. Count(l \o b, v) = Count(l, v) + Count(b, v)
  BY <1>2, CountJoined
<1>8. Count(a \o (l \o b), v) = Count(a, v) + Count(l \o b, v)
  <2>1. PICK m : m = l \o b
    OBVIOUS
  <2>2. a \in Seq(S) /\ m \in Seq(S)
    BY <1>2, <1>6, <2>1
  <2>3. Count(a \o m, v) = Count(a, v) + Count(m, v)
    BY <2>2, CountJoined
  <2> QED
    BY <2>1, <2>3
<1>9. Count(a \o b, v) = Count(a, v) + Count(b, v)
  BY <1>2, CountJoined
<1>10. Count(a, v) \in Nat /\ Count(b, v) \in Nat
  BY <1>2, CountType
<1>11. Count(s, v) = Count(a, v) + (Count(l, v) + Count(b, v))
  BY <1>3, <1>7, <1>8
<1>12. Count(RemoveAt(s, i), v) = Count(a, v) + Count(b, v)
  BY <1>4, <1>9
<1>13. Count(l, v) \in Nat
  BY <1>5
<1>14. Count(s, v) = Count(RemoveAt(s, i), v) + Count(l, v)
  BY <1>10, <1>11, <1>12, <1>13
<1> QED
  BY <1>5, <1>14

\* When each element is a sequence of one.
Singles(s) == [i \in DOMAIN s |-> <<s[i]>>]

\* The sequence of one is there as often as its element.
LEMMA CountSingles ==
    ASSUME NEW s, NEW v
    PROVE  Count(Singles(s), <<v>>) = Count(s, v)
<1>1. Places(Singles(s), {<<v>>}) = Places(s, {v})
  <2>1. \A w : <<w>> = <<v>> <=> w = v
    OBVIOUS
  <2> QED
    BY <2>1 DEF Places, Singles
<1> QED
  BY <1>1 DEF Count

\* Sequences that have each element equally often are the same bag.
LEMMA CountsGiveBag ==
    ASSUME NEW S, NEW s \in Seq(S), NEW t \in Seq(S), \A v \in S : Count(s, v) = Count(t, v)
    PROVE  ToBag(s) = ToBag(t)
<1>1. ASSUME NEW u \in Seq(S)
      PROVE  /\ ToBag(u) = [v \in Range(u) |-> Count(u, v)]
             /\ Range(u) = {v \in S : Count(u, v) # 0}
  <2>1. \A v : {i \in DOMAIN u : u[i] = v} = Places(u, {v})
    BY DEF Places
  <2>2. ToBag(u) = [v \in Range(u) |-> Count(u, v)]
    BY <2>1 DEF ToBag, Count
  <2>3. \A v : Count(u, v) # 0 <=> \E i \in DOMAIN u : u[i] = v
    BY CountType
  <2>4. \A i \in DOMAIN u : u[i] \in S
    BY LenProperties, ElementOfSeq
  <2> QED
    BY <2>2, <2>3, <2>4 DEF Range
<1>2. Range(s) = Range(t)
  BY <1>1
<1> QED
  BY <1>1, <1>2

-----------------------------------------------------------------------------
(* What becomes of the messages of a chunk.                                 *)

\* The DATA frames that `listening` finds in a chunk.
Taken(chunk) == OfType(Dispatched(chunk), "DATA")

\* They are texts without line ends, within the chunk.
LEMMA TakenTexts ==
    ASSUME NEW chunk \in Seq(Chars)
    PROVE  /\ Taken(chunk) \in Seq(Seq(Chars)) /\ Len(Taken(chunk)) \in Nat
           /\ DOMAIN Taken(chunk) = 1 .. Len(Taken(chunk))
           /\ \A i \in DOMAIN Taken(chunk) :
                  /\ Taken(chunk)[i] \in Seq(Chars) /\ Decode(Taken(chunk)[i]).type = "DATA"
                  /\ \A q \in 1 .. Len(Taken(chunk)[i]) : Taken(chunk)[i][q] # "LF"
                  /\ (\E k \in 1 .. Len(chunk) : chunk[k] = "LF") => Len(Taken(chunk)[i]) < Len(chunk)
<1> DEFINE d == Dispatched(chunk)
           u == Taken(chunk)
<1>1. /\ d \in Seq(Seq(Chars)) /\ InLines(d, chunk)
      /\ (\E k \in 1 .. Len(chunk) : chunk[k] = "LF") => \A j \in DOMAIN d : Len(d[j]) < Len(chunk)
  BY DispatchedInLines
<1>2. /\ u \in Seq(Seq(Chars))
      /\ \A i \in DOMAIN u : u[i] \in Seq(Chars) /\ (\E j \in DOMAIN d : u[i] = d[j]) /\ Decode(u[i]).type = "DATA"
  <2>1. d \in Seq(Seq(Chars))
    BY <1>1
  <2> HIDE DEF d
  <2>2. /\ OfType(d, "DATA") \in Seq(Seq(Chars))
        /\ \A i \in DOMAIN OfType(d, "DATA") :
               /\ OfType(d, "DATA")[i] \in Seq(Chars)
               /\ \E j \in DOMAIN d : OfType(d, "DATA")[i] = d[j]
               /\ Decode(OfType(d, "DATA")[i]).type = "DATA"
    BY <2>1, OfTypeTexts
  <2>3. u = OfType(d, "DATA")
    BY DEF Taken, d
  <2> QED
    BY <2>2, <2>3
<1>3. \A j \in DOMAIN d : \A q \in 1 .. Len(d[j]) : d[j][q] # "LF"
  BY <1>1 DEF InLines, PlacedAt
<1> HIDE DEF d, u
<1>4. Len(u) \in Nat /\ DOMAIN u = 1 .. Len(u)
  BY <1>2, LenProperties
<1>5. ASSUME NEW i \in DOMAIN u
      PROVE  /\ \A q \in 1 .. Len(u[i]) : u[i][q] # "LF"
             /\ (\E k \in 1 .. Len(chunk) : chunk[k] = "LF") => Len(u[i]) < Len(chunk)
  <2>1. PICK j \in DOMAIN d : u[i] = d[j]
    BY <1>2
  <2> QED
    BY <1>1, <1>3, <2>1
<1> QED
  BY <1>2, <1>4, <1>5 DEF u

\* When the chunk ends with a line end, they carry its messages, and so does what
\* is forwarded of them.
LEMMA UncutTaken ==
    ASSUME NEW chunk \in Seq(Chars), Len(chunk) < BufSize, chunk # << >>, Last(chunk) = "LF"
    PROVE  /\ Messages(chunk) = [i \in 1 .. Len(Taken(chunk)) |-> Decode(Taken(chunk)[i]).data]
           /\ \A i \in DOMAIN Taken(chunk) : Forwarded(Taken(chunk)[i]) = Append(Taken(chunk)[i], "LF")
           /\ FlattenSeq(AllForwarded(Taken(chunk))) \in Seq(Chars)
           /\ Whole(FlattenSeq(AllForwarded(Taken(chunk))))
           /\ Messages(FlattenSeq(AllForwarded(Taken(chunk)))) = Messages(chunk)
<1> DEFINE u == Taken(chunk)
           k == Len(chunk)
<1>1. k \in Nat /\ BufSize \in Nat /\ k \in 1 .. Len(chunk) /\ chunk[k] = "LF"
  BY LenProperties, EmptySeq, FrameCodecAssumption DEF Last
<1>2. /\ u \in Seq(Seq(Chars)) /\ Len(u) \in Nat /\ DOMAIN u = 1 .. Len(u)
      /\ \A i \in DOMAIN u : /\ u[i] \in Seq(Chars) /\ Decode(u[i]).type = "DATA"
                             /\ \A q \in 1 .. Len(u[i]) : u[i][q] # "LF"
                             /\ Len(u[i]) < Len(chunk)
  BY <1>1, TakenTexts
<1>3. Messages(chunk) = [i \in 1 .. Len(u) |-> Decode(u[i]).data]
  <2> HIDE DEF k
  <2> QED
    BY <1>1, DispatchedMessages DEF Taken
<1> HIDE DEF u
<1>4. \A i \in DOMAIN u : Len(u[i]) + 1 < BufSize
  <2> TAKE i \in DOMAIN u
  <2>1. Len(u[i]) \in Nat /\ Len(u[i]) < k
    BY <1>2, LenProperties
  <2> QED
    BY <1>1, <2>1
<1>5. "LF" \in Chars
  BY Characters
<1>6. \A i \in DOMAIN u : Forwarded(u[i]) = Append(u[i], "LF")
  BY <1>2, <1>4, <1>5, ForwardedText
<1>7. /\ FlattenSeq(AllForwarded(u)) \in Seq(Chars) /\ Whole(FlattenSeq(AllForwarded(u)))
      /\ Messages(FlattenSeq(AllForwarded(u))) = [i \in 1 .. Len(u) |-> Decode(u[i]).data]
  <2>1. \A i \in DOMAIN u : /\ Decode(u[i]).type = "DATA" /\ Len(u[i]) + 1 < BufSize
                            /\ \A q \in 1 .. Len(u[i]) : u[i][q] # "LF"
    BY <1>2, <1>4
  <2>2. u \in Seq(Seq(Chars))
    BY <1>2
  <2> QED
    BY <1>5, <2>1, <2>2, ForwardedMessages
<1> QED
  BY <1>3, <1>6, <1>7 DEF u

\* The messages of a stream are those of such a chunk and those of the rest.
LEMMA UncutMessages ==
    ASSUME TypeInv, NEW stream \in Seq(Chars), NEW chunk \in Chunks(stream), Last(chunk) = "LF"
    PROVE  /\ chunk \in Seq(Chars) /\ Len(chunk) < BufSize /\ chunk # << >>
           /\ stream = chunk \o Rest(stream, chunk) /\ Rest(stream, chunk) \in Seq(Chars)
           /\ Messages(stream) = Messages(chunk) \o Messages(Rest(stream, chunk))
           /\ Messages(stream) \in Seq(Seq(Chars)) /\ Messages(chunk) \in Seq(Seq(Chars))
           /\ Messages(Rest(stream, chunk)) \in Seq(Seq(Chars))
<1> DEFINE rest == Rest(stream, chunk)
<1>1. chunk \in Seq(Chars) /\ Len(chunk) < BufSize /\ rest \in Seq(Chars)
  BY ChunkTypes
<1>2. cuts \in 0 .. MaxCuts
  BY DEF TypeInv, TypeOK
<1>3. PICK k \in 1 .. Len(stream) : chunk = SubSeq(stream, 1, k)
  BY <1>2, ChunkShape
<1>4. Len(stream) \in Nat /\ k \in 0 .. Len(stream)
  BY LenProperties
<1>5. /\ Len(chunk) = k /\ \A i \in 1 .. k : chunk[i] = stream[i]
      /\ Len(rest) = Len(stream) - k
      /\ \A i \in 1 .. Len(stream) - k : rest[i] = stream[k + i]
  BY <1>3, <1>4, Split
<1> HIDE DEF rest
<1>6. chunk # << >>
  BY <1>4, <1>5, EmptySeq
<1>7. stream = chunk \o rest
  <2> DEFINE c == chunk \o rest
  <2>1. /\ c \in Seq(Chars) /\ Len(c) = Len(chunk) + Len(rest)
        /\ \A i \in 1 .. Len(chunk) : c[i] = chunk[i]
        /\ \A i \in 1 .. Len(rest) : c[Len(chunk) + i] = rest[i]
    BY <1>1, Joined
  <2> HIDE DEF c
  <2>2. Len(stream) = Len(c)
    BY <1>4, <1>5, <2>1
  <2>3. ASSUME NEW i \in 1 .. Len(stream)
        PROVE  stream[i] = c[i]
    <3>1. CASE i <= k
      <4>1. i \in 1 .. k
        BY <3>1
      <4> QED
        BY <1>5, <2>1, <4>1
    <3>2. CASE ~ (i <= k)
      <4>1. i - k \in 1 .. Len(stream) - k /\ k + (i - k) = i
        BY <1>4, <3>2
      <4>2. c[k + (i - k)] = rest[i - k] /\ rest[i - k] = stream[k + (i - k)]
        BY <1>5, <2>1, <4>1
      <4> QED
        BY <4>1, <4>2
    <3> QED
      BY <3>1, <3>2
  <2> QED
    BY <2>1, <2>2, <2>3, SeqEqual DEF c
<1>8. Whole(chunk)
  BY DEF Whole, Last
<1>9. Messages(chunk \o rest) = Messages(chunk) \o Messages(rest)
  BY <1>1, <1>8, MessagesJoined
<1>10. Messages(stream) \in Seq(Seq(Chars)) /\ Messages(chunk) \in Seq(Seq(Chars)) /\ Messages(rest) \in Seq(Seq(Chars))
  BY <1>1, MessagesShape
<1> QED
  BY <1>1, <1>6, <1>7, <1>9, <1>10 DEF rest

\* The listener's router adds them to what the listener has not read yet.
LEMMA DeliveredMessages ==
    ASSUME TypeInv, NEW chunk \in Seq(Chars), Len(chunk) < BufSize, chunk # << >>, Last(chunk) = "LF",
           DeliverToHost(Dispatched(chunk)), ~ missed'
    PROVE  ~ missed /\ Messages(down') = Messages(down) \o Messages(chunk)
<1> DEFINE u == OfType(Dispatched(chunk), "DATA")
           D == {i \in DOMAIN u : Decode(u[i]).ip \in table}
<1>1. u \in Seq(Seq(Chars))
  BY TakenTexts DEF Taken
<1>2. down' = down \o FlattenSeq(AllForwarded(At(u, D))) /\ missed' = (missed \/ Len(At(u, D)) < Len(u))
  BY DEF DeliverToHost
<1>3. ~ missed /\ ~ (Len(At(u, D)) < Len(u))
  BY <1>2
<1>4. D \in SUBSET DOMAIN u
  OBVIOUS
<1> HIDE DEF u, D
<1>5. At(u, D) = u
  BY <1>1, <1>3, <1>4, AtWhole
<1>6. down \in Seq(Chars) /\ Whole(down)
  BY DEF TypeInv, Streams
<1> DEFINE g == FlattenSeq(AllForwarded(Taken(chunk)))
<1>7. g \in Seq(Chars) /\ Messages(g) = Messages(chunk)
  BY UncutTaken
<1>8. down' = down \o g
  BY <1>2, <1>5 DEF Taken, u
<1> HIDE DEF g
<1>9. Messages(down \o g) = Messages(down) \o Messages(g)
  BY <1>6, <1>7, MessagesJoined
<1> QED
  BY <1>3, <1>7, <1>8, <1>9

\* Sequences one after the other, and how they may be grouped.
Then(s, t) == s \o t

\* Four sequences, in the groupings that the streams of a router give.
LEMMA ThenExtended ==
    ASSUME NEW S, NEW a \in Seq(S), NEW b \in Seq(S), NEW c \in Seq(S), NEW d \in Seq(S)
    PROVE  /\ Then(a, Then(b, Then(c, d))) = Then(Then(a, Then(b, c)), d)
           /\ Then(a, Then(Then(b, c), d)) = Then(a, Then(b, Then(c, d)))
           /\ Then(Then(a, b), Then(c, d)) = Then(a, Then(Then(b, c), d))
<1>1. b \o c \in Seq(S) /\ c \o d \in Seq(S)
  BY Joined
<1>2. (b \o c) \o d = b \o (c \o d)
  BY ConcatAssociative
<1>3. PICK e, f : e = b \o c /\ f = c \o d
  OBVIOUS
<1>4. e \in Seq(S) /\ f \in Seq(S)
  BY <1>1, <1>3
<1>5. (a \o e) \o d = a \o (e \o d)
  BY <1>4, ConcatAssociative, SMTT(30)
<1>6. (a \o b) \o f = a \o (b \o f)
  BY <1>4, ConcatAssociative, SMTT(30)
<1> QED
  BY <1>2, <1>3, <1>5, <1>6 DEF Then

-----------------------------------------------------------------------------
(* Nothing is lost that was not dropped.                                    *)

\* The messages of the frames that were sent, and those between the routers, one
\* sequence for each connection.
Gots   == [k \in DOMAIN sent |-> Got(sent[k])]
OnHops == [i \in DOMAIN hops |-> Messages(hops[i])]
\* No line end before the last character.
OneLine(stream) == \A q \in 1 .. Len(stream) - 1 : stream[q] # "LF"

\* How often v is a line of the listener's file, and a message on the way to it.
InFile(v)  == Count(output, v)
OnWay(v)   == Count(Messages(down), v) + Count(OnHops, <<v>>) + Count(Messages(up), v)

\* As long as no recv ended within a line and nothing was dropped: within one
\* router, the lines of the listener's file, followed by the messages that wait in
\* the two streams, are the messages that were sent, in this order; between two
\* routers each is there as often as it was sent.
Accounts ==
    cuts = 0 /\ ~ missed =>
        /\ ~ far => output \o (Messages(down) \o Messages(up)) = Gots
        /\ far => \A v \in Seq(Chars) : InFile(v) + OnWay(v) = Count(Gots, v)

\* A connection between the routers carries one frame.
OneLines == \A i \in DOMAIN hops : OneLine(hops[i])

\* The types of what Accounts relates.
LEMMA AccountTypes ==
    ASSUME TypeInv
    PROVE  /\ sent \in Seq(Seq(Chars)) /\ Gots \in Seq(Seq(Chars)) /\ Len(Gots) = Len(sent)
           /\ Messages(down) \in Seq(Seq(Chars)) /\ Messages(up) \in Seq(Seq(Chars))
           /\ OnHops \in Seq(Seq(Seq(Chars))) /\ DOMAIN OnHops = DOMAIN hops
           /\ output \in Seq(Seq(Chars))
<1>1. /\ sent \in Seq(Seq(ToSet(source.text))) /\ source \in Sources
      /\ down \in Seq(Chars) /\ up \in Seq(Chars) /\ hops \in Seq(Seq(Chars)) /\ output \in Seq(Seq(Chars))
  BY DEF TypeInv, TypeOK, Streams
<1>2. sent \in Seq(Seq(Chars))
  <2>1. ToSet(source.text) \subseteq Chars
    BY <1>1, Characters
  <2> QED
    BY <1>1, <2>1, SeqOfSeqMonotonic
<1>3. Gots \in Seq(Seq(Chars)) /\ Len(Gots) = Len(sent)
  <2>1. Len(sent) \in Nat /\ DOMAIN sent = 1 .. Len(sent) /\ \A k \in 1 .. Len(sent) : sent[k] \in Seq(Chars)
    BY <1>2, LenProperties, ElementOfSeq
  <2>2. \A k \in 1 .. Len(sent) : Got(sent[k]) \in Seq(Chars)
    BY <2>1, GotShape
  <2>3. Gots = [k \in 1 .. Len(sent) |-> Got(sent[k])]
    BY <2>1 DEF Gots
  <2> QED
    BY <2>1, <2>2, <2>3
<1>4. OnHops \in Seq(Seq(Seq(Chars))) /\ DOMAIN OnHops = DOMAIN hops
  <2>1. Len(hops) \in Nat /\ DOMAIN hops = 1 .. Len(hops) /\ \A k \in 1 .. Len(hops) : hops[k] \in Seq(Chars)
    BY <1>1, LenProperties, ElementOfSeq
  <2>2. \A k \in 1 .. Len(hops) : Messages(hops[k]) \in Seq(Seq(Chars))
    BY <2>1, MessagesShape
  <2>3. OnHops = [k \in 1 .. Len(hops) |-> Messages(hops[k])]
    BY <2>1 DEF OnHops
  <2> QED
    BY <2>1, <2>2, <2>3
<1>5. Messages(down) \in Seq(Seq(Chars)) /\ Messages(up) \in Seq(Seq(Chars))
  BY <1>1, MessagesShape
<1> QED
  BY <1>1, <1>2, <1>3, <1>4, <1>5

\* A frame that is sent: one message more in the stream, and one to account for.
LEMMA AccountSent ==
    ASSUME PlainTexts, TypeInv, Accounts,
           NEW text \in Seq(ToSet(source.text)), \A i \in 1 .. Len(text) : text[i] # "NUL",
           NEW frame, frame # << >>, frame = Encode(Data(source.dest, text)),
           up' = up \o frame, sent' = Append(sent, text),
           UNCHANGED <<far, hops, down, output, cuts, missed>>
    PROVE  Accounts' /\ Gots' = Gots \o <<Got(text)>>
<1> DEFINE g  == <<Got(text)>>
           Mo == output
           Md == Messages(down)
           Mu == Messages(up)
<1>1. /\ source.dest \in Addresses /\ frame = FrameText(Data(source.dest, text)) /\ frame \in Seq(Chars)
      /\ source \in Sources /\ up \in Seq(Chars) /\ Whole(up)
  BY SentTypes DEF TypeInv, TypeOK, Streams
<1>2. text \in Seq(Chars) /\ source.dest \in Seq(Chars) /\ "DATA" \in Chars /\ "|" \in Chars /\ "LF" \in Chars
  BY <1>1, FrameCharacters, Characters DEF Types
<1>3. \A i \in 1 .. Len(text) : text[i] # "NUL" /\ text[i] # "DATA"
  <2> TAKE i \in 1 .. Len(text)
  <2>1. text[i] \in ToSet(source.text)
    BY ElementOfSeq
  <2> QED
    BY <1>1, <2>1 DEF PlainTexts, Types
<1>4. Messages(frame) = g
  <2>1. PICK ip : ip = source.dest
    OBVIOUS
  <2>2. ip \in Addresses /\ ip \in Seq(Chars)
    BY <1>1, <1>2, <2>1
  <2>3. Messages(FrameText(Data(ip, text))) = <<Got(text)>>
    BY <1>2, <1>3, <2>2, MessagesOfFrame
  <2> QED
    BY <1>1, <2>1, <2>3
<1>5. Messages(up') = Mu \o g
  <2>1. Messages(up \o frame) = Messages(up) \o Messages(frame)
    BY <1>1, MessagesJoined
  <2> QED
    BY <1>4, <2>1
<1>6. /\ Mo \in Seq(Seq(Chars)) /\ Md \in Seq(Seq(Chars)) /\ Mu \in Seq(Seq(Chars)) /\ g \in Seq(Seq(Chars))
      /\ Gots \in Seq(Seq(Chars)) /\ sent \in Seq(Seq(Chars)) /\ Len(Gots) = Len(sent)
  <2>1. Got(text) \in Seq(Chars)
    BY <1>2, GotShape
  <2> QED
    BY <2>1, AccountTypes
<1>7. Gots' = Gots \o g
  <2> DEFINE c == Gots \o g
             n == Len(sent)
  <2>1. n \in Nat /\ DOMAIN sent = 1 .. n /\ DOMAIN Gots = 1 .. n
    BY <1>6, LenProperties
  <2>2. DOMAIN sent' = 1 .. n + 1 /\ (\A k \in 1 .. n : sent'[k] = sent[k]) /\ sent'[n + 1] = text
    <3>1. /\ Append(sent, text) \in Seq(Seq(Chars)) /\ Len(Append(sent, text)) = n + 1
          /\ \A k \in 1 .. n : Append(sent, text)[k] = sent[k]
          /\ Append(sent, text)[n + 1] = text
      BY <1>2, <1>6, AppendProperties
    <3>2. DOMAIN Append(sent, text) = 1 .. n + 1
      BY <3>1, LenProperties
    <3> QED
      BY <3>1, <3>2
  <2>3. Len(g) = 1 /\ g[1] = Got(text)
    OBVIOUS
  <2> HIDE DEF g, n
  <2>4. /\ c \in Seq(Seq(Chars)) /\ Len(c) = Len(Gots) + Len(g)
        /\ \A k \in 1 .. Len(Gots) : c[k] = Gots[k]
        /\ \A k \in 1 .. Len(g) : c[Len(Gots) + k] = g[k]
    <3>1. Gots \in Seq(Seq(Chars)) /\ g \in Seq(Seq(Chars))
      BY <1>6
    <3> QED
      BY <3>1, Joined
  <2> HIDE DEF c
  <2>5. /\ DOMAIN c = 1 .. n + 1 /\ c[n + 1] = Got(text)
        /\ \A k \in 1 .. n : c[k] = Got(sent[k])
    <3>1. Len(Gots) = n /\ DOMAIN c = 1 .. Len(c)
      BY <1>6, <2>4, LenProperties DEF n
    <3>2. \A k \in 1 .. n : Gots[k] = Got(sent[k])
      BY <2>1 DEF Gots
    <3> QED
      BY <2>1, <2>3, <2>4, <3>1, <3>2
  <2>6. \A k \in 1 .. n + 1 : Got(sent'[k]) = c[k]
    <3> TAKE k \in 1 .. n + 1
    <3>1. k # n + 1 => k \in 1 .. n
      BY <2>1
    <3> QED
      BY <2>2, <2>5, <3>1
  <2>7. c = [k \in 1 .. n + 1 |-> c[k]]
    BY <2>4, <2>5, LenProperties
  <2>8. Gots' = [k \in 1 .. n + 1 |-> Got(sent'[k])]
    BY <2>2 DEF Gots
  <2> QED
    BY <2>6, <2>7, <2>8 DEF c
<1> HIDE DEF g, Md, Mu
<1>8. ASSUME cuts = 0, ~ missed, ~ far
      PROVE  Mo \o (Md \o (Mu \o g)) = Gots \o g
  <2>1. Mo \o (Md \o Mu) = Gots
    BY <1>8 DEF Accounts, Md, Mu
  <2>0. PICK T : T = Seq(Chars)
    OBVIOUS
  <2> HIDE DEF Mo
  <2>2. Mo \in Seq(T) /\ Md \in Seq(T) /\ Mu \in Seq(T) /\ g \in Seq(T)
    BY <1>6, <2>0
  <2>3. Then(Mo, Then(Md, Then(Mu, g))) = Then(Then(Mo, Then(Md, Mu)), g)
    BY <2>2, ThenExtended
  <2>4. Then(Mo, Then(Md, Mu)) = Gots
    BY <2>1 DEF Then
  <2>5. Then(Mo, Then(Md, Then(Mu, g))) = Then(Gots, g)
    BY <2>3, <2>4
  <2> QED
    BY <2>5 DEF Then
<1>9. ASSUME cuts = 0, ~ missed, far, NEW v \in Seq(Chars)
      PROVE  Count(Mo, v) + (Count(Md, v) + Count(OnHops, <<v>>) + Count(Mu \o g, v)) = Count(Gots \o g, v)
  <2>1. Count(Mo, v) + (Count(Md, v) + Count(OnHops, <<v>>) + Count(Mu, v)) = Count(Gots, v)
    BY <1>9 DEF Accounts, InFile, OnWay, Md, Mu
  <2>2. Count(Mu \o g, v) = Count(Mu, v) + Count(g, v)
    BY <1>6, CountJoined
  <2>3. Count(Gots \o g, v) = Count(Gots, v) + Count(g, v)
    BY <1>6, CountJoined
  <2>4. Count(Mo, v) \in Nat /\ Count(Md, v) \in Nat /\ Count(Mu, v) \in Nat /\ Count(g, v) \in Nat /\ Count(Gots, v) \in Nat
    BY <1>6, CountType
  <2>5. Count(OnHops, <<v>>) \in Nat
    BY AccountTypes, CountType
  <2> QED
    BY <2>1, <2>2, <2>3, <2>4, <2>5
<1>10. OnHops' = OnHops
  BY DEF OnHops
<1>11. Accounts'
  BY <1>5, <1>7, <1>8, <1>9, <1>10 DEF Accounts, InFile, OnWay, Md
<1> QED
  BY <1>7, <1>11 DEF g

\* The sender's router reads whole lines: its messages go on, all of them.
LEMMA AccountReadNear ==
    ASSUME TypeInv, Accounts, ReadSender, ~ far, cuts' = 0, ~ missed'
    PROVE  output' \o (Messages(down') \o Messages(up')) = Gots'
<1>1. PICK chunk \in Chunks(up) : /\ up' = Rest(up, chunk) /\ cuts' = cuts + Cut(chunk)
                                  /\ DeliverToHost(Dispatched(chunk))
                                  /\ UNCHANGED <<far, sent, output>>
  BY DEF ReadSender, senderVars, listenerVars
<1>2. up \in Seq(Chars)
  BY DEF TypeInv, Streams
<1>3. cuts = 0 /\ Last(chunk) = "LF"
  BY <1>1, <1>2, UncutChunk
<1>4. /\ chunk \in Seq(Chars) /\ Len(chunk) < BufSize /\ chunk # << >>
      /\ Messages(up) = Messages(chunk) \o Messages(up')
      /\ Messages(up') \in Seq(Seq(Chars)) /\ Messages(chunk) \in Seq(Seq(Chars))
  <2>1. Last(chunk) = "LF"
    BY <1>3
  <2> QED
    BY <1>1, <1>2, <2>1, UncutMessages
<1>5. ~ missed /\ Messages(down') = Messages(down) \o Messages(chunk)
  BY <1>1, <1>3, <1>4, DeliveredMessages
<1>6. output \o (Messages(down) \o Messages(up)) = Gots
  BY <1>3, <1>5 DEF Accounts
<1>7. output \in Seq(Seq(Chars)) /\ Messages(down) \in Seq(Seq(Chars))
  BY AccountTypes
<1>8. PICK o, d, c, r, b, e, s : /\ o = output /\ d = Messages(down) /\ c = Messages(chunk)
                                 /\ r = Messages(up') /\ b = Messages(up) /\ e = Messages(down') /\ s = Gots
  OBVIOUS
<1>9. PICK T : T = Seq(Chars)
  OBVIOUS
<1>10. o \in Seq(T) /\ d \in Seq(T) /\ c \in Seq(T) /\ r \in Seq(T)
  BY <1>4, <1>7, <1>8, <1>9
<1>11. b = Then(c, r) /\ e = Then(d, c) /\ Then(o, Then(d, b)) = s
  BY <1>4, <1>5, <1>6, <1>8 DEF Then
<1>12. Then(o, Then(Then(d, c), r)) = Then(o, Then(d, Then(c, r)))
  BY <1>10, ThenExtended
<1>13. Then(o, Then(e, r)) = s
  BY <1>11, <1>12
<1>14. Gots' = Gots
  BY <1>1 DEF Gots
<1> QED
  BY <1>1, <1>8, <1>13, <1>14 DEF Then

\* The listener reads whole lines.
LEMMA AccountHear ==
    ASSUME TypeInv, Accounts, Hear
    PROVE  Accounts'
<1> SUFFICES ASSUME cuts' = 0, ~ missed'
             PROVE  /\ ~ far' => output' \o (Messages(down') \o Messages(up')) = Gots'
                    /\ far' => \A v \in Seq(Chars) : (InFile(v) + OnWay(v))' = (Count(Gots, v))'
  BY DEF Accounts
<1>1. PICK chunk \in Chunks(down) : /\ down' = Rest(down, chunk) /\ cuts' = cuts + Cut(chunk)
                                    /\ \E saved \in PartsOf(Messages(chunk)) :
                                          /\ output' = output \o saved
                                          /\ missed' = (missed \/ Len(saved) < Len(Messages(chunk)))
                                    /\ UNCHANGED <<far, sent, up, hops>>
  BY DEF Hear, senderVars
<1>2. down \in Seq(Chars)
  BY DEF TypeInv, Streams
<1>3. cuts = 0 /\ Last(chunk) = "LF"
  BY <1>1, <1>2, UncutChunk
<1>4. /\ Messages(down) = Messages(chunk) \o Messages(down')
      /\ Messages(down') \in Seq(Seq(Chars)) /\ Messages(chunk) \in Seq(Seq(Chars))
  <2>1. Last(chunk) = "LF"
    BY <1>3
  <2> QED
    BY <1>1, <1>2, <2>1, UncutMessages
<1>5. ~ missed /\ output' = output \o Messages(chunk)
  <2>1. PICK D \in SUBSET DOMAIN Messages(chunk) :
              output' = output \o At(Messages(chunk), D) /\ ~ missed /\ ~ (Len(At(Messages(chunk), D)) < Len(Messages(chunk)))
    BY <1>1 DEF PartsOf
  <2>2. At(Messages(chunk), D) = Messages(chunk)
    BY <1>4, <2>1, AtWhole
  <2> QED
    BY <2>1, <2>2
<1>6. /\ output \in Seq(Seq(Chars)) /\ Messages(down) \in Seq(Seq(Chars)) /\ Messages(up) \in Seq(Seq(Chars))
      /\ Gots \in Seq(Seq(Chars)) /\ OnHops \in Seq(Seq(Seq(Chars)))
  BY AccountTypes
<1>7. Gots' = Gots /\ OnHops' = OnHops
  BY <1>1 DEF Gots, OnHops
<1>8. ASSUME ~ far'
      PROVE  output' \o (Messages(down') \o Messages(up')) = Gots'
  <2>1. output \o (Messages(down) \o Messages(up)) = Gots
    BY <1>1, <1>3, <1>5, <1>8 DEF Accounts
  <2>2. PICK o, c, r, u, d, p, s : /\ o = output /\ c = Messages(chunk) /\ r = Messages(down') /\ u = Messages(up)
                                   /\ d = Messages(down) /\ p = output' /\ s = Gots
    OBVIOUS
  <2>3. PICK T : T = Seq(Chars)
    OBVIOUS
  <2>4. o \in Seq(T) /\ c \in Seq(T) /\ r \in Seq(T) /\ u \in Seq(T)
    BY <1>4, <1>6, <2>2, <2>3
  <2>5. d = Then(c, r) /\ p = Then(o, c) /\ Then(o, Then(d, u)) = s
    BY <1>4, <1>5, <2>1, <2>2 DEF Then
  <2>6. Then(Then(o, c), Then(r, u)) = Then(o, Then(Then(c, r), u))
    BY <2>4, ThenExtended
  <2>7. Then(p, Then(r, u)) = s
    BY <2>5, <2>6
  <2> QED
    BY <1>1, <1>7, <2>2, <2>7 DEF Then
<1>9. ASSUME far', NEW v \in Seq(Chars)
      PROVE  (InFile(v) + OnWay(v))' = (Count(Gots, v))'
  <2>1. Count(output, v) + (Count(Messages(down), v) + Count(OnHops, <<v>>) + Count(Messages(up), v)) = Count(Gots, v)
    BY <1>1, <1>3, <1>5, <1>9 DEF Accounts, InFile, OnWay
  <2>2. Count(output', v) = Count(output, v) + Count(Messages(chunk), v)
    <3>1. Count(output \o Messages(chunk), v) = Count(output, v) + Count(Messages(chunk), v)
      BY <1>4, <1>6, CountJoined
    <3> QED
      BY <1>5, <3>1
  <2>3. Count(Messages(down), v) = Count(Messages(chunk), v) + Count(Messages(down'), v)
    <3>1. Count(Messages(chunk) \o Messages(down'), v) = Count(Messages(chunk), v) + Count(Messages(down'), v)
      BY <1>4, CountJoined
    <3> QED
      BY <1>4, <3>1
  <2>4. /\ Count(output, v) \in Nat /\ Count(Messages(chunk), v) \in Nat /\ Count(Messages(down'), v) \in Nat
        /\ Count(Messages(up), v) \in Nat /\ Count(OnHops, <<v>>) \in Nat
    BY <1>4, <1>6, CountType
  <2>5. Count(output', v) + (Count(Messages(down'), v) + Count(OnHops, <<v>>) + Count(Messages(up), v)) = Count(Gots, v)
    BY <2>1, <2>2, <2>3, <2>4
  <2> QED
    BY <1>1, <1>7, <2>5 DEF InFile, OnWay
<1> QED
  BY <1>8, <1>9

\* The messages of several streams, each for itself.
MessagesOf(streams) == [i \in DOMAIN streams |-> Messages(streams[i])]

\* They are as many.
LEMMA MessagesOfShape ==
    ASSUME NEW S, NEW s \in Seq(Seq(S))
    PROVE  MessagesOf(s) \in Seq(Seq(Seq(S))) /\ Len(MessagesOf(s)) = Len(s)
<1>1. Len(s) \in Nat /\ DOMAIN s = 1 .. Len(s) /\ \A k \in 1 .. Len(s) : s[k] \in Seq(S)
  BY LenProperties, ElementOfSeq
<1>2. \A k \in 1 .. Len(s) : Messages(s[k]) \in Seq(Seq(S))
  BY <1>1, MessagesShape
<1>3. MessagesOf(s) = [k \in 1 .. Len(s) |-> Messages(s[k])]
  BY <1>1 DEF MessagesOf
<1> QED
  BY <1>1, <1>2, <1>3

\* Those of two groups of streams.
LEMMA MessagesOfJoined ==
    ASSUME NEW S, NEW s \in Seq(Seq(S)), NEW t \in Seq(Seq(S))
    PROVE  MessagesOf(s \o t) = MessagesOf(s) \o MessagesOf(t)
<1> DEFINE c == s \o t
           a == MessagesOf(s)
           b == MessagesOf(t)
           d == a \o b
<1>1. /\ c \in Seq(Seq(S)) /\ Len(s) \in Nat /\ Len(t) \in Nat /\ Len(c) = Len(s) + Len(t)
      /\ \A i \in 1 .. Len(s) : c[i] = s[i]
      /\ \A i \in 1 .. Len(t) : c[Len(s) + i] = t[i]
  BY Joined
<1>2. /\ a \in Seq(Seq(Seq(S))) /\ b \in Seq(Seq(Seq(S))) /\ Len(a) = Len(s) /\ Len(b) = Len(t)
      /\ \A i \in 1 .. Len(s) : a[i] = Messages(s[i])
      /\ \A i \in 1 .. Len(t) : b[i] = Messages(t[i])
  <2>1. DOMAIN s = 1 .. Len(s) /\ DOMAIN t = 1 .. Len(t)
    BY LenProperties
  <2> QED
    BY <2>1, MessagesOfShape DEF MessagesOf
<1>3. MessagesOf(c) \in Seq(Seq(Seq(S))) /\ Len(MessagesOf(c)) = Len(c) /\ \A i \in 1 .. Len(c) : MessagesOf(c)[i] = Messages(c[i])
  <2>1. DOMAIN c = 1 .. Len(c)
    BY <1>1, LenProperties
  <2>2. c \in Seq(Seq(S))
    BY <1>1
  <2> HIDE DEF c
  <2>3. MessagesOf(c) \in Seq(Seq(Seq(S))) /\ Len(MessagesOf(c)) = Len(c)
    BY <2>2, MessagesOfShape
  <2> QED
    BY <2>1, <2>3 DEF MessagesOf
<1> HIDE DEF c, a, b
<1>4. /\ d \in Seq(Seq(Seq(S))) /\ Len(d) = Len(a) + Len(b)
      /\ \A i \in 1 .. Len(a) : d[i] = a[i]
      /\ \A i \in 1 .. Len(b) : d[Len(a) + i] = b[i]
  <2>1. a \in Seq(Seq(Seq(S))) /\ b \in Seq(Seq(Seq(S)))
    BY <1>2
  <2> QED
    BY <2>1, Joined
<1> HIDE DEF d
<1>5. ASSUME NEW i \in 1 .. Len(c)
      PROVE  MessagesOf(c)[i] = d[i]
  <2>1. CASE i <= Len(s)
    <3>1. i \in 1 .. Len(s)
      BY <1>1, <2>1
    <3> QED
      BY <1>1, <1>2, <1>3, <1>4, <3>1
  <2>2. CASE ~ (i <= Len(s))
    <3>1. i - Len(s) \in 1 .. Len(t) /\ Len(s) + (i - Len(s)) = i
      BY <1>1, <2>2
    <3>2. c[Len(s) + (i - Len(s))] = t[i - Len(s)] /\ d[Len(s) + (i - Len(s))] = b[i - Len(s)]
      BY <1>1, <1>2, <1>4, <3>1
    <3>3. b[i - Len(s)] = Messages(t[i - Len(s)])
      BY <1>2, <3>1
    <3> QED
      BY <1>3, <3>1, <3>2, <3>3
  <2> QED
    BY <2>1, <2>2
<1>6. Len(d) = Len(MessagesOf(c))
  BY <1>1, <1>2, <1>3, <1>4
<1>7. MessagesOf(c) = d
  <2>1. PICK m : m = MessagesOf(c)
    OBVIOUS
  <2>2. m \in Seq(Seq(Seq(S))) /\ Len(m) = Len(d) /\ \A i \in 1 .. Len(m) : m[i] = d[i]
    BY <1>3, <1>5, <1>6, <2>1
  <2>3. m = d
    BY <1>4, <2>2, SeqEqual
  <2> QED
    BY <2>1, <2>3
<1> QED
  BY <1>7 DEF a, b, c, d

\* A whole frame on a connection of its own is one message.
LEMMA MessagesOfForwarded ==
    ASSUME NEW chunk \in Seq(Chars), Len(chunk) < BufSize, chunk # << >>, Last(chunk) = "LF"
    PROVE  MessagesOf(AllForwarded(Taken(chunk))) = Singles(Messages(chunk))
<1> DEFINE u == Taken(chunk)
           m == Messages(chunk)
<1>1. /\ u \in Seq(Seq(Chars)) /\ Len(u) \in Nat /\ DOMAIN u = 1 .. Len(u)
      /\ \A i \in DOMAIN u : /\ u[i] \in Seq(Chars) /\ Decode(u[i]).type = "DATA"
                             /\ \A q \in 1 .. Len(u[i]) : u[i][q] # "LF"
  BY TakenTexts
<1>2. m = [i \in 1 .. Len(u) |-> Decode(u[i]).data] /\ \A i \in DOMAIN u : Forwarded(u[i]) = Append(u[i], "LF")
  BY UncutTaken
<1> HIDE DEF u
<1>3. \A i \in DOMAIN u : Messages(Forwarded(u[i])) = <<m[i]>>
  <2> HIDE DEF m
  <2> TAKE i \in DOMAIN u
  <2>1. u[i] \in Seq(Chars) /\ \A q \in 1 .. Len(u[i]) : u[i][q] # "LF"
    BY <1>1
  <2>2. PICK t : t = u[i]
    OBVIOUS
  <2>3. t \in Seq(Chars) /\ \A q \in 1 .. Len(t) : t[q] # "LF"
    BY <2>1, <2>2
  <2>4. Messages(Append(t, "LF")) = IF Decode(t).type = "DATA" THEN <<Decode(t).data>> ELSE << >>
    BY <2>3, OneMessage
  <2>5. m[i] = Decode(t).data /\ Decode(t).type = "DATA"
    BY <1>1, <1>2, <2>2
  <2> QED
    BY <1>2, <2>2, <2>4, <2>5
<1>4. DOMAIN m = DOMAIN u
  BY <1>1, <1>2
<1>5. DOMAIN AllForwarded(u) = DOMAIN u /\ \A i \in DOMAIN u : AllForwarded(u)[i] = Forwarded(u[i])
  BY DEF AllForwarded
<1> HIDE DEF m
<1> QED
  BY <1>3, <1>4, <1>5 DEF MessagesOf, Singles, u, m

\* The same, when the listener has another router.
LEMMA AccountReadFar ==
    ASSUME TypeInv, Accounts, ReadSender, far, cuts' = 0, ~ missed', NEW v \in Seq(Chars)
    PROVE  (InFile(v) + OnWay(v))' = (Count(Gots, v))'
<1>1. PICK chunk \in Chunks(up) : /\ up' = Rest(up, chunk) /\ cuts' = cuts + Cut(chunk)
                                  /\ DeliverToNeighbor(Dispatched(chunk))
                                  /\ UNCHANGED <<far, sent, down, output>>
  BY DEF ReadSender, senderVars, listenerVars
<1>2. up \in Seq(Chars) /\ hops \in Seq(Seq(Chars))
  BY DEF TypeInv, Streams
<1>3. cuts = 0 /\ Last(chunk) = "LF"
  BY <1>1, <1>2, UncutChunk
<1>4. /\ chunk \in Seq(Chars) /\ Len(chunk) < BufSize /\ chunk # << >>
      /\ Messages(up) = Messages(chunk) \o Messages(up')
      /\ Messages(up') \in Seq(Seq(Chars)) /\ Messages(chunk) \in Seq(Seq(Chars))
  <2>1. Last(chunk) = "LF"
    BY <1>3
  <2> QED
    BY <1>1, <1>2, <2>1, UncutMessages
<1>5. ~ missed /\ hops' = hops \o AllForwarded(Taken(chunk))
  <2>1. PICK D \in SUBSET DOMAIN Taken(chunk) :
              /\ hops' = hops \o AllForwarded(At(Taken(chunk), D))
              /\ ~ missed /\ ~ (Len(At(Taken(chunk), D)) < Len(Taken(chunk)))
    BY <1>1 DEF DeliverToNeighbor, PartsOf, Taken
  <2>2. Taken(chunk) \in Seq(Seq(Chars))
    BY <1>4, TakenTexts
  <2>3. At(Taken(chunk), D) = Taken(chunk)
    BY <2>1, <2>2, AtWhole
  <2> QED
    BY <2>1, <2>3
<1>6. OnHops' = OnHops \o Singles(Messages(chunk))
  <2>1. AllForwarded(Taken(chunk)) \in Seq(Seq(Chars))
    <3>1. Taken(chunk) \in Seq(Seq(Chars)) /\ "LF" \in Chars
      BY <1>4, TakenTexts, Characters
    <3> QED
      BY <3>1, AllForwardedTexts
  <2>2. MessagesOf(hops \o AllForwarded(Taken(chunk))) = MessagesOf(hops) \o MessagesOf(AllForwarded(Taken(chunk)))
    BY <1>2, <2>1, MessagesOfJoined
  <2>3. MessagesOf(AllForwarded(Taken(chunk))) = Singles(Messages(chunk))
    BY <1>3, <1>4, MessagesOfForwarded
  <2>4. OnHops = MessagesOf(hops) /\ OnHops' = MessagesOf(hops')
    BY DEF OnHops, MessagesOf
  <2> QED
    BY <1>5, <2>2, <2>3, <2>4
<1>7. /\ output \in Seq(Seq(Chars)) /\ Messages(down) \in Seq(Seq(Chars)) /\ OnHops \in Seq(Seq(Seq(Chars)))
  BY AccountTypes
<1>8. Count(output, v) + (Count(Messages(down), v) + Count(OnHops, <<v>>) + Count(Messages(up), v)) = Count(Gots, v)
  BY <1>3, <1>5 DEF Accounts, InFile, OnWay
<1>9. Count(OnHops', <<v>>) = Count(OnHops, <<v>>) + Count(Messages(chunk), v)
  <2>1. Singles(Messages(chunk)) \in Seq(Seq(Seq(Chars)))
    <3>1. PICK m : m = Messages(chunk)
      OBVIOUS
    <3>2. m \in Seq(Seq(Chars))
      BY <1>4, <3>1
    <3>3. Len(m) \in Nat /\ DOMAIN m = 1 .. Len(m) /\ \A k \in 1 .. Len(m) : m[k] \in Seq(Chars)
      BY <3>2, LenProperties, ElementOfSeq
    <3>4. \A k \in 1 .. Len(m) : <<m[k]>> \in Seq(Seq(Chars))
      BY <3>3
    <3>5. Singles(m) = [k \in 1 .. Len(m) |-> <<m[k]>>]
      BY <3>3 DEF Singles
    <3>6. Singles(m) \in Seq(Seq(Seq(Chars)))
      BY <3>3, <3>4, <3>5
    <3> QED
      BY <3>1, <3>6
  <2>2. Count(OnHops \o Singles(Messages(chunk)), <<v>>) = Count(OnHops, <<v>>) + Count(Singles(Messages(chunk)), <<v>>)
    BY <1>7, <2>1, CountJoined
  <2>3. Count(Singles(Messages(chunk)), <<v>>) = Count(Messages(chunk), v)
    BY CountSingles
  <2> QED
    BY <1>6, <2>2, <2>3
<1>10. Count(Messages(up), v) = Count(Messages(chunk), v) + Count(Messages(up'), v)
  <2>1. Count(Messages(chunk) \o Messages(up'), v) = Count(Messages(chunk), v) + Count(Messages(up'), v)
    BY <1>4, CountJoined
  <2> QED
    BY <1>4, <2>1
<1>11. /\ Count(output, v) \in Nat /\ Count(Messages(down), v) \in Nat /\ Count(OnHops, <<v>>) \in Nat
       /\ Count(Messages(chunk), v) \in Nat /\ Count(Messages(up'), v) \in Nat
  BY <1>4, <1>7, CountType
<1>12. Gots' = Gots
  BY <1>1 DEF Gots
<1>13. Count(output, v) + (Count(Messages(down), v) + Count(OnHops', <<v>>) + Count(Messages(up'), v)) = Count(Gots, v)
  BY <1>8, <1>9, <1>10, <1>11
<1> QED
  BY <1>1, <1>12, <1>13 DEF InFile, OnWay

\* Its step, in both cases.
LEMMA AccountReadSender ==
    ASSUME TypeInv, Accounts, ReadSender
    PROVE  Accounts'
<1>1. far' = far
  BY DEF ReadSender
<1> QED
  BY <1>1, AccountReadNear, AccountReadFar DEF Accounts

\* A forwarded frame is one line ...
LEMMA OneLineOfText ==
    ASSUME NEW S, "LF" \in S, NEW text \in Seq(S), \A q \in 1 .. Len(text) : text[q] # "LF"
    PROVE  OneLine(Forwarded(text))
<1>1. CASE Len(text) + 1 < BufSize
  <2>1. /\ Len(Append(text, "LF")) = Len(text) + 1 /\ Len(text) \in Nat
        /\ \A i \in 1 .. Len(text) : Append(text, "LF")[i] = text[i]
    BY AppendProperties, LenProperties
  <2>2. PICK s : s = Append(text, "LF")
    OBVIOUS
  <2>3. Len(s) = Len(text) + 1 /\ \A i \in 1 .. Len(text) : s[i] = text[i]
    BY <2>1, <2>2
  <2>4. Len(s) - 1 = Len(text)
    BY <2>1, <2>3
  <2> QED
    BY <1>1, <2>2, <2>3, <2>4 DEF OneLine, Forwarded
<1>2. CASE ~ (Len(text) + 1 < BufSize)
  BY <1>2 DEF OneLine, Forwarded
<1> QED
  BY <1>1, <1>2

\* ... and so is what is left of it.
LEMMA OneLineOfRest ==
    ASSUME NEW S, NEW stream \in Seq(S), OneLine(stream), NEW k \in 0 .. Len(stream)
    PROVE  OneLine(Rest(stream, SubSeq(stream, 1, k)))
<1> DEFINE rest == Rest(stream, SubSeq(stream, 1, k))
<1>1. /\ Len(stream) \in Nat /\ Len(rest) = Len(stream) - k
      /\ \A i \in 1 .. Len(stream) - k : rest[i] = stream[k + i]
  BY Split
<1> HIDE DEF rest
<1>2. ASSUME NEW q \in 1 .. Len(rest) - 1
      PROVE  rest[q] # "LF"
  <2>1. q \in 1 .. Len(stream) - k /\ k + q \in 1 .. Len(stream) - 1
    BY <1>1
  <2> QED
    BY <1>1, <2>1 DEF OneLine
<1> QED
  BY <1>2 DEF OneLine, rest

\* However the streams are cut, a connection between the routers has one line.
LEMMA NextOneLines == TypeInv /\ OneLines /\ [Next]_vars => OneLines'
<1> SUFFICES ASSUME TypeInv, OneLines, [Next]_vars
             PROVE  OneLines'
  OBVIOUS
<1>0. /\ up \in Seq(Chars) /\ hops \in Seq(Seq(Chars)) /\ cuts \in 0 .. MaxCuts
      /\ \A i \in DOMAIN hops : OneLine(hops[i])
  BY DEF TypeInv, TypeOK, Streams, OneLines
<1>1. ASSUME ReadSender
      PROVE  OneLines'
  <2>1. CASE ~ far
    BY <1>1, <2>1 DEF ReadSender, OneLines
  <2>2. CASE far
    <3>0. PICK chunk \in Chunks(up) : DeliverToNeighbor(Dispatched(chunk))
      BY <1>1, <2>2 DEF ReadSender
    <3>1. PICK D \in SUBSET DOMAIN Taken(chunk) : hops' = hops \o AllForwarded(At(Taken(chunk), D))
      BY <3>0 DEF DeliverToNeighbor, PartsOf, Taken
    <3>2. chunk \in Seq(Chars)
      BY <1>0, ChunkTypes
    <3>3. /\ Taken(chunk) \in Seq(Seq(Chars))
          /\ \A i \in DOMAIN Taken(chunk) : \A q \in 1 .. Len(Taken(chunk)[i]) : Taken(chunk)[i][q] # "LF"
      BY <3>2, TakenTexts
    <3> DEFINE r == At(Taken(chunk), D)
    <3>4. /\ r \in Seq(Seq(Chars)) /\ DOMAIN r = 1 .. Cardinality(D)
          /\ \A i \in DOMAIN r : Ascending(D)[i] \in D /\ r[i] = Taken(chunk)[Ascending(D)[i]]
      <4>1. Taken(chunk) \in Seq(Seq(Chars))
        BY <3>3
      <4> QED
        BY <4>1, AtProperties
    <3> HIDE DEF r
    <3>5. \A i \in DOMAIN r : r[i] \in Seq(Chars) /\ \A q \in 1 .. Len(r[i]) : r[i][q] # "LF"
      BY <3>3, <3>4, LenProperties, ElementOfSeq
    <3> DEFINE a == AllForwarded(r)
    <3>6. a \in Seq(Seq(Chars)) /\ DOMAIN a = DOMAIN r /\ \A i \in DOMAIN r : a[i] = Forwarded(r[i])
      <4>1. r \in Seq(Seq(Chars)) /\ "LF" \in Chars
        BY <3>4, Characters
      <4> QED
        BY <4>1, AllForwardedTexts
    <3> HIDE DEF a
    <3>7. \A i \in DOMAIN a : OneLine(a[i])
      <4> TAKE i \in DOMAIN a
      <4>1. PICK t : t = r[i]
        OBVIOUS
      <4>2. t \in Seq(Chars) /\ (\A q \in 1 .. Len(t) : t[q] # "LF") /\ "LF" \in Chars
        BY <3>5, <3>6, <4>1, Characters
      <4>3. OneLine(Forwarded(t))
        BY <4>2, OneLineOfText
      <4> QED
        BY <3>6, <4>1, <4>3
    <3> DEFINE c == hops \o a
    <3>8. /\ c \in Seq(Seq(Chars)) /\ Len(hops) \in Nat /\ Len(a) \in Nat /\ Len(c) = Len(hops) + Len(a)
          /\ \A i \in 1 .. Len(hops) : c[i] = hops[i]
          /\ \A i \in 1 .. Len(a) : c[Len(hops) + i] = a[i]
      <4>1. hops \in Seq(Seq(Chars)) /\ a \in Seq(Seq(Chars))
        BY <1>0, <3>6
      <4> QED
        BY <4>1, Joined
    <3> HIDE DEF c
    <3>9. DOMAIN c = 1 .. Len(c) /\ DOMAIN hops = 1 .. Len(hops) /\ DOMAIN a = 1 .. Len(a)
      BY <1>0, <3>6, <3>8, LenProperties
    <3>10. ASSUME NEW i \in DOMAIN c
           PROVE  OneLine(c[i])
      <4>1. CASE i <= Len(hops)
        <5>1. i \in 1 .. Len(hops)
          BY <3>8, <3>9, <4>1
        <5> QED
          BY <1>0, <3>8, <3>9, <5>1
      <4>2. CASE ~ (i <= Len(hops))
        <5>1. i - Len(hops) \in 1 .. Len(a) /\ Len(hops) + (i - Len(hops)) = i
          BY <3>8, <3>9, <4>2
        <5>2. c[Len(hops) + (i - Len(hops))] = a[i - Len(hops)]
          BY <3>8, <5>1
        <5> QED
          BY <3>7, <3>9, <5>1, <5>2
      <4> QED
        BY <4>1, <4>2
    <3>11. hops' = c
      BY <3>1 DEF a, r, c
    <3> QED
      BY <3>10, <3>11 DEF OneLines
  <2> QED
    BY <2>1, <2>2
<1>2. ASSUME ReadNeighbor
      PROVE  OneLines'
  <2>0. PICK i \in DOMAIN hops : \E chunk \in Chunks(hops[i]) :
              hops' = IF chunk = hops[i] THEN RemoveAt(hops, i) ELSE [hops EXCEPT ![i] = Rest(hops[i], chunk)]
    BY <1>2 DEF ReadNeighbor
  <2>1. PICK chunk \in Chunks(hops[i]) :
              hops' = IF chunk = hops[i] THEN RemoveAt(hops, i) ELSE [hops EXCEPT ![i] = Rest(hops[i], chunk)]
    BY <2>0
  <2>2. CASE chunk = hops[i]
    <3>1. /\ DOMAIN RemoveAt(hops, i) = 1 .. Len(hops) - 1
          /\ Len(hops) \in Nat /\ DOMAIN hops = 1 .. Len(hops)
          /\ \A j \in 1 .. Len(hops) - 1 : RemoveAt(hops, i)[j] = hops[IF j < i THEN j ELSE j + 1]
      BY <1>0, RemoveAtProperties
    <3>2. \A j \in 1 .. Len(hops) - 1 : (IF j < i THEN j ELSE j + 1) \in 1 .. Len(hops)
      BY <3>1
    <3>3. hops' = RemoveAt(hops, i)
      BY <2>1, <2>2
    <3> QED
      BY <1>0, <3>1, <3>2, <3>3 DEF OneLines
  <2>3. CASE chunk # hops[i]
    <3>1. PICK s : s = hops[i]
      OBVIOUS
    <3>2. s \in Seq(Chars) /\ OneLine(s) /\ chunk \in Chunks(s)
      BY <1>0, <2>1, <3>1, LenProperties, ElementOfSeq
    <3>3. PICK k \in 1 .. Len(s) : chunk = SubSeq(s, 1, k)
      BY <1>0, <3>2, ChunkShape
    <3>4. k \in 0 .. Len(s)
      BY <3>2, LenProperties
    <3>5. OneLine(Rest(s, chunk))
      BY <3>2, <3>3, <3>4, OneLineOfRest
    <3> QED
      BY <1>0, <2>1, <2>3, <3>1, <3>5 DEF OneLines
  <2> QED
    BY <2>2, <2>3
<1>3. CASE ~ ReadSender /\ ~ ReadNeighbor
  <2>1. hops' = hops
    BY <1>3 DEF Next, vars, Connect, SendMessage, SendLine, EndOfFile, ReadListener, Listen, Hear
  <2> QED
    BY <2>1 DEF OneLines
<1> QED
  BY <1>1, <1>2, <1>3

\* The listener's router reads a connection of the other router: it takes the
\* frame, and the connection ends.
LEMMA AccountReadNeighbor ==
    ASSUME TypeInv, Origins, OneLines, Accounts, ReadNeighbor
    PROVE  Accounts'
<1>0. PICK i \in DOMAIN hops : \E chunk \in Chunks(hops[i]) :
            /\ hops' = IF chunk = hops[i] THEN RemoveAt(hops, i) ELSE [hops EXCEPT ![i] = Rest(hops[i], chunk)]
            /\ cuts' = cuts + Cut(chunk)
            /\ DeliverToHost(Dispatched(chunk))
            /\ UNCHANGED <<far, sent, up, output>>
  BY DEF ReadNeighbor, senderVars, listenerVars
<1>1. PICK chunk \in Chunks(hops[i]) :
            /\ hops' = IF chunk = hops[i] THEN RemoveAt(hops, i) ELSE [hops EXCEPT ![i] = Rest(hops[i], chunk)]
            /\ cuts' = cuts + Cut(chunk)
            /\ DeliverToHost(Dispatched(chunk))
            /\ UNCHANGED <<far, sent, up, output>>
  BY <1>0
<1>2. hops \in Seq(Seq(Chars)) /\ cuts \in 0 .. MaxCuts /\ Len(hops) \in Nat /\ DOMAIN hops = 1 .. Len(hops)
  BY LenProperties DEF TypeInv, TypeOK, Streams
<1>3. far /\ far'
  <2>1. hops # << >>
    BY <1>2, EmptySeq
  <2> QED
    BY <1>1, <2>1 DEF Origins
<1> SUFFICES ASSUME cuts' = 0, ~ missed', NEW v \in Seq(Chars)
             PROVE  (InFile(v) + OnWay(v))' = (Count(Gots, v))'
  BY <1>3 DEF Accounts
<1>4. PICK s : s = hops[i]
  OBVIOUS
<1>5. s \in Seq(Chars) /\ chunk \in Chunks(s) /\ OneLine(s) /\ Whole(s)
  BY <1>1, <1>2, <1>4, ElementOfSeq DEF OneLines, TypeInv, Streams
<1>6. cuts = 0 /\ Last(chunk) = "LF"
  BY <1>1, <1>5, UncutChunk
<1>7. PICK k \in 1 .. Len(s) : k < BufSize /\ chunk = SubSeq(s, 1, k)
  BY <1>2, <1>5, ChunkShape
<1>8. Len(s) \in Nat /\ k \in 0 .. Len(s) /\ Len(chunk) = k /\ chunk \in Seq(Chars) /\ \A q \in 1 .. k : chunk[q] = s[q]
  <2>1. Len(s) \in Nat /\ k \in 0 .. Len(s)
    BY <1>5, LenProperties
  <2> QED
    BY <1>5, <1>7, <2>1, Split
<1>9. chunk = s
  <2>1. chunk[k] = "LF"
    BY <1>6, <1>8 DEF Last
  <2>2. s[k] = "LF" /\ ~ (k \in 1 .. Len(s) - 1)
    BY <1>5, <1>8, <2>1 DEF OneLine
  <2>3. k = Len(s)
    BY <1>8, <2>2
  <2> QED
    BY <1>5, <1>8, <2>3, SeqEqual
<1>10. hops' = RemoveAt(hops, i)
  BY <1>1, <1>4, <1>9
<1>11. Len(s) < BufSize /\ s # << >> /\ Last(s) = "LF"
  <2>1. Len(s) = k /\ Len(s) # 0
    BY <1>8, <1>9
  <2> QED
    BY <1>5, <1>6, <1>7, <1>9, <2>1, EmptySeq
<1>12. DeliverToHost(Dispatched(s))
  BY <1>1, <1>9
<1>13. ~ missed /\ Messages(down') = Messages(down) \o Messages(s)
  BY <1>5, <1>11, <1>12, DeliveredMessages
<1>14. /\ output \in Seq(Seq(Chars)) /\ Messages(down) \in Seq(Seq(Chars)) /\ Messages(up) \in Seq(Seq(Chars))
       /\ OnHops \in Seq(Seq(Seq(Chars))) /\ DOMAIN OnHops = DOMAIN hops
  BY AccountTypes
<1>15. Messages(s) \in Seq(Seq(Chars)) /\ \E w : Messages(s) \in {<<w>>, << >>}
  <2> DEFINE t == SubSeq(s, 1, Len(s) - 1)
  <2>1. t \in Seq(Chars) /\ Len(t) = Len(s) - 1 /\ \A q \in 1 .. Len(s) - 1 : t[q] = s[q]
    <3>1. PICK m : m = Len(s) - 1
      OBVIOUS
    <3>2. s \in Seq(Chars) /\ m \in 0 .. Len(s)
      BY <1>5, <1>8, <3>1
    <3>3. /\ SubSeq(s, 1, m) \in Seq(Chars) /\ Len(SubSeq(s, 1, m)) = m
          /\ \A q \in 1 .. m : SubSeq(s, 1, m)[q] = s[q]
      BY <3>2, Split
    <3> QED
      BY <3>1, <3>3
  <2> HIDE DEF t
  <2>2. \A q \in 1 .. Len(t) : t[q] # "LF"
    BY <1>5, <2>1 DEF OneLine
  <2>3. Append(t, "LF") = s
    <3>1. "LF" \in Chars
      BY Characters
    <3>2. /\ Append(t, "LF") \in Seq(Chars) /\ Len(Append(t, "LF")) = Len(t) + 1
          /\ \A q \in 1 .. Len(t) : Append(t, "LF")[q] = t[q]
          /\ Append(t, "LF")[Len(t) + 1] = "LF"
      BY <2>1, <3>1, AppendProperties
    <3>3. PICK a : a = Append(t, "LF")
      OBVIOUS
    <3>4. /\ a \in Seq(Chars) /\ Len(a) = Len(s)
          /\ \A q \in 1 .. Len(s) - 1 : a[q] = s[q]
          /\ a[Len(s)] = "LF"
      BY <1>8, <2>1, <3>2, <3>3
    <3>5. s[Len(s)] = "LF"
      BY <1>11 DEF Last
    <3>6. \A q \in 1 .. Len(a) : a[q] = s[q]
      BY <1>8, <3>4, <3>5
    <3>7. a = s
      BY <1>5, <3>4, <3>6, SeqEqual
    <3> QED
      BY <3>3, <3>7
  <2>4. Messages(Append(t, "LF")) = IF Decode(t).type = "DATA" THEN <<Decode(t).data>> ELSE << >>
    BY <2>1, <2>2, OneMessage
  <2>5. Messages(s) \in Seq(Seq(Chars))
    BY <1>5, MessagesShape
  <2> QED
    BY <2>3, <2>4, <2>5
<1>16. Count(OnHops, <<v>>) = Count(OnHops', <<v>>) + Count(Messages(s), v) /\ Count(OnHops', <<v>>) \in Nat
  <2>1. Count(OnHops, <<v>>) = Count(RemoveAt(OnHops, i), <<v>>) + IF OnHops[i] = <<v>> THEN 1 ELSE 0
    <3>1. OnHops \in Seq(Seq(Seq(Chars))) /\ i \in DOMAIN OnHops
      BY <1>14
    <3> QED
      BY <3>1, CountRemoved
  <2>2. OnHops' = RemoveAt(OnHops, i) /\ RemoveAt(OnHops, i) \in Seq(Seq(Seq(Chars)))
    <3>1. /\ DOMAIN RemoveAt(hops, i) = 1 .. Len(hops) - 1
          /\ \A j \in 1 .. Len(hops) - 1 : RemoveAt(hops, i)[j] = hops[IF j < i THEN j ELSE j + 1]
      BY <1>2, RemoveAtProperties
    <3>2. /\ RemoveAt(OnHops, i) \in Seq(Seq(Seq(Chars)))
          /\ DOMAIN RemoveAt(OnHops, i) = 1 .. Len(OnHops) - 1 /\ Len(OnHops) \in Nat /\ DOMAIN OnHops = 1 .. Len(OnHops)
          /\ \A j \in 1 .. Len(OnHops) - 1 : RemoveAt(OnHops, i)[j] = OnHops[IF j < i THEN j ELSE j + 1]
      <4>1. OnHops \in Seq(Seq(Seq(Chars))) /\ i \in DOMAIN OnHops
        BY <1>14
      <4> QED
        BY <4>1, RemoveAtProperties
    <3>3. Len(OnHops) = Len(hops)
      BY <1>2, <1>14, <3>2
    <3>4. OnHops' = [j \in 1 .. Len(hops) - 1 |-> Messages(RemoveAt(hops, i)[j])]
      BY <1>10, <3>1 DEF OnHops
    <3>5. \A j \in 1 .. Len(hops) - 1 : (IF j < i THEN j ELSE j + 1) \in DOMAIN hops
      BY <1>2
    <3>6. \A j \in DOMAIN hops : OnHops[j] = Messages(hops[j])
      BY DEF OnHops
    <3>7. \A j \in 1 .. Len(hops) - 1 : RemoveAt(OnHops, i)[j] = Messages(RemoveAt(hops, i)[j])
      <4> TAKE j \in 1 .. Len(hops) - 1
      <4>1. PICK l : l = IF j < i THEN j ELSE j + 1
        OBVIOUS
      <4>2. l \in DOMAIN hops /\ RemoveAt(OnHops, i)[j] = OnHops[l] /\ RemoveAt(hops, i)[j] = hops[l]
        BY <3>1, <3>2, <3>3, <3>5, <4>1
      <4> QED
        BY <3>6, <4>2
    <3>8. PICK r : r = RemoveAt(OnHops, i)
      OBVIOUS
    <3>9. r = [j \in 1 .. Len(hops) - 1 |-> r[j]]
      BY <3>2, <3>3, <3>8, LenProperties
    <3> QED
      BY <3>2, <3>4, <3>7, <3>8, <3>9
  <2>3. OnHops[i] = Messages(s)
    BY <1>4 DEF OnHops
  <2>4. Count(Messages(s), v) = IF Messages(s) = <<v>> THEN 1 ELSE 0
    <3>1. PICK w : Messages(s) \in {<<w>>, << >>}
      BY <1>15
    <3>2. CASE Messages(s) = << >>
      BY <3>2, CountNone
    <3>3. CASE Messages(s) = <<w>>
      <4>1. Count(<<w>>, v) = IF w = v THEN 1 ELSE 0
        BY CountOne
      <4>2. <<w>> = <<v>> <=> w = v
        OBVIOUS
      <4> QED
        BY <3>3, <4>1, <4>2
    <3> QED
      BY <3>1, <3>2, <3>3
  <2>5. Count(RemoveAt(OnHops, i), <<v>>) \in Nat
    BY <2>2, CountType
  <2> QED
    BY <2>1, <2>2, <2>3, <2>4, <2>5
<1>17. Count(Messages(down'), v) = Count(Messages(down), v) + Count(Messages(s), v)
  <2>1. Count(Messages(down) \o Messages(s), v) = Count(Messages(down), v) + Count(Messages(s), v)
    BY <1>14, <1>15, CountJoined
  <2> QED
    BY <1>13, <2>1
<1>18. Count(output, v) + (Count(Messages(down), v) + Count(OnHops, <<v>>) + Count(Messages(up), v)) = Count(Gots, v)
  BY <1>3, <1>6, <1>13 DEF Accounts, InFile, OnWay
<1>19. /\ Count(output, v) \in Nat /\ Count(Messages(down), v) \in Nat /\ Count(Messages(s), v) \in Nat
       /\ Count(Messages(up), v) \in Nat
  BY <1>14, <1>15, CountType
<1>20. Gots' = Gots
  BY <1>1 DEF Gots
<1>21. Count(output, v) + (Count(Messages(down'), v) + Count(OnHops', <<v>>) + Count(Messages(up), v)) = Count(Gots, v)
  BY <1>16, <1>17, <1>18, <1>19
<1> QED
  BY <1>1, <1>20, <1>21 DEF InFile, OnWay

-----------------------------------------------------------------------------
(* The lines of a text, and how sendFile takes them.                        *)

\* What fgets and strcspn leave of a line.
Shown(line)     == WithoutEnd(Before(line, "NUL"))
ShownAll(lines) == [j \in DOMAIN lines |-> Shown(lines[j])]

\* What is left to send of a text, as lines with their ends.
Closed(text)    == IF text = << >> THEN << >> ELSE Ended(text)
SentLines(text) == ShownAll(Lines(Closed(text)))
NoneLong(text)  == \A l \in ToSet(Lines(Closed(text))) : ~ IsLong(l)

\* It has no NUL.
LEMMA ShownShape ==
    ASSUME NEW S, NEW line \in Seq(S)
    PROVE  /\ Shown(line) \in Seq(S)
           /\ \A i \in 1 .. Len(Shown(line)) : Shown(line)[i] # "NUL"
           /\ (\A i \in 1 .. Len(line) : line[i] # "LF") => \A i \in 1 .. Len(Shown(line)) : Shown(line)[i] # "LF"
           /\ Shown(line) = << >> \/ Kept(Shown(line)[Len(Shown(line))])
<1> DEFINE b == Before(line, "NUL")
<1>1. /\ b \in Seq(S) /\ Len(b) \in Nat /\ Len(line) \in Nat
      /\ \A i \in 1 .. Len(b) : b[i] # "NUL" /\ \E j \in 1 .. Len(line) : b[i] = line[j]
  <2>0. Len(line) \in Nat
    BY LenProperties
  <2>1. CASE \A i \in 1 .. Len(line) : line[i] # "NUL"
    <3>1. b = line
      BY <2>1, NoPlace
    <3> QED
      BY <2>0, <2>1, <3>1
  <2>2. CASE \E k \in 1 .. Len(line) : line[k] = "NUL"
    <3>1. PICK at \in 1 .. Len(line) : line[at] = "NUL" /\ \A i \in 1 .. at - 1 : line[i] # "NUL"
      BY <2>2, HasFirstPlace
    <3>2. b = SubSeq(line, 1, at - 1)
      BY <3>1, FirstPlace
    <3>3. PICK m \in 0 .. Len(line) : m = at - 1
      BY <2>0
    <3> HIDE DEF b
    <3>4. b \in Seq(S) /\ Len(b) = at - 1 /\ \A i \in 1 .. at - 1 : b[i] = line[i]
      <4>1. b = SubSeq(line, 1, m)
        BY <3>2, <3>3
      <4>2. SubSeq(line, 1, m) \in Seq(S) /\ Len(SubSeq(line, 1, m)) = m /\ \A i \in 1 .. m : SubSeq(line, 1, m)[i] = line[i]
        BY Split
      <4> QED
        BY <3>3, <4>1, <4>2
    <3>5. \A i \in 1 .. at - 1 : i \in 1 .. Len(line)
      BY <2>0
    <3> QED
      BY <2>0, <3>1, <3>3, <3>4, <3>5
  <2> QED
    BY <2>1, <2>2
<1> HIDE DEF b
<1>2. PICK n \in 0 .. Len(b) : WithoutEnd(b) = SubSeq(b, 1, n) /\ (n = 0 \/ Kept(b[n]))
  <2>1. b \in Seq(S)
    BY <1>1
  <2> QED
    BY <2>1, WithoutEndExact
<1> DEFINE s == WithoutEnd(b)
<1>3. s \in Seq(S) /\ Len(s) = n /\ \A i \in 1 .. n : s[i] = b[i]
  <2>1. b \in Seq(S)
    BY <1>1
  <2> QED
    BY <1>2, <2>1, Split
<1> HIDE DEF s
<1>4. \A i \in 1 .. n : i \in 1 .. Len(b)
  BY <1>1
<1>5. n # 0 => n \in 1 .. n
  BY <1>1
<1>6. s = << >> \/ Kept(s[n])
  <2>1. CASE n = 0
    BY <1>3, <2>1, EmptySeq
  <2>2. CASE n # 0
    BY <1>2, <1>3, <1>5, <2>2
  <2> QED
    BY <2>1, <2>2
<1>7. \A i \in 1 .. n : s[i] # "NUL" /\ \E j \in 1 .. Len(line) : s[i] = line[j]
  BY <1>1, <1>3, <1>4
<1>8. Shown(line) = s
  BY DEF Shown, s, b
<1> QED
  BY <1>3, <1>6, <1>7, <1>8

\* The line end itself makes no difference.
LEMMA ShownEnded ==
    ASSUME NEW S, "LF" \in S, NEW line \in Seq(S)
    PROVE  Shown(Append(line, "LF")) = Shown(line)
<1> DEFINE a == Append(line, "LF")
           n == Len(line)
<1>1. /\ a \in Seq(S) /\ Len(a) = n + 1 /\ n \in Nat
      /\ \A i \in 1 .. n : a[i] = line[i]
      /\ a[n + 1] = "LF"
  BY AppendProperties, LenProperties
<1> HIDE DEF a, n
<1>2. CASE \A i \in 1 .. n : line[i] # "NUL"
  <2>1. Before(line, "NUL") = line
    BY <1>2, NoPlace DEF n
  <2>2. \A i \in 1 .. Len(a) : a[i] # "NUL"
    BY <1>1, <1>2
  <2>3. a \in Seq(S)
    BY <1>1
  <2>4. Before(a, "NUL") = a
    BY <2>2, <2>3, NoPlace
  <2>5. PICK m \in 0 .. Len(line) : /\ WithoutEnd(line) = SubSeq(line, 1, m) /\ (m = 0 \/ Kept(line[m]))
                                    /\ \A i \in m + 1 .. Len(line) : ~ Kept(line[i])
    BY WithoutEndExact
  <2>6. m \in 0 .. Len(a) /\ (m = 0 \/ Kept(a[m])) /\ \A i \in m + 1 .. Len(a) : ~ Kept(a[i])
    <3>1. ~ Kept("LF")
      BY DEF Kept, LineEnds
    <3>2. m \in 0 .. n /\ \A i \in m + 1 .. n : ~ Kept(line[i])
      BY <2>5 DEF n
    <3>3. m # 0 => m \in 1 .. n
      BY <1>1, <3>2
    <3>4. ASSUME NEW i \in m + 1 .. Len(a)
          PROVE  ~ Kept(a[i])
      <4>1. i = n + 1 \/ (i \in m + 1 .. n /\ i \in 1 .. n)
        BY <1>1, <3>2
      <4> QED
        BY <1>1, <3>1, <3>2, <4>1
    <3> QED
      BY <1>1, <2>5, <3>2, <3>3, <3>4
  <2>7. WithoutEnd(a) = SubSeq(a, 1, m)
    BY <2>3, <2>6, WithoutEndIs
  <2>8. SubSeq(a, 1, m) = SubSeq(line, 1, m)
    <3> DEFINE u == SubSeq(a, 1, m)
               w == SubSeq(line, 1, m)
    <3>1. u \in Seq(S) /\ Len(u) = m /\ \A i \in 1 .. m : u[i] = a[i]
      BY <2>3, <2>6, Split
    <3>2. w \in Seq(S) /\ Len(w) = m /\ \A i \in 1 .. m : w[i] = line[i]
      BY <2>5, Split
    <3> HIDE DEF u, w
    <3>3. \A i \in 1 .. m : i \in 1 .. n
      BY <1>1, <2>5 DEF n
    <3>4. u = w
      BY <1>1, <3>1, <3>2, <3>3, SeqEqual
    <3> QED
      BY <3>4 DEF u, w
  <2> QED
    BY <2>1, <2>4, <2>5, <2>7, <2>8 DEF Shown, a
<1>3. CASE \E i \in 1 .. n : line[i] = "NUL"
  <2>1. PICK at \in 1 .. n : line[at] = "NUL" /\ \A i \in 1 .. at - 1 : line[i] # "NUL"
    BY <1>3, HasFirstPlace DEF n
  <2>2. Before(line, "NUL") = SubSeq(line, 1, at - 1)
    BY <2>1, FirstPlace DEF n
  <2>3. a \in Seq(S) /\ at \in 1 .. Len(a) /\ a[at] = "NUL" /\ \A i \in 1 .. at - 1 : a[i] # "NUL"
    <3>1. at \in 1 .. Len(a) /\ \A i \in 1 .. at - 1 : i \in 1 .. n
      BY <1>1
    <3> QED
      BY <1>1, <2>1, <3>1
  <2>4. Before(a, "NUL") = SubSeq(a, 1, at - 1)
    BY <2>3, FirstPlace
  <2>5. SubSeq(a, 1, at - 1) = SubSeq(line, 1, at - 1)
    <3> DEFINE u == SubSeq(a, 1, at - 1)
               w == SubSeq(line, 1, at - 1)
    <3>0. at - 1 \in 0 .. Len(a) /\ at - 1 \in 0 .. Len(line)
      BY <1>1, <2>1 DEF n
    <3>1. PICK k : k = at - 1
      OBVIOUS
    <3>2. a \in Seq(S) /\ k \in 0 .. Len(a) /\ k \in 0 .. Len(line)
      BY <2>3, <3>0, <3>1
    <3>3. u \in Seq(S) /\ Len(u) = at - 1 /\ \A i \in 1 .. at - 1 : u[i] = a[i]
      <4>1. SubSeq(a, 1, k) \in Seq(S) /\ Len(SubSeq(a, 1, k)) = k /\ \A i \in 1 .. k : SubSeq(a, 1, k)[i] = a[i]
        BY <3>2, Split
      <4> QED
        BY <3>1, <4>1
    <3>4. w \in Seq(S) /\ Len(w) = at - 1 /\ \A i \in 1 .. at - 1 : w[i] = line[i]
      <4>1. /\ SubSeq(line, 1, k) \in Seq(S) /\ Len(SubSeq(line, 1, k)) = k
            /\ \A i \in 1 .. k : SubSeq(line, 1, k)[i] = line[i]
        BY <3>2, Split
      <4> QED
        BY <3>1, <4>1
    <3> HIDE DEF u, w
    <3>5. \A i \in 1 .. at - 1 : i \in 1 .. n
      BY <1>1
    <3>6. u = w
      BY <1>1, <3>3, <3>4, <3>5, SeqEqual
    <3> QED
      BY <3>6 DEF u, w
  <2> QED
    BY <2>2, <2>4, <2>5 DEF Shown, a
<1> QED
  BY <1>2, <1>3

\* What sendFile sends of a line arrives as it was sent.
LEMMA GotShown ==
    ASSUME NEW S, NEW line \in Seq(S), \A i \in 1 .. Len(line) : line[i] # "LF"
    PROVE  Got(Shown(line)) = Shown(line)
<1> DEFINE s == Shown(line)
<1>1. s \in Seq(S) /\ (\A i \in 1 .. Len(s) : s[i] # "LF") /\ (s = << >> \/ Kept(s[Len(s)]))
  BY ShownShape
<1> HIDE DEF s
<1>2. s \in Seq(S) /\ \A i \in 1 .. Len(s) : s[i] # "LF"
  BY <1>1
<1>3. Before(s, "LF") = s
  BY <1>2, NoPlace
<1>4. Len(s) \in Nat /\ Len(s) \in 0 .. Len(s) /\ (Len(s) = 0 \/ Kept(s[Len(s)])) /\ \A i \in Len(s) + 1 .. Len(s) : ~ Kept(s[i])
  <2>1. Len(s) \in Nat
    BY <1>2, LenProperties
  <2>2. s = << >> => Len(s) = 0
    BY EmptySeq
  <2> QED
    BY <1>1, <2>1, <2>2
<1>5. WithoutEnd(s) = SubSeq(s, 1, Len(s))
  BY <1>2, <1>4, WithoutEndIs
<1>6. SubSeq(s, 1, Len(s)) = s
  <2> DEFINE w == SubSeq(s, 1, Len(s))
  <2>1. w \in Seq(S) /\ Len(w) = Len(s) /\ \A i \in 1 .. Len(s) : w[i] = s[i]
    BY <1>2, <1>4, Split
  <2> HIDE DEF w
  <2>2. w = s
    BY <1>2, <2>1, SeqEqual
  <2> QED
    BY <2>2 DEF w
<1> QED
  BY <1>3, <1>5, <1>6 DEF Got, s

\* The lines of a text that begins with a line.
LineThen(l, rest) == Append(l, "LF") \o rest

\* That line comes first, and the others after it.
LEMMA FirstLine ==
    ASSUME NEW S, "LF" \in S, NEW l \in Seq(S), \A i \in 1 .. Len(l) : l[i] # "LF", NEW r \in Seq(S),
           NEW text, text = LineThen(l, r)
    PROVE  /\ Lines(text) = Then(<<l>>, Lines(r))
           /\ ShownAll(Lines(text)) = Then(<<Shown(l)>>, ShownAll(Lines(r)))
           /\ l \in ToSet(Lines(text)) /\ \A x \in ToSet(Lines(r)) : x \in ToSet(Lines(text))
<1> DEFINE a == Append(l, "LF")
           n == Len(Lines(r))
           c == <<l>> \o Lines(r)
<1>1. a \in Seq(S) /\ Whole(a)
  <2>1. a \in Seq(S) /\ Len(a) = Len(l) + 1 /\ a[Len(l) + 1] = "LF"
    BY AppendProperties
  <2> QED
    BY <2>1 DEF Whole
<1>2. Lines(a) = <<l>>
  BY LinesOne
<1> HIDE DEF a
<1>3. Lines(a \o r) = Lines(a) \o Lines(r)
  BY <1>1, LinesJoined
<1>4. Lines(a \o r) = c
  BY <1>2, <1>3
<1>5. Lines(r) \in Seq(Seq(S)) /\ n \in Nat /\ DOMAIN Lines(r) = 1 .. n
  <2>1. Lines(r) \in Seq(Seq(S))
    BY LinesShape
  <2> QED
    BY <2>1, LenProperties
<1>6. /\ c \in Seq(Seq(S)) /\ Len(c) = n + 1 /\ c[1] = l /\ DOMAIN c = 1 .. n + 1
      /\ \A i \in 1 .. n : c[1 + i] = Lines(r)[i]
  <2>1. PICK e, w : e = <<l>> /\ w = Lines(r)
    OBVIOUS
  <2>2. e \in Seq(Seq(S)) /\ w \in Seq(Seq(S)) /\ Len(e) = 1 /\ e[1] = l
    BY <1>5, <2>1
  <2>3. /\ e \o w \in Seq(Seq(S)) /\ Len(e \o w) = Len(e) + Len(w)
        /\ \A i \in 1 .. Len(e) : (e \o w)[i] = e[i]
        /\ \A i \in 1 .. Len(w) : (e \o w)[Len(e) + i] = w[i]
    <3>1. e \in Seq(Seq(S)) /\ w \in Seq(Seq(S))
      BY <2>2
    <3> QED
      BY <3>1, Joined
  <2>4. c = e \o w
    BY <2>1
  <2> HIDE DEF c
  <2>5. c \in Seq(Seq(S)) /\ Len(c) = n + 1 /\ c[1] = l /\ \A i \in 1 .. n : c[1 + i] = Lines(r)[i]
    BY <1>5, <2>1, <2>2, <2>3, <2>4
  <2> QED
    BY <2>5, LenProperties
<1> HIDE DEF c, n
<1> DEFINE d == <<Shown(l)>> \o ShownAll(Lines(r))
<1>7. /\ d \in Seq(Seq(S)) /\ Len(d) = n + 1 /\ d[1] = Shown(l) /\ DOMAIN d = 1 .. n + 1
      /\ \A i \in 1 .. n : d[1 + i] = Shown(Lines(r)[i])
  <2>1. PICK e, w : e = <<Shown(l)>> /\ w = ShownAll(Lines(r))
    OBVIOUS
  <2>2. w \in Seq(Seq(S)) /\ Len(w) = n /\ \A i \in 1 .. n : w[i] = Shown(Lines(r)[i])
    <3>1. w = [j \in 1 .. n |-> Shown(Lines(r)[j])]
      BY <1>5, <2>1 DEF ShownAll
    <3>2. \A j \in 1 .. n : Lines(r)[j] \in Seq(S)
      BY <1>5, ElementOfSeq DEF n
    <3>3. \A j \in 1 .. n : Shown(Lines(r)[j]) \in Seq(S)
      BY <3>2, ShownShape
    <3> QED
      BY <1>5, <3>1, <3>3
  <2>3. e \in Seq(Seq(S)) /\ Len(e) = 1 /\ e[1] = Shown(l)
    <3>1. Shown(l) \in Seq(S)
      BY ShownShape
    <3> QED
      BY <2>1, <3>1
  <2>4. /\ e \o w \in Seq(Seq(S)) /\ Len(e \o w) = Len(e) + Len(w)
        /\ \A i \in 1 .. Len(e) : (e \o w)[i] = e[i]
        /\ \A i \in 1 .. Len(w) : (e \o w)[Len(e) + i] = w[i]
    <3>1. e \in Seq(Seq(S)) /\ w \in Seq(Seq(S))
      BY <2>2, <2>3
    <3> QED
      BY <3>1, Joined
  <2>5. d = e \o w
    BY <2>1
  <2> HIDE DEF d
  <2>6. d \in Seq(Seq(S)) /\ Len(d) = n + 1 /\ d[1] = Shown(l) /\ \A i \in 1 .. n : d[1 + i] = Shown(Lines(r)[i])
    BY <1>5, <2>2, <2>3, <2>4, <2>5
  <2> QED
    BY <2>6, LenProperties
<1> HIDE DEF d
<1>8. \A i \in 1 .. n + 1 : i = 1 \/ (i - 1 \in 1 .. n /\ 1 + (i - 1) = i)
  BY <1>5
<1>9. \A i \in 1 .. n + 1 : Shown(c[i]) = d[i]
  <2> TAKE i \in 1 .. n + 1
  <2>1. CASE i = 1
    BY <1>6, <1>7, <2>1
  <2>2. CASE i # 1
    <3>1. PICK k \in 1 .. n : 1 + k = i
      BY <1>8, <2>2
    <3> QED
      BY <1>6, <1>7, <3>1
  <2> QED
    BY <2>1, <2>2
<1>10. ShownAll(c) = d
  <2>1. d = [i \in 1 .. n + 1 |-> d[i]]
    BY <1>7
  <2>2. ShownAll(c) = [i \in 1 .. n + 1 |-> Shown(c[i])]
    BY <1>6 DEF ShownAll
  <2> QED
    BY <1>9, <2>1, <2>2
<1>11. ToSet(c) = {l} \cup ToSet(Lines(r))
  <2>1. ToSet(c) = {c[i] : i \in 1 .. n + 1} /\ ToSet(Lines(r)) = {Lines(r)[i] : i \in 1 .. n}
    BY <1>5, <1>6 DEF ToSet
  <2>2. ASSUME NEW x \in ToSet(c)
        PROVE  x \in {l} \cup ToSet(Lines(r))
    <3>1. PICK i \in 1 .. n + 1 : x = c[i]
      BY <2>1
    <3>2. CASE i = 1
      BY <1>6, <3>1, <3>2
    <3>3. CASE i # 1
      <4>1. PICK k \in 1 .. n : 1 + k = i
        BY <1>8, <3>3
      <4> QED
        BY <1>6, <2>1, <3>1, <4>1
    <3> QED
      BY <3>2, <3>3
  <2>3. l \in ToSet(c)
    <3>1. 1 \in 1 .. n + 1
      BY <1>5
    <3> QED
      BY <1>6, <2>1, <3>1
  <2>4. ASSUME NEW x \in ToSet(Lines(r))
        PROVE  x \in ToSet(c)
    <3>1. PICK i \in 1 .. n : x = Lines(r)[i]
      BY <2>1
    <3>2. 1 + i \in 1 .. n + 1 /\ x = c[1 + i]
      BY <1>5, <1>6, <3>1
    <3> QED
      BY <2>1, <3>2
  <2> QED
    BY <2>2, <2>3, <2>4
<1> QED
  BY <1>4, <1>10, <1>11 DEF a, c, d, Then, LineThen

\* The least number of a set.
LEMMA MinIs ==
    ASSUME NEW E \in SUBSET Int, NEW m \in E, \A y \in E : m <= y
    PROVE  Min(E) = m
<1>1. \A x, y \in Int : x <= y /\ y <= x => x = y
  OBVIOUS
<1> QED
  BY <1>1 DEF Min

\* The whole of a sequence as a part of it.
LEMMA WholeSubSeq ==
    ASSUME NEW S, NEW s \in Seq(S)
    PROVE  SubSeq(s, 1, Len(s)) = s
<1> DEFINE w == SubSeq(s, 1, Len(s))
<1>1. Len(s) \in 0 .. Len(s)
  BY LenProperties
<1>2. w \in Seq(S) /\ Len(w) = Len(s) /\ \A i \in 1 .. Len(s) : w[i] = s[i]
  BY <1>1, Split
<1> HIDE DEF w
<1>3. w = s
  BY <1>2, SeqEqual
<1> QED
  BY <1>3 DEF w

\* A line end makes no difference to what precedes the last line.
LEMMA ClosedJoined ==
    ASSUME NEW S, "LF" \in S, NEW l \in Seq(S), NEW r \in Seq(S)
    PROVE  Closed(Append(l, "LF") \o r) = Append(l, "LF") \o Closed(r)
<1> DEFINE a == Append(l, "LF")
           t == a \o r
<1>1. a \in Seq(S) /\ Len(a) = Len(l) + 1 /\ Len(l) \in Nat /\ a[Len(a)] = "LF"
  BY AppendProperties, LenProperties
<1> HIDE DEF a
<1>2. /\ t \in Seq(S) /\ Len(r) \in Nat /\ Len(t) = Len(a) + Len(r)
      /\ \A i \in 1 .. Len(a) : t[i] = a[i]
      /\ \A i \in 1 .. Len(r) : t[Len(a) + i] = r[i]
  <2>1. a \in Seq(S)
    BY <1>1
  <2> QED
    BY <2>1, Joined
<1> HIDE DEF t
<1>3. t # << >>
  <2>1. Len(t) # 0
    BY <1>1, <1>2
  <2> QED
    BY <2>1, EmptySeq
<1>4. CASE r = << >>
  <2>1. t = a
    <3>1. a \in Seq(S)
      BY <1>1
    <3>2. a \o << >> = a
      BY <3>1, ConcatEmptySeq
    <3> QED
      BY <1>4, <3>2 DEF t
  <2>2. Closed(t) = t
    BY <1>1, <1>3, <2>1 DEF Closed, Ended, Last
  <2> QED
    BY <1>4, <2>2 DEF Closed, t, a
<1>5. CASE r # << >>
  <2>1. Len(r) \in 1 .. Len(r)
    <3>1. Len(r) # 0
      BY <1>5, EmptySeq
    <3> QED
      BY <1>2, <3>1
  <2>2. t[Len(t)] = r[Len(r)]
    BY <1>2, <2>1
  <2>3. CASE r[Len(r)] = "LF"
    <3>1. Closed(t) = t /\ Closed(r) = r
      BY <1>3, <1>5, <2>2, <2>3 DEF Closed, Ended, Last
    <3> QED
      BY <3>1 DEF t, a
  <2>4. CASE r[Len(r)] # "LF"
    <3>1. Closed(t) = Append(t, "LF") /\ Closed(r) = Append(r, "LF")
      BY <1>3, <1>5, <2>2, <2>4 DEF Closed, Ended, Last
    <3>2. PICK b : b = <<"LF">>
      OBVIOUS
    <3>3. Append(t, "LF") = t \o b /\ Append(r, "LF") = r \o b
      BY <1>2, <3>2, AppendIsConcat
    <3>4. a \in Seq(S) /\ b \in Seq(S)
      BY <1>1, <3>2
    <3>5. Then(Then(a, r), b) = Then(a, Then(r, b))
      <4>1. (a \o r) \o b = a \o (r \o b)
        BY <3>4, ConcatAssociative
      <4> QED
        BY <4>1 DEF Then
    <3>6. PICK u : u = r \o b
      OBVIOUS
    <3>7. t \o b = a \o u
      <4>1. Then(a, r) = t /\ Then(r, b) = u
        BY <3>6 DEF Then, t
      <4>2. Then(t, b) = Then(a, u)
        BY <3>5, <4>1
      <4> QED
        BY <4>2 DEF Then
    <3>8. Closed(t) = a \o Closed(r)
      BY <3>1, <3>3, <3>6, <3>7
    <3> QED
      BY <3>8 DEF t, a
  <2> QED
    BY <2>3, <2>4
<1> QED
  BY <1>4, <1>5

\* What the first line of a text is to the rest.
LEMMA LinesSent ==
    ASSUME NEW S, "LF" \in S, NEW l \in Seq(S), \A i \in 1 .. Len(l) : l[i] # "LF", NEW r \in Seq(S),
           NEW text, Closed(text) = Append(l, "LF") \o Closed(r), NoneLong(text)
    PROVE  ~ IsLong(l) /\ NoneLong(r) /\ SentLines(text) = <<Shown(l)>> \o SentLines(r)
<1>1. PICK c : c = Closed(r)
  OBVIOUS
<1>2. c \in Seq(S)
  <2>1. Append(r, "LF") \in Seq(S)
    BY AppendProperties
  <2> QED
    BY <1>1, <2>1 DEF Closed, Ended
<1>3. PICK t : t = Closed(text)
  OBVIOUS
<1>4. t = LineThen(l, c)
  BY <1>1, <1>3 DEF LineThen
<1>5. /\ Lines(t) = Then(<<l>>, Lines(c))
      /\ ShownAll(Lines(t)) = Then(<<Shown(l)>>, ShownAll(Lines(c)))
      /\ l \in ToSet(Lines(t)) /\ \A x \in ToSet(Lines(c)) : x \in ToSet(Lines(t))
  BY <1>2, <1>4, FirstLine
<1> QED
  BY <1>1, <1>3, <1>5 DEF NoneLong, SentLines, Then

\* A turn of the loop of sendFile takes a line, when none is long.
LEMMA LineTaken ==
    ASSUME NEW S, "LF" \in S, NEW text \in Seq(S), text # << >>, NoneLong(text),
           NEW n, n = Min({Len(text), MaxLine - 1} \cup {i \in DOMAIN text : text[i] = "LF"})
    PROVE  \E l \in Seq(S) :
              /\ \A i \in 1 .. Len(l) : l[i] # "LF"
              /\ Closed(text) = Append(l, "LF") \o Closed(SubSeq(text, n + 1, Len(text)))
              /\ Shown(SubSeq(text, 1, n)) = Shown(l)
<1> DEFINE E == {Len(text), MaxLine - 1} \cup {i \in DOMAIN text : text[i] = "LF"}
           N == Len(text)
<1>1. N \in Nat \ {0} /\ DOMAIN text = 1 .. N /\ MaxLine \in Nat
  BY LenProperties, EmptySeq, FileRelayAssumption
<1>2. E \in SUBSET Int
  BY <1>1
<1>3. CASE \E i \in 1 .. N : text[i] = "LF"
  <2>1. PICK p \in 1 .. N : text[p] = "LF" /\ \A i \in 1 .. p - 1 : text[i] # "LF"
    <3>1. \A i \in 1 .. N : i \in 1 .. Len(text)
      OBVIOUS
    <3> QED
      BY <1>3, HasFirstPlace
  <2> DEFINE l == SubSeq(text, 1, p - 1)
             c == SubSeq(text, 1, p)
             r == SubSeq(text, p + 1, N)
             a == Append(l, "LF")
  <2>2. p - 1 \in 0 .. N /\ p \in 0 .. N
    BY <1>1
  <2>3. l \in Seq(S) /\ Len(l) = p - 1 /\ \A i \in 1 .. p - 1 : l[i] = text[i]
    BY <2>2, Split
  <2>4. /\ c \in Seq(S) /\ Len(c) = p /\ \A i \in 1 .. p : c[i] = text[i]
        /\ r \in Seq(S) /\ Len(r) = N - p /\ \A i \in 1 .. N - p : r[i] = text[p + i]
    <3>1. r = Rest(text, c)
      BY <2>2, Split DEF Rest
    <3> QED
      BY <2>2, <3>1, Split
  <2> HIDE DEF l
  <2>5. a \in Seq(S) /\ Len(a) = p /\ (\A i \in 1 .. p - 1 : a[i] = text[i]) /\ a[p] = "LF"
    <3>1. l \in Seq(S)
      BY <2>3
    <3>2. /\ a \in Seq(S) /\ Len(a) = Len(l) + 1
          /\ \A i \in 1 .. Len(l) : a[i] = l[i]
          /\ a[Len(l) + 1] = "LF"
      BY <3>1, AppendProperties
    <3> HIDE DEF a
    <3>3. Len(l) + 1 = p
      BY <2>2, <2>3
    <3> QED
      BY <2>3, <3>2, <3>3
  <2> HIDE DEF a, c, r
  <2>6. c = a
    <3>1. \A i \in 1 .. p : i = p \/ i \in 1 .. p - 1
      OBVIOUS
    <3>2. \A i \in 1 .. p : c[i] = a[i]
      BY <2>1, <2>4, <2>5, <3>1
    <3> QED
      BY <2>4, <2>5, <3>2, SeqEqual
  <2>7. text = a \o r
    <3> DEFINE t == a \o r
    <3>1. /\ t \in Seq(S) /\ Len(t) = Len(a) + Len(r)
          /\ \A i \in 1 .. Len(a) : t[i] = a[i]
          /\ \A i \in 1 .. Len(r) : t[Len(a) + i] = r[i]
      <4>1. a \in Seq(S) /\ r \in Seq(S)
        BY <2>4, <2>5
      <4> QED
        BY <4>1, Joined
    <3> HIDE DEF t
    <3>2. Len(t) = N
      BY <1>1, <2>4, <2>5, <3>1
    <3>3. \A i \in 1 .. p : a[i] = text[i]
      BY <2>4, <2>6
    <3>4. ASSUME NEW i \in 1 .. N
          PROVE  t[i] = text[i]
      <4>1. CASE i <= p
        <5>1. i \in 1 .. p
          BY <4>1
        <5> QED
          BY <2>5, <3>1, <3>3, <5>1
      <4>2. CASE ~ (i <= p)
        <5>1. i - p \in 1 .. N - p /\ p + (i - p) = i
          BY <1>1, <4>2
        <5>2. t[p + (i - p)] = r[i - p] /\ r[i - p] = text[p + (i - p)]
          BY <2>4, <2>5, <3>1, <5>1
        <5> QED
          BY <5>1, <5>2
      <4> QED
        BY <4>1, <4>2
    <3>5. t = text
      BY <3>1, <3>2, <3>4, SeqEqual
    <3> QED
      BY <3>5 DEF t
  <2>8. l \in Seq(S) /\ r \in Seq(S) /\ \A i \in 1 .. Len(l) : l[i] # "LF"
    BY <2>1, <2>3, <2>4
  <2>9. Closed(text) = a \o Closed(r)
    BY <2>7, <2>8, ClosedJoined DEF a
  <2>10. Closed(text) = Append(l, "LF") \o Closed(r)
    BY <2>9 DEF a
  <2>11. ~ IsLong(l)
    <3>1. l \in Seq(S) /\ (\A i \in 1 .. Len(l) : l[i] # "LF") /\ r \in Seq(S)
      BY <2>8
    <3> QED
      BY <2>10, <3>1, LinesSent
  <2>12. p <= MaxLine - 1
    <3>1. ~ (Len(l) + 1 > MaxLine - 1)
      BY <2>11 DEF IsLong
    <3> QED
      BY <1>1, <2>3, <3>1
  <2>13. n = p
    <3>1. p \in E /\ p <= N
      <4>1. p \in DOMAIN text /\ text[p] = "LF"
        BY <1>1, <2>1
      <4>2. p <= N
        BY <1>1
      <4> QED
        BY <4>1, <4>2
    <3>2. ASSUME NEW i \in 1 .. N, text[i] = "LF"
          PROVE  p <= i
      <4>1. ~ (i \in 1 .. p - 1)
        BY <2>1, <3>2
      <4> QED
        BY <4>1
    <3>3. \A y \in E : p <= y
      BY <1>1, <2>12, <3>1, <3>2
    <3> HIDE DEF E
    <3>4. Min(E) = p
      BY <1>2, <3>1, <3>3, MinIs
    <3> QED
      BY <3>4 DEF E
  <2>14. Shown(a) = Shown(l)
    BY <2>8, ShownEnded DEF a
  <2> QED
    BY <2>6, <2>8, <2>9, <2>13, <2>14 DEF a, c, r
<1>4. CASE \A i \in 1 .. N : text[i] # "LF"
  <2>1. Closed(text) = Append(text, "LF")
    <3>1. N \in 1 .. N
      BY <1>1
    <3>2. Last(text) # "LF"
      BY <1>4, <3>1 DEF Last
    <3> QED
      BY <3>2 DEF Closed, Ended
  <2>2. Lines(Closed(text)) = <<text>>
    BY <1>4, <2>1, LinesOne
  <2>3. N + 1 <= MaxLine - 1
    <3>1. text \in ToSet(Lines(Closed(text)))
      BY <2>2 DEF ToSet
    <3>2. ~ (N + 1 > MaxLine - 1)
      BY <3>1 DEF NoneLong, IsLong
    <3> QED
      BY <1>1, <3>2
  <2>4. n = N
    <3>1. N \in E /\ \A y \in E : N <= y
      BY <1>1, <1>4, <2>3
    <3> HIDE DEF E, N
    <3>2. Min(E) = N
      BY <1>2, <3>1, MinIs
    <3> QED
      BY <3>2 DEF E
  <2>5. SubSeq(text, n + 1, Len(text)) = << >>
    <3>1. N \in 0 .. Len(text)
      BY <1>1
    <3>2. Rest(text, SubSeq(text, 1, N)) \in Seq(S) /\ Len(Rest(text, SubSeq(text, 1, N))) = 0
      <4>1. /\ Rest(text, SubSeq(text, 1, N)) \in Seq(S)
            /\ Len(Rest(text, SubSeq(text, 1, N))) = Len(text) - N
        BY <3>1, Split
      <4> QED
        BY <1>1, <4>1
    <3>3. Rest(text, SubSeq(text, 1, N)) = SubSeq(text, n + 1, Len(text))
      <4>1. SubSeq(text, 1, N) = text
        BY WholeSubSeq
      <4> QED
        BY <2>4, <4>1 DEF Rest
    <3> QED
      BY <3>2, <3>3, EmptySeq
  <2>6. SubSeq(text, 1, n) = text
    BY <2>4, WholeSubSeq
  <2>7. Append(text, "LF") \o << >> = Append(text, "LF")
    <3>1. Append(text, "LF") \in Seq(S)
      BY AppendProperties
    <3> QED
      BY <3>1, ConcatEmptySeq
  <2>8. Closed(<< >>) = << >>
    BY DEF Closed
  <2> QED
    BY <1>4, <2>1, <2>5, <2>6, <2>7, <2>8
<1> QED
  BY <1>3, <1>4

-----------------------------------------------------------------------------
(* What the sender has still to send.                                       *)

\* An argument of a C program has no NUL.
Arguments == \A s \in Sources : s.kind = "message" => "NUL" \notin ToSet(s.text)

\* What was sent, and what is to be sent of unread, are together what is to be
\* sent of the file; a message is sent once; what cannot be opened is not sent.
Progress ==
    /\ source.kind = "file" /\ NoneLong(source.text) =>
          /\ result \in {"none", "sending"} => NoneLong(unread) /\ Gots \o SentLines(unread) = SentLines(source.text)
          /\ result = "ok" /\ source.dest \in Addresses => Gots = TextLines(source.text)
    /\ source.kind = "message" =>
          /\ result \in {"none", "sending"} => sent = << >>
          /\ result = "ok" => Gots = <<Got(source.text)>>
    /\ source.kind = "missing" => result # "ok"

\* Nothing moves.
LEMMA AccountKept ==
    ASSUME Accounts, UNCHANGED <<far, sent, up, hops, down, output, missed>>, cuts' = 0 => cuts = 0
    PROVE  Accounts'
<1>1. Gots' = Gots /\ OnHops' = OnHops
  BY DEF Gots, OnHops
<1> QED
  BY <1>1 DEF Accounts, InFile, OnWay

\* The sender does nothing.
LEMMA ProgressKept ==
    ASSUME Progress, UNCHANGED <<source, unread, sent, result>>
    PROVE  Progress'
<1>1. Gots' = Gots
  BY DEF Gots
<1> QED
  BY <1>1 DEF Progress

\* The reply to an ANNOUNCE has no messages.
LEMMA AccountReadListener ==
    ASSUME TypeInv, Accounts, ReadListener
    PROVE  Accounts'
<1>1. PICK chunk \in Chunks(hello) :
          /\ cuts' = cuts + Cut(chunk)
          /\ down' = down \o FlattenSeq(Replies(OfType(Dispatched(chunk), "ANNOUNCE")))
          /\ UNCHANGED <<far, sent, up, hops, output, missed>>
  BY ReadListenerStep DEF senderVars, listenerVars
<1> DEFINE replies == FlattenSeq(Replies(OfType(Dispatched(chunk), "ANNOUNCE")))
<1>2. down \in Seq(Chars) /\ Whole(down) /\ hello \in Seq(Chars)
  BY DEF TypeInv, Streams
<1>3. replies \in Seq(Chars) /\ Heads(replies) = {}
  <2>1. Dispatched(chunk) \in Seq(Seq(Chars))
    BY <1>1, <1>2, ChunkTypes
  <2>2. OfType(Dispatched(chunk), "ANNOUNCE") \in Seq(Seq(Chars))
    BY <2>1, OfTypeTexts
  <2> QED
    BY <2>2, ReplyTypes, RepliesHeadless
<1> HIDE DEF replies
<1>4. Messages(replies) = << >>
  BY <1>3, HeadlessMessages
<1>5. Messages(down \o replies) = Messages(down) \o Messages(replies)
  BY <1>2, <1>3, MessagesJoined
<1>6. Messages(down) \o << >> = Messages(down)
  <2>1. Messages(down) \in Seq(Seq(Chars))
    BY AccountTypes
  <2> QED
    BY <2>1, ConcatEmptySeq
<1>7. Messages(down') = Messages(down)
  BY <1>1, <1>4, <1>5, <1>6 DEF replies
<1>8. cuts' = 0 => cuts = 0
  BY <1>1, <1>2, UncutChunk
<1>9. Gots' = Gots /\ OnHops' = OnHops
  BY <1>1 DEF Gots, OnHops
<1> QED
  BY <1>1, <1>7, <1>8, <1>9 DEF Accounts, InFile, OnWay

\* A frame that is sent, or refused.
LEMMA AccountSendFrame ==
    ASSUME PlainTexts, TypeInv, Accounts,
           NEW text \in Seq(ToSet(source.text)), \A i \in 1 .. Len(text) : text[i] # "NUL",
           NEW then, SendFrame(text, then),
           UNCHANGED <<far, hops, down, output, cuts, missed>>
    PROVE  /\ Accounts'
           /\ \/ result' = "failed"
              \/ result' = then /\ Gots' = Gots \o <<Got(text)>>
<1> DEFINE frame == Encode(Data(source.dest, text))
<1>1. CASE frame = << >>
  <2>1. result' = "failed" /\ UNCHANGED <<up, sent>>
    BY <1>1 DEF SendFrame
  <2> QED
    BY <2>1, AccountKept
<1>2. CASE frame # << >>
  <2>1. up' = up \o frame /\ sent' = Append(sent, text) /\ result' = then
    BY <1>2 DEF SendFrame
  <2>2. PICK f : f = frame
    OBVIOUS
  <2>3. f # << >> /\ f = Encode(Data(source.dest, text)) /\ up' = up \o f
    BY <1>2, <2>1, <2>2
  <2>4. Accounts' /\ Gots' = Gots \o <<Got(text)>>
    BY <2>1, <2>3, AccountSent
  <2> QED
    BY <2>1, <2>4
<1> QED
  BY <1>1, <1>2

\* They are texts.
LEMMA SentLinesShape ==
    ASSUME NEW S, "LF" \in S, NEW text \in Seq(S)
    PROVE  SentLines(text) \in Seq(Seq(S))
<1>1. Append(text, "LF") \in Seq(S)
  BY AppendProperties
<1>2. PICK c : c = Closed(text)
  OBVIOUS
<1>3. c \in Seq(S)
  BY <1>1, <1>2 DEF Closed, Ended
<1>4. PICK w : w = Lines(c)
  OBVIOUS
<1>5. w \in Seq(Seq(S))
  BY <1>3, <1>4, LinesShape
<1>6. Len(w) \in Nat /\ DOMAIN w = 1 .. Len(w) /\ \A j \in 1 .. Len(w) : w[j] \in Seq(S)
  BY <1>5, LenProperties, ElementOfSeq
<1>7. \A j \in 1 .. Len(w) : Shown(w[j]) \in Seq(S)
  BY <1>6, ShownShape
<1>8. ShownAll(w) = [j \in 1 .. Len(w) |-> Shown(w[j])]
  BY <1>6 DEF ShownAll
<1>9. ShownAll(w) \in Seq(Seq(S))
  BY <1>6, <1>7, <1>8
<1> QED
  BY <1>2, <1>4, <1>9 DEF SentLines

\* The types of what Progress relates.
LEMMA ProgressTypes ==
    ASSUME TypeInv
    PROVE  /\ source \in Sources /\ source.text \in Seq(Chars) /\ unread \in Seq(Chars) /\ "LF" \in Chars
           /\ SentLines(unread) \in Seq(Seq(Chars)) /\ SentLines(source.text) \in Seq(Seq(Chars))
<1>1. source \in Sources /\ unread \in Seq(ToSet(source.text)) /\ "LF" \in Chars
  BY Characters DEF TypeInv, TypeOK, Streams
<1>2. source.text \in Seq(ToSet(source.text)) /\ ToSet(source.text) \subseteq Chars
  BY <1>1, Characters
<1>3. source.text \in Seq(Chars) /\ unread \in Seq(Chars)
  BY <1>1, <1>2, SeqMonotonic
<1> QED
  BY <1>1, <1>3, SentLinesShape

\* sendMessage.
LEMMA ProgressSendMessage ==
    ASSUME PlainTexts, Arguments, TypeInv, Accounts, Progress, SendMessage
    PROVE  Accounts' /\ Progress'
<1>1. /\ result = "sending" /\ source.kind = "message" /\ SendFrame(source.text, "ok")
      /\ UNCHANGED <<source, far, unread, hops, down, output, cuts, missed>>
  BY DEF SendMessage, listenerVars
<1>2. source \in Sources /\ source.text \in Seq(ToSet(source.text))
  BY Characters DEF TypeInv, TypeOK
<1>3. \A i \in 1 .. Len(source.text) : source.text[i] # "NUL"
  <2> TAKE i \in 1 .. Len(source.text)
  <2>1. i \in DOMAIN source.text
    BY <1>2, LenProperties
  <2>2. source.text[i] \in ToSet(source.text)
    BY <2>1 DEF ToSet
  <2> QED
    BY <1>1, <1>2, <2>2 DEF Arguments
<1>4. PICK text, then : text = source.text /\ then = "ok"
  OBVIOUS
<1>5. text \in Seq(ToSet(source.text)) /\ (\A i \in 1 .. Len(text) : text[i] # "NUL") /\ SendFrame(text, then)
  BY <1>1, <1>2, <1>3, <1>4
<1>6. UNCHANGED <<far, hops, down, output, cuts, missed>>
  BY <1>1
<1>7. Accounts' /\ (result' = "failed" \/ (result' = then /\ Gots' = Gots \o <<Got(text)>>))
  BY <1>5, <1>6, AccountSendFrame
<1>8. Gots = << >>
  <2>1. sent = << >>
    BY <1>1 DEF Progress
  <2> QED
    BY <2>1 DEF Gots
<1>9. << >> \o <<Got(text)>> = <<Got(text)>>
  <2>1. <<Got(text)>> \in Seq({Got(text)})
    OBVIOUS
  <2> QED
    BY <2>1, ConcatEmptySeq
<1>10. result' = "failed" \/ (result' = "ok" /\ Gots' = <<Got(source.text)>>)
  BY <1>4, <1>7, <1>8, <1>9
<1>11. Progress'
  BY <1>1, <1>10 DEF Progress
<1> QED
  BY <1>7, <1>11

\* A turn of the loop of sendFile.
LEMMA ProgressSendLine ==
    ASSUME PlainTexts, TypeInv, Accounts, Progress, SendLine
    PROVE  Accounts' /\ Progress'
<1> DEFINE text == Shown(SubSeq(unread, 1, Fgets))
<1>1. /\ result = "sending" /\ source.kind = "file" /\ unread # << >>
      /\ unread' = SubSeq(unread, Fgets + 1, Len(unread)) /\ SendFrame(text, "sending")
      /\ UNCHANGED <<source, far, hops, down, output, cuts, missed>>
  BY DEF SendLine, listenerVars, Shown
<1>2. /\ source \in Sources /\ source.text \in Seq(Chars) /\ unread \in Seq(Chars) /\ "LF" \in Chars
      /\ SentLines(unread) \in Seq(Seq(Chars)) /\ SentLines(source.text) \in Seq(Seq(Chars))
  BY ProgressTypes
<1>3. text \in Seq(ToSet(source.text)) /\ unread' \in Seq(Chars) /\ \A i \in 1 .. Len(text) : text[i] # "NUL"
  <2>1. text \in Seq(ToSet(source.text)) /\ Fgets \in 0 .. Len(unread)
    BY LineTypes DEF Shown
  <2>2. PICK k \in 0 .. Len(unread) : k = Fgets
    BY <2>1
  <2>3. SubSeq(unread, 1, k) \in Seq(Chars) /\ Len(SubSeq(unread, 1, k)) = k /\ Rest(unread, SubSeq(unread, 1, k)) \in Seq(Chars)
    BY <1>2, Split
  <2>4. unread' \in Seq(Chars)
    BY <1>1, <2>2, <2>3 DEF Rest
  <2>5. \A i \in 1 .. Len(text) : text[i] # "NUL"
    BY <2>2, <2>3, ShownShape
  <2> QED
    BY <2>1, <2>4, <2>5
<1>4. PICK t, then : t = text /\ then = "sending"
  OBVIOUS
<1>5. /\ t \in Seq(ToSet(source.text)) /\ (\A i \in 1 .. Len(t) : t[i] # "NUL") /\ SendFrame(t, then)
      /\ UNCHANGED <<far, hops, down, output, cuts, missed>>
  BY <1>1, <1>3, <1>4
<1>6. Accounts' /\ (result' = "failed" \/ (result' = then /\ Gots' = Gots \o <<Got(t)>>))
  BY <1>5, AccountSendFrame
<1>7. ASSUME NoneLong(source.text)
      PROVE  NoneLong(unread') /\ Gots \o (<<Got(t)>> \o SentLines(unread')) = SentLines(source.text)
  <2>1. NoneLong(unread) /\ Gots \o SentLines(unread) = SentLines(source.text)
    BY <1>1, <1>7 DEF Progress
  <2>2. PICK n : n = Fgets
    OBVIOUS
  <2>3. n = Min({Len(unread), MaxLine - 1} \cup {i \in DOMAIN unread : unread[i] = "LF"})
    BY <2>2 DEF Fgets
  <2>4. PICK l \in Seq(Chars) : /\ \A i \in 1 .. Len(l) : l[i] # "LF"
                                /\ Closed(unread) = Append(l, "LF") \o Closed(SubSeq(unread, n + 1, Len(unread)))
                                /\ Shown(SubSeq(unread, 1, n)) = Shown(l)
    BY <1>1, <1>2, <2>1, <2>3, LineTaken
  <2>5. Closed(unread) = Append(l, "LF") \o Closed(unread')
    BY <1>1, <2>2, <2>4
  <2>6. NoneLong(unread') /\ SentLines(unread) = <<Shown(l)>> \o SentLines(unread')
    <3>1. PICK r : r = unread'
      OBVIOUS
    <3>2. r \in Seq(Chars) /\ Closed(unread) = Append(l, "LF") \o Closed(r) /\ (\A i \in 1 .. Len(l) : l[i] # "LF")
      BY <1>3, <2>4, <2>5, <3>1
    <3>3. NoneLong(r) /\ SentLines(unread) = <<Shown(l)>> \o SentLines(r)
      BY <1>2, <2>1, <3>2, LinesSent
    <3> QED
      BY <3>1, <3>3
  <2>7. Got(t) = Shown(l)
    <3>1. Got(Shown(l)) = Shown(l)
      BY <2>4, GotShown
    <3> QED
      BY <1>4, <2>2, <2>4, <3>1
  <2> QED
    BY <2>1, <2>6, <2>7
<1>8. ASSUME NoneLong(source.text), result' = then, Gots' = Gots \o <<Got(t)>>
      PROVE  Gots' \o SentLines(unread') = SentLines(source.text)
  <2>1. PICK a, b, c : a = Gots /\ b = <<Got(t)>> /\ c = SentLines(unread')
    OBVIOUS
  <2>2. a \in Seq(Seq(Chars)) /\ b \in Seq(Seq(Chars))
    <3>1. t \in Seq(Chars)
      <4>1. ToSet(source.text) \subseteq Chars
        BY <1>2, Characters
      <4> QED
        BY <1>5, <4>1, SeqMonotonic
    <3>2. Got(t) \in Seq(Chars)
      BY <3>1, GotShape
    <3> QED
      BY <2>1, <3>2, AccountTypes
  <2>3. c \in Seq(Seq(Chars))
    <3>1. PICK r : r = unread'
      OBVIOUS
    <3>2. r \in Seq(Chars)
      BY <1>3, <3>1
    <3>3. SentLines(r) \in Seq(Seq(Chars))
      BY <3>2, <1>2, SentLinesShape
    <3> QED
      BY <2>1, <3>1, <3>3
  <2>4. a \o (b \o c) = SentLines(source.text)
    BY <1>7, <1>8, <2>1
  <2>5. (a \o b) \o c = a \o (b \o c)
    <3>1. PICK T : T = Seq(Chars)
      OBVIOUS
    <3>2. a \in Seq(T) /\ b \in Seq(T) /\ c \in Seq(T)
      BY <2>2, <2>3, <3>1
    <3> QED
      BY <3>2, ConcatAssociative
  <2>6. PICK e : e = Gots'
    OBVIOUS
  <2>7. e = a \o b
    BY <1>8, <2>1, <2>6
  <2>8. Then(e, c) = SentLines(source.text)
    BY <2>4, <2>5, <2>7 DEF Then
  <2> QED
    BY <2>1, <2>6, <2>8 DEF Then
<1>9. Progress'
  BY <1>1, <1>4, <1>6, <1>7, <1>8 DEF Progress
<1> QED
  BY <1>6, <1>9

\* What an empty file has to send ...
LEMMA NoLines ==
    /\ Lines(<< >>) = << >> /\ SentLines(<< >>) = << >> /\ NoneLong(<< >>)
    /\ Got(<< >>) = Shown(<< >>) /\ TextLines(<< >>) = <<Got(<< >>)>> /\ Messages(<< >>) = << >>
<1>0. << >> \in Seq(Chars) /\ Len(<< >>) = 0 /\ "LF" \in Chars
  BY EmptySeq, Characters
<1>1. Lines(<< >>) = << >>
  <2>1. PICK e : e = << >>
    OBVIOUS
  <2>2. e \in Seq(Chars) /\ Len(e) = 0
    BY <1>0, <2>1
  <2>3. EndsOf(e) \in SUBSET (1 .. Len(e)) /\ Len(Lines(e)) = Cardinality(EndsOf(e)) /\ Lines(e) \in Seq(Seq(Chars))
    BY <2>2, LinesShape
  <2>4. EndsOf(e) = {}
    BY <2>2, <2>3
  <2>5. Len(Lines(e)) = 0
    BY <2>3, <2>4, FS_EmptySet
  <2> QED
    BY <2>1, <2>3, <2>5, EmptySeq
<1>2. Closed(<< >>) = << >>
  BY DEF Closed
<1>3. SentLines(<< >>) = << >>
  <2>1. ShownAll(<< >>) = << >>
    BY DEF ShownAll
  <2> QED
    BY <1>1, <1>2, <2>1 DEF SentLines
<1>4. NoneLong(<< >>)
  <2>1. ToSet(<< >>) = {}
    BY DEF ToSet
  <2> QED
    BY <1>1, <1>2, <2>1 DEF NoneLong
<1>5. Got(<< >>) = Shown(<< >>)
  <2>1. PICK e : e = << >>
    OBVIOUS
  <2>2. e \in Seq(Chars) /\ \A i \in 1 .. Len(e) : e[i] # "LF" /\ e[i] # "NUL"
    BY <1>0, <2>1
  <2>3. Before(e, "LF") = e
    BY <2>2, NoPlace
  <2>4. Before(e, "NUL") = e
    BY <2>2, NoPlace
  <2> QED
    BY <2>1, <2>3, <2>4 DEF Got, Shown
<1>6. TextLines(<< >>) = <<Got(<< >>)>>
  <2>1. PICK e : e = << >>
    OBVIOUS
  <2>2. e \in Seq(Chars) /\ \A i \in 1 .. Len(e) : e[i] # "LF"
    BY <1>0, <2>1
  <2>3. Lines(Append(e, "LF")) = <<e>>
    BY <2>2, LinesOne
  <2>4. Ended(e) = Append(e, "LF")
    BY <2>1 DEF Ended
  <2>5. TextLines(e) = <<Shown(e)>>
    BY <2>3, <2>4 DEF TextLines, Shown
  <2> QED
    BY <1>5, <2>1, <2>5
<1>7. Messages(<< >>) = << >>
  <2>1. PICK e : e = << >>
    OBVIOUS
  <2>2. e \in Seq(Chars) /\ Heads(e) = {}
    BY <1>0, <2>1 DEF Heads
  <2>3. Messages(e) = << >>
    BY <2>2, HeadlessMessages
  <2> QED
    BY <2>1, <2>3
<1> QED
  BY <1>1, <1>3, <1>4, <1>5, <1>6, <1>7

\* ... and what another one has.
LEMMA SomeLines ==
    ASSUME NEW S, "LF" \in S, NEW text \in Seq(S), text # << >>
    PROVE  SentLines(text) = TextLines(text) /\ SentLines(text) # << >>
<1>1. Closed(text) = Ended(text)
  BY DEF Closed
<1>2. TextLines(text) = ShownAll(Lines(Ended(text)))
  BY DEF TextLines, ShownAll, Shown
<1>3. PICK c : c = Ended(text)
  OBVIOUS
<1>4. c \in Seq(S) /\ \E k \in 1 .. Len(c) : c[k] = "LF"
  <2>1. CASE Last(text) = "LF"
    <3>1. Len(text) \in 1 .. Len(text)
      <4>1. Len(text) \in Nat \ {0}
        BY EmptySeq
      <4> QED
        BY <4>1
    <3> QED
      BY <1>3, <2>1, <3>1 DEF Ended, Last
  <2>2. CASE Last(text) # "LF"
    <3>1. /\ Append(text, "LF") \in Seq(S) /\ Len(Append(text, "LF")) = Len(text) + 1 /\ Len(text) \in Nat
          /\ Append(text, "LF")[Len(text) + 1] = "LF"
      BY AppendProperties, LenProperties
    <3>2. c = Append(text, "LF")
      BY <1>3, <2>2 DEF Ended
    <3>3. Len(text) + 1 \in 1 .. Len(text) + 1
      BY <3>1
    <3> QED
      BY <3>1, <3>2, <3>3
  <2> QED
    BY <2>1, <2>2
<1>5. Lines(c) # << >>
  <2>1. c \in Seq(S)
    BY <1>4
  <2>2. Lines(c) = << >> => \A i \in 1 .. Len(c) : c[i] # "LF"
    BY <2>1, LinesArePlaced
  <2> QED
    BY <1>4, <2>2
<1>6. ShownAll(Lines(c)) # << >>
  <2>1. PICK w : w = Lines(c)
    OBVIOUS
  <2>2. w \in Seq(Seq(S)) /\ w # << >>
    <3>1. c \in Seq(S)
      BY <1>4
    <3>2. Lines(c) \in Seq(Seq(S))
      BY <3>1, LinesShape
    <3> QED
      BY <1>5, <2>1, <3>2
  <2>3. DOMAIN w # {}
    <3>1. Len(w) \in Nat \ {0} /\ DOMAIN w = 1 .. Len(w)
      BY <2>2, EmptySeq, LenProperties
    <3>2. 1 \in DOMAIN w
      BY <3>1
    <3> QED
      BY <3>2
  <2>4. DOMAIN ShownAll(w) = DOMAIN w
    BY DEF ShownAll
  <2>5. DOMAIN << >> = {}
    OBVIOUS
  <2> QED
    BY <2>1, <2>3, <2>4, <2>5
<1> QED
  BY <1>1, <1>2, <1>3, <1>6 DEF SentLines

\* The end of the file.
LEMMA ProgressEndOfFile ==
    ASSUME PlainTexts, TypeInv, Accounts, Progress, EndOfFile
    PROVE  Accounts' /\ Progress'
<1> DEFINE frame == IF sent = << >> THEN Encode(Data(source.dest, << >>)) ELSE << >>
<1>1. /\ result = "sending" /\ source.kind = "file" /\ unread = << >> /\ result' = "ok"
      /\ up' = up \o frame /\ sent' = IF frame = << >> THEN sent ELSE << << >> >>
      /\ UNCHANGED <<source, far, unread, hops, down, output, cuts, missed>>
  BY DEF EndOfFile, listenerVars
<1>2. /\ source \in Sources /\ source.text \in Seq(Chars) /\ "LF" \in Chars
      /\ Gots \in Seq(Seq(Chars)) /\ sent \in Seq(Seq(Chars)) /\ Len(Gots) = Len(sent) /\ up \in Seq(Chars)
  BY ProgressTypes, AccountTypes DEF TypeInv, Streams
<1>3. NoneLong(source.text) => Gots = SentLines(source.text)
  <2>1. Gots \o << >> = Gots
    BY <1>2, ConcatEmptySeq
  <2> QED
    BY <1>1, <2>1, NoLines DEF Progress
<1>4. sent = << >> <=> Gots = << >>
  <2>1. sent = << >> <=> Len(sent) = 0
    BY <1>2, EmptySeq
  <2>2. Gots = << >> <=> Len(Gots) = 0
    BY <1>2, EmptySeq
  <2> QED
    BY <1>2, <2>1, <2>2
<1>5. NoneLong(source.text) => IF sent = << >> THEN source.text = << >> ELSE Gots = TextLines(source.text)
  <2>1. source.text # << >> => SentLines(source.text) = TextLines(source.text) /\ SentLines(source.text) # << >>
    <3>1. PICK t : t = source.text
      OBVIOUS
    <3>2. t \in Seq(Chars)
      BY <1>2, <3>1
    <3>3. t # << >> => SentLines(t) = TextLines(t) /\ SentLines(t) # << >>
      BY <1>2, <3>2, SomeLines
    <3> QED
      BY <3>1, <3>3
  <2> QED
    BY <1>3, <1>4, <2>1, NoLines
<1>6. CASE frame = << >>
  <2>1. up' = up /\ sent' = sent
    <3>1. up \o << >> = up
      BY <1>2, ConcatEmptySeq
    <3> QED
      BY <1>1, <1>6, <3>1
  <2>2. Accounts'
    BY <1>1, <2>1, AccountKept
  <2>3. source.dest \in Addresses => sent # << >>
    <3>1. ASSUME source.dest \in Addresses
          PROVE  Encode(Data(source.dest, << >>)) # << >>
      <4>1. PICK ip : ip = source.dest
        OBVIOUS
      <4>2. ip \in Addresses
        BY <3>1, <4>1
      <4> DEFINE f == FrameText(Data(ip, << >>))
      <4>3. Len(f) + MaxLine <= BufSize /\ MaxLine \in Nat \ {0, 1} /\ BufSize \in Nat
        BY <4>2, FileRelayAssumption, FrameCodecAssumption DEF Data
      <4>4. f \in Seq(Chars) /\ Len(f) = Len(ip) + 0 + 4 /\ Len(ip) \in Nat
        <5>1. ip \in Seq(Chars) /\ << >> \in Seq(Chars) /\ "DATA" \in Chars /\ "|" \in Chars /\ Len(<< >>) = 0
          BY <4>2, Characters, EmptySeq DEF Types
        <5>2. PICK x : x = << >>
          OBVIOUS
        <5>3. x \in Seq(Chars) /\ ip \in Seq(Chars) /\ "DATA" \in Chars /\ "|" \in Chars /\ "LF" \in Chars
          BY <1>2, <5>1, <5>2
        <5>4. FrameText(Data(ip, x)) \in Seq(Chars) /\ Len(FrameText(Data(ip, x))) = Len(ip) + Len(x) + 4
          BY <5>3, DataFrame
        <5>5. Len(x) = 0 /\ Len(ip) \in Nat
          BY <5>1, <5>2, <5>3, LenProperties
        <5> QED
          BY <5>2, <5>4, <5>5
      <4> HIDE DEF f
      <4>5. Len(f) < BufSize /\ f # << >>
        <5>1. Len(f) \in Nat /\ Len(f) # 0
          BY <4>4
        <5> QED
          BY <4>3, <5>1, EmptySeq
      <4> QED
        BY <4>1, <4>2, <4>5 DEF Encode, f, Data
    <3> QED
      BY <1>6, <3>1
  <2>4. Gots' = Gots
    BY <2>1 DEF Gots
  <2>5. NoneLong(source.text) /\ source.dest \in Addresses => Gots' = TextLines(source.text)
    BY <1>5, <2>3, <2>4
  <2>6. Progress'
    BY <1>1, <2>5 DEF Progress
  <2> QED
    BY <2>2, <2>6
<1>7. CASE frame # << >>
  <2>1. sent = << >>
    BY <1>7
  <2>2. PICK f, text : f = frame /\ text = << >>
    OBVIOUS
  <2>3. text \in Seq(ToSet(source.text)) /\ \A i \in 1 .. Len(text) : text[i] # "NUL"
    BY <2>2, EmptySeq
  <2>4. f # << >> /\ f = Encode(Data(source.dest, text)) /\ up' = up \o f
    BY <1>1, <1>7, <2>1, <2>2
  <2>5. sent' = Append(sent, text)
    <3>1. sent' = << << >> >>
      BY <1>1, <1>7
    <3>2. Append(<< >>, << >>) = << << >> >>
      OBVIOUS
    <3> QED
      BY <2>1, <2>2, <3>1, <3>2
  <2>6. UNCHANGED <<far, hops, down, output, cuts, missed>>
    BY <1>1
  <2> HIDE DEF frame
  <2>7. Accounts' /\ Gots' = Gots \o <<Got(text)>>
    BY <2>3, <2>4, <2>5, <2>6, AccountSent
  <2>8. Gots' = <<Got(<< >>)>>
    <3>1. <<Got(text)>> \in Seq({Got(text)})
      OBVIOUS
    <3>2. << >> \o <<Got(text)>> = <<Got(text)>>
      BY <3>1, ConcatEmptySeq
    <3>3. Gots = << >>
      BY <1>4, <2>1
    <3> QED
      BY <2>2, <2>7, <3>2, <3>3
  <2>9. NoneLong(source.text) => Gots' = TextLines(source.text)
    BY <1>5, <2>1, <2>8, NoLines
  <2>10. Progress'
    BY <1>1, <2>9 DEF Progress
  <2> QED
    BY <2>7, <2>10
<1> QED
  BY <1>6, <1>7

\* Every step.
LEMMA NextAccounts ==
    ASSUME PlainTexts, Arguments
    PROVE  TypeInv /\ Origins /\ OneLines /\ Accounts /\ Progress /\ [Next]_vars => Accounts' /\ Progress'
<1> SUFFICES ASSUME TypeInv, Origins, OneLines, Accounts, Progress, [Next]_vars
             PROVE  Accounts' /\ Progress'
  OBVIOUS
<1>1. CASE Connect
  <2>1. UNCHANGED <<far, sent, up, hops, down, output, missed, cuts>>
    BY <1>1 DEF Connect, listenerVars
  <2>2. Accounts'
    BY <2>1, AccountKept
  <2>3. Progress'
    <3>1. /\ result = "none" /\ result' \in IF source.kind = "missing" THEN {"failed"} ELSE {"failed", "sending"}
          /\ UNCHANGED <<source, unread, sent>>
      BY <1>1 DEF Connect
    <3>2. Gots' = Gots
      BY <3>1 DEF Gots
    <3> QED
      BY <3>1, <3>2 DEF Progress
  <2> QED
    BY <2>2, <2>3
<1>2. CASE SendMessage
  BY <1>2, ProgressSendMessage
<1>3. CASE SendLine
  BY <1>3, ProgressSendLine
<1>4. CASE EndOfFile
  BY <1>4, ProgressEndOfFile
<1>5. CASE ReadSender
  BY <1>5, AccountReadSender, ProgressKept DEF ReadSender, senderVars
<1>6. CASE ReadNeighbor
  BY <1>6, AccountReadNeighbor, ProgressKept DEF ReadNeighbor, senderVars
<1>7. CASE ReadListener
  <2>1. UNCHANGED <<source, unread, sent, result>>
    BY <1>7, ReadListenerStep DEF ReadListener, senderVars
  <2> QED
    BY <1>7, <2>1, AccountReadListener, ProgressKept
<1>8. CASE Hear
  BY <1>8, AccountHear, ProgressKept DEF Hear, senderVars
<1>9. CASE Listen \/ UNCHANGED vars
  <2>1. UNCHANGED <<source, unread, sent, result, far, up, hops, down, output, missed, cuts>>
    BY <1>9 DEF Listen, vars, senderVars, listenerVars
  <2> QED
    BY <2>1, AccountKept, ProgressKept
<1> QED
  BY <1>1, <1>2, <1>3, <1>4, <1>5, <1>6, <1>7, <1>8, <1>9 DEF Next

\* Nothing is sent yet.
LEMMA InitAccounts == Init => OneLines /\ Accounts /\ Progress
<1> SUFFICES ASSUME Init
             PROVE  OneLines /\ Accounts /\ Progress
  OBVIOUS
<1>1. /\ sent = << >> /\ unread = source.text /\ up = << >> /\ hops = << >> /\ down = << >> /\ output = << >> /\ result = "none"
  BY DEF Init
<1>2. Gots = << >> /\ OnHops = << >>
  BY <1>1 DEF Gots, OnHops
<1>3. OneLines
  BY <1>1 DEF OneLines
<1>4. << >> \o (<< >> \o << >>) = << >>
  <2>1. << >> \in Seq(Chars)
    BY EmptySeq
  <2>2. << >> \o << >> = << >>
    BY <2>1, ConcatEmptySeq
  <2> QED
    BY <2>2
<1>5. Accounts
  <2>1. ASSUME NEW v \in Seq(Chars)
        PROVE  InFile(v) + OnWay(v) = Count(Gots, v)
    <3>1. Count(<< >>, v) = 0 /\ Count(<< >>, <<v>>) = 0
      BY CountNone
    <3> QED
      BY <1>1, <1>2, <3>1, NoLines DEF InFile, OnWay
  <2> QED
    BY <1>1, <1>2, <1>4, <2>1, NoLines DEF Accounts
<1>6. Progress
  <2>1. source.text \in Seq(Chars)
    <3>1. source \in Sources
      BY DEF Init
    <3>2. source.text \in Seq(ToSet(source.text)) /\ ToSet(source.text) \subseteq Chars
      BY <3>1, Characters
    <3> QED
      BY <3>2, SeqMonotonic
  <2>2. SentLines(source.text) \in Seq(Seq(Chars))
    <3>1. PICK t : t = source.text
      OBVIOUS
    <3>2. t \in Seq(Chars) /\ "LF" \in Chars
      BY <2>1, <3>1, Characters
    <3>3. SentLines(t) \in Seq(Seq(Chars))
      BY <3>2, SentLinesShape
    <3> QED
      BY <3>1, <3>3
  <2>3. << >> \o SentLines(source.text) = SentLines(source.text)
    BY <2>2, ConcatEmptySeq
  <2> QED
    BY <1>1, <1>2, <2>3 DEF Progress
<1> QED
  BY <1>3, <1>5, <1>6

-----------------------------------------------------------------------------
(* The characters of a file.                                                *)

\* A file of text: no NUL, and no CR but before a line end or at the very end.
Tidy(text) ==
    \A i \in 1 .. Len(text) : text[i] # "NUL" /\ (text[i] = "CR" /\ i < Len(text) => text[i + 1] = "LF")

\* Such are the files with a line that sendFile has to split.
TidyTexts ==
    \A s \in Sources : s.kind = "file" /\ (\E l \in ToSet(Lines(Ended(s.text))) : IsLong(l)) => Tidy(s.text)

\* The characters that arrive are, before those still to be read, those of the
\* file, wherever fgets splits it.
Spelled ==
    source.kind = "file" /\ Tidy(source.text) =>
        /\ result \in {"none", "sending"} =>
              Tidy(unread) /\ FlattenSeq(Gots) \o WithoutLineEnds(unread) = WithoutLineEnds(source.text)
        /\ result = "ok" => FlattenSeq(Gots) = WithoutLineEnds(source.text)

\* One sequence more, after the others.
LEMMA FlattenAppend ==
    ASSUME NEW S, NEW seqs \in Seq(Seq(S)), NEW x \in Seq(S)
    PROVE  FlattenSeq(seqs) \in Seq(S) /\ FlattenSeq(seqs \o <<x>>) = FlattenSeq(seqs) \o x
<1> DEFINE n == Len(seqs)
           c == seqs \o <<x>>
<1>1. PICK g \in [0 .. n -> Seq(S)] :
          /\ g[0] = << >>
          /\ \A i \in 1 .. n : g[i] = g[i - 1] \o seqs[i]
          /\ FlattenSeq(seqs) = g[n]
  BY FlattenSteps
<1>2. n \in Nat
  BY LenProperties
<1>3. c \in Seq(Seq(S)) /\ Len(c) = n + 1 /\ (\A i \in 1 .. n : c[i] = seqs[i]) /\ c[n + 1] = x
  <2>1. PICK o : o = <<x>>
    OBVIOUS
  <2>2. o \in Seq(Seq(S)) /\ Len(o) = 1 /\ o[1] = x
    BY <2>1
  <2>3. /\ seqs \o o \in Seq(Seq(S)) /\ Len(seqs \o o) = Len(seqs) + Len(o)
        /\ \A i \in 1 .. Len(seqs) : (seqs \o o)[i] = seqs[i]
        /\ \A i \in 1 .. Len(o) : (seqs \o o)[Len(seqs) + i] = o[i]
    <3>1. o \in Seq(Seq(S))
      BY <2>2
    <3> QED
      BY <3>1, Joined
  <2>4. 1 \in 1 .. Len(o)
    BY <2>2
  <2> QED
    BY <2>1, <2>2, <2>3, <2>4
<1> HIDE DEF c, n
<1> DEFINE P == {p \in Nat \X Seq(S) : (p[1] <= n => p[2] = g[p[1]]) /\ (p[1] = n + 1 => p[2] = g[n] \o x)}
<1>4. <<0, << >>>> \in P
  <2>1. << >> \in Seq(S)
    BY EmptySeq
  <2> QED
    BY <1>1, <1>2, <2>1
<1>5. ASSUME NEW i \in 1 .. n + 1, NEW s \in Seq(S), <<i - 1, s>> \in P
      PROVE  <<i, s \o c[i]>> \in P
  <2>1. i - 1 \in Nat /\ i - 1 <= n /\ s = g[i - 1]
    BY <1>2, <1>5
  <2>2. CASE i <= n
    <3>1. i \in 1 .. n /\ c[i] = seqs[i]
      BY <1>2, <1>3, <2>2
    <3>2. s \o c[i] = g[i] /\ g[i] \in Seq(S)
      <4>1. i \in 0 .. n
        BY <3>1
      <4> QED
        BY <1>1, <2>1, <3>1, <4>1
    <3> QED
      BY <1>2, <2>2, <3>2
  <2>3. CASE ~ (i <= n)
    <3>1. i = n + 1
      BY <1>2, <2>3
    <3>2. s = g[n] /\ c[i] = x
      BY <1>2, <1>3, <2>1, <3>1
    <3>3. s \o x \in Seq(S)
      BY Joined
    <3>4. PICK v : v = s \o c[i]
      OBVIOUS
    <3>5. v \in Seq(S) /\ v = g[n] \o x
      BY <3>2, <3>3, <3>4
    <3>6. <<i, v>> \in P
      <4>1. PICK q : q = <<i, v>>
        OBVIOUS
      <4>2. q \in Nat \X Seq(S) /\ q[1] = n + 1 /\ q[2] = g[n] \o x
        <5>1. q[1] = i /\ q[2] = v
          BY <4>1
        <5>2. i \in Nat /\ v \in Seq(S)
          BY <1>2, <3>1, <3>5
        <5>3. q \in Nat \X Seq(S)
          BY <4>1, <5>2
        <5> QED
          BY <3>1, <3>5, <5>1, <5>3
      <4>3. q[1] <= n => q[2] = g[q[1]]
        BY <1>2, <4>2
      <4>4. q \in P
        BY <4>2, <4>3
      <4> QED
        BY <4>1, <4>4
    <3> QED
      BY <3>4, <3>6
  <2> QED
    BY <2>2, <2>3
<1> HIDE DEF P
<1>6. <<Len(c), FlattenSeq(c)>> \in P
  BY <1>3, <1>4, <1>5, FlattenInduction
<1>7. FlattenSeq(c) = g[n] \o x
  BY <1>2, <1>3, <1>6 DEF P
<1>8. g[n] \in Seq(S)
  <2>1. n \in 0 .. n
    BY <1>2
  <2> QED
    BY <1>1, <2>1
<1> QED
  BY <1>1, <1>7, <1>8 DEF c

\* Nothing else than the line ends is left out, and of two texts together no more
\* than of each.
LEMMA WithoutLineEndsJoined ==
    ASSUME NEW S, NEW s \in Seq(S), NEW t \in Seq(S)
    PROVE  WithoutLineEnds(s \o t) = WithoutLineEnds(s) \o WithoutLineEnds(t)
<1> DEFINE P == S \ LineEnds
           c == s \o t
<1>1. c \in Seq(S)
  BY Joined
<1> HIDE DEF c
<1>2. ASSUME NEW u \in Seq(S)
      PROVE  WithoutLineEnds(u) = At(u, Places(u, P))
  <2>1. \A i \in DOMAIN u : u[i] \in S
    BY LenProperties, ElementOfSeq
  <2>2. {i \in DOMAIN u : Kept(u[i])} = Places(u, P)
    BY <2>1 DEF Places, Kept
  <2> QED
    BY <2>2 DEF WithoutLineEnds
<1> HIDE DEF P
<1>3. At(s \o t, Places(s \o t, P)) = At(s, Places(s, P)) \o At(t, Places(t, P))
  BY AtJoined
<1>4. WithoutLineEnds(c) = At(c, Places(c, P))
  BY <1>1, <1>2
<1> QED
  BY <1>2, <1>3, <1>4 DEF c

\* A beginning without line ends is what is left, when only line ends follow.
LEMMA WithoutLineEndsIs ==
    ASSUME NEW S, NEW text \in Seq(S), NEW m \in 0 .. Len(text),
           \A i \in 1 .. m : Kept(text[i]),
           \A i \in m + 1 .. Len(text) : ~ Kept(text[i])
    PROVE  WithoutLineEnds(text) = SubSeq(text, 1, m)
<1> DEFINE D == {i \in DOMAIN text : Kept(text[i])}
           f == [i \in 1 .. m |-> i]
           w == SubSeq(text, 1, m)
<1>1. Len(text) \in Nat /\ DOMAIN text = 1 .. Len(text)
  BY LenProperties
<1>2. D = 1 .. m
  <2>1. \A i \in 1 .. Len(text) : i \in 1 .. m \/ i \in m + 1 .. Len(text)
    BY <1>1
  <2>2. \A i \in 1 .. m : i \in 1 .. Len(text)
    BY <1>1
  <2> QED
    BY <1>1, <2>1, <2>2
<1> HIDE DEF D
<1>3. D \in SUBSET DOMAIN text
  BY DEF D
<1>4. Enumerates(f, m, D)
  <2>1. m \in Nat /\ f \in [1 .. m -> D]
    BY <1>1, <1>2
  <2>2. \A i, j \in 1 .. m : i < j => f[i] < f[j]
    OBVIOUS
  <2>3. \A x \in D : \E i \in 1 .. m : f[i] = x
    BY <1>2
  <2> HIDE DEF f
  <2> QED
    BY <2>1, <2>2, <2>3 DEF Enumerates
<1>5. At(text, D) = [i \in 1 .. m |-> text[f[i]]]
  <2> HIDE DEF f
  <2> QED
    BY <1>3, <1>4, AtIs
<1>6. w \in Seq(S) /\ Len(w) = m /\ \A i \in 1 .. m : w[i] = text[i]
  BY Split
<1> HIDE DEF w
<1>7. w = [i \in 1 .. m |-> text[i]]
  <2>1. DOMAIN w = 1 .. m /\ w = [i \in DOMAIN w |-> w[i]]
    BY <1>6, LenProperties
  <2> QED
    BY <1>6, <2>1
<1> QED
  BY <1>5, <1>7 DEF WithoutLineEnds, D, w

\* What a listener gets of a text without line ends.
LEMMA GotKept ==
    ASSUME NEW S, NEW s \in Seq(S), \A i \in 1 .. Len(s) : Kept(s[i])
    PROVE  Got(s) = s
<1>1. \A i \in 1 .. Len(s) : s[i] # "LF"
  BY DEF Kept, LineEnds
<1>2. Before(s, "LF") = s
  BY <1>1, NoPlace
<1>3. PICK n : n = Len(s)
  OBVIOUS
<1>4. n \in Nat
  BY <1>3, LenProperties
<1>5. n \in 0 .. Len(s) /\ (n = 0 \/ Kept(s[n])) /\ \A i \in n + 1 .. Len(s) : ~ Kept(s[i])
  <2>1. n # 0 => n \in 1 .. Len(s)
    BY <1>3, <1>4
  <2>2. \A i \in n + 1 .. Len(s) : FALSE
    BY <1>3, <1>4
  <2> QED
    BY <1>3, <1>4, <2>1, <2>2
<1>6. WithoutEnd(s) = SubSeq(s, 1, n)
  BY <1>5, WithoutEndIs
<1> QED
  BY <1>2, <1>3, <1>6, WholeSubSeq DEF Got

\* A turn of the loop of sendFile takes a piece of the file, and sends its
\* characters without its line end.
LEMMA PieceTaken ==
    ASSUME NEW S, NEW text \in Seq(S), text # << >>, Tidy(text),
           NEW n, n = Min({Len(text), MaxLine - 1} \cup {i \in DOMAIN text : text[i] = "LF"})
    PROVE  LET piece == SubSeq(text, 1, n)
               rest  == SubSeq(text, n + 1, Len(text))
           IN  /\ Got(Shown(piece)) = WithoutLineEnds(piece) /\ piece \in Seq(S)
               /\ rest \in Seq(S) /\ Tidy(rest) /\ text = piece \o rest
<1> DEFINE N     == Len(text)
           E     == {N, MaxLine - 1} \cup {i \in DOMAIN text : text[i] = "LF"}
           piece == SubSeq(text, 1, n)
           rest  == SubSeq(text, n + 1, N)
<1>1. N \in Nat \ {0} /\ DOMAIN text = 1 .. N /\ MaxLine - 1 \in Nat \ {0}
  BY LenProperties, EmptySeq, FileRelayAssumption
<1>2. n \in 1 .. N /\ \A i \in 1 .. n - 1 : text[i] # "LF"
  <2>1. n = Min(E) /\ N \in E /\ \A i \in 1 .. N : text[i] = "LF" => i \in E
    BY <1>1
  <2>2. E \subseteq Nat \ {0}
    <3>1. ASSUME NEW y \in E
          PROVE  y \in Nat \ {0}
      <4>1. y = N \/ y = MaxLine - 1 \/ y \in 1 .. N
        BY <1>1
      <4> HIDE DEF E, N
      <4>2. CASE y = MaxLine - 1
        BY <1>1, <4>2
      <4>3. CASE y = N
        BY <1>1, <4>3
      <4>4. CASE y \in 1 .. N
        BY <1>1, <4>4
      <4> QED
        BY <4>1, <4>2, <4>3, <4>4
    <3> QED
      BY <3>1
  <2> HIDE DEF E
  <2>3. n \in E /\ \A y \in E : n <= y
    <3>1. E \subseteq Nat /\ E # {}
      BY <2>1, <2>2
    <3> QED
      BY <2>1, <3>1, MinIsMember, MinIsLeast
  <2>4. n \in Nat \ {0} /\ n <= N
    BY <2>1, <2>2, <2>3
  <2>5. ASSUME NEW i \in 1 .. n - 1, text[i] = "LF"
        PROVE  FALSE
    <3>1. i \in 1 .. N
      BY <1>1, <2>4
    <3>2. n <= i
      BY <2>1, <2>3, <2>5, <3>1
    <3> QED
      BY <2>4, <3>2
  <2> QED
    BY <1>1, <2>4, <2>5
<1>3. n \in 0 .. Len(text)
  BY <1>1, <1>2
<1>4. /\ piece \in Seq(S) /\ Len(piece) = n /\ \A i \in 1 .. n : piece[i] = text[i]
      /\ rest \in Seq(S) /\ Len(rest) = N - n /\ \A i \in 1 .. N - n : rest[i] = text[n + i]
  <2>1. /\ piece \in Seq(S) /\ Len(piece) = n /\ \A i \in 1 .. n : piece[i] = text[i]
        /\ Rest(text, piece) \in Seq(S) /\ Len(Rest(text, piece)) = N - n
        /\ \A i \in 1 .. N - n : Rest(text, piece)[i] = text[n + i]
    BY <1>3, Split
  <2>2. Rest(text, piece) = rest
    BY <2>1 DEF Rest
  <2> QED
    BY <2>1, <2>2
<1> HIDE DEF piece, rest, E, N
<1>5. text = piece \o rest
  <2> DEFINE t == piece \o rest
  <2>1. /\ t \in Seq(S) /\ Len(t) = n + (N - n)
        /\ \A i \in 1 .. n : t[i] = piece[i]
        /\ \A i \in 1 .. N - n : t[n + i] = rest[i]
    <3>1. piece \in Seq(S) /\ rest \in Seq(S)
      BY <1>4
    <3>2. /\ t \in Seq(S) /\ Len(t) = Len(piece) + Len(rest)
          /\ \A i \in 1 .. Len(piece) : t[i] = piece[i]
          /\ \A i \in 1 .. Len(rest) : t[Len(piece) + i] = rest[i]
      BY <3>1, Joined
    <3> QED
      BY <1>4, <3>2
  <2> HIDE DEF t
  <2>2. ASSUME NEW i \in 1 .. N
        PROVE  t[i] = text[i]
    <3>1. CASE i <= n
      <4>1. i \in 1 .. n
        BY <1>1, <1>2, <3>1
      <4> QED
        BY <1>4, <2>1, <4>1
    <3>2. CASE ~ (i <= n)
      <4>1. i - n \in 1 .. N - n /\ n + (i - n) = i
        BY <1>1, <1>2, <3>2
      <4>2. t[n + (i - n)] = text[n + (i - n)]
        BY <1>4, <2>1, <4>1
      <4> QED
        BY <4>1, <4>2
    <3> QED
      BY <3>1, <3>2
  <2>3. Len(t) = Len(text) /\ Len(t) = N
    BY <1>1, <1>2, <2>1 DEF N
  <2>4. t = text
    BY <2>1, <2>2, <2>3, SeqEqual
  <2> QED
    BY <2>4 DEF t
<1>6. \A i \in 1 .. N : text[i] # "NUL" /\ (text[i] = "CR" /\ i < N => text[i + 1] = "LF")
  BY DEF Tidy, N
<1>7. Tidy(rest)
  <2>1. ASSUME NEW i \in 1 .. N - n
        PROVE  rest[i] # "NUL" /\ (rest[i] = "CR" /\ i < N - n => rest[i + 1] = "LF")
    <3>1. n + i \in 1 .. N /\ (i < N - n => n + i < N /\ i + 1 \in 1 .. N - n /\ n + (i + 1) = (n + i) + 1)
      BY <1>1, <1>2
    <3> QED
      BY <1>4, <1>6, <3>1
  <2> QED
    BY <1>4, <2>1 DEF Tidy
<1>8. PICK m \in 0 .. n : /\ WithoutEnd(piece) = SubSeq(piece, 1, m)
                          /\ m = 0 \/ Kept(piece[m])
                          /\ \A i \in m + 1 .. n : ~ Kept(piece[i])
  BY <1>4, WithoutEndExact
<1>9. \A i \in 1 .. n : i \in 1 .. N
  BY <1>1, <1>2
<1>10. ASSUME NEW i \in 1 .. m
       PROVE  Kept(piece[i])
  <2>1. SUFFICES ASSUME ~ Kept(piece[i])
                 PROVE  FALSE
    OBVIOUS
  <2>2. m \in 1 .. n /\ Kept(piece[m]) /\ i < m
    <3>1. m \in 1 .. n /\ Kept(piece[m])
      BY <1>2, <1>8
    <3> QED
      BY <2>1, <3>1
  <2>3. i \in 1 .. n - 1 /\ i \in 1 .. n /\ i < N
    BY <1>1, <1>2, <2>2
  <2>4. piece[i] = "CR"
    <3>1. piece[i] # "LF"
      BY <1>2, <1>4, <2>3
    <3> QED
      BY <2>1, <3>1 DEF Kept, LineEnds
  <2>5. text[i + 1] = "LF"
    BY <1>4, <1>6, <1>9, <2>3, <2>4
  <2>6. CASE i + 1 = m
    <3>1. piece[m] = "LF"
      BY <1>4, <2>2, <2>5, <2>6
    <3> QED
      BY <2>2, <3>1 DEF Kept, LineEnds
  <2>7. CASE i + 1 # m
    <3>1. i + 1 \in 1 .. n - 1
      BY <1>1, <1>2, <2>2, <2>3, <2>7
    <3> QED
      BY <1>2, <2>5, <3>1
  <2> QED
    BY <2>6, <2>7
<1>11. WithoutLineEnds(piece) = SubSeq(piece, 1, m)
  <2>1. piece \in Seq(S) /\ m \in 0 .. Len(piece) /\ \A i \in m + 1 .. Len(piece) : ~ Kept(piece[i])
    BY <1>4, <1>8
  <2> QED
    BY <1>10, <2>1, WithoutLineEndsIs
<1>12. Shown(piece) = SubSeq(piece, 1, m)
  <2>1. piece \in Seq(S) /\ \A i \in 1 .. Len(piece) : piece[i] # "NUL"
    BY <1>4, <1>6, <1>9
  <2>2. Before(piece, "NUL") = piece
    BY <2>1, NoPlace
  <2> QED
    BY <1>8, <2>2 DEF Shown
<1>13. Got(SubSeq(piece, 1, m)) = SubSeq(piece, 1, m)
  <2>1. piece \in Seq(S) /\ m \in 0 .. Len(piece)
    BY <1>4
  <2>2. /\ SubSeq(piece, 1, m) \in Seq(S) /\ Len(SubSeq(piece, 1, m)) = m
        /\ \A i \in 1 .. m : SubSeq(piece, 1, m)[i] = piece[i]
    BY <2>1, Split
  <2>3. PICK s : s = SubSeq(piece, 1, m)
    OBVIOUS
  <2>4. s \in Seq(S) /\ \A i \in 1 .. Len(s) : Kept(s[i])
    BY <1>10, <2>2, <2>3
  <2> QED
    BY <2>3, <2>4, GotKept
<1> QED
  BY <1>4, <1>5, <1>7, <1>11, <1>12, <1>13 DEF piece, rest, N

\* A turn of the loop of sendFile, wherever fgets ends.
LEMMA SpelledSendLine ==
    ASSUME PlainTexts, TypeInv, Accounts, Spelled, SendLine
    PROVE  Spelled'
<1> DEFINE text == Shown(SubSeq(unread, 1, Fgets))
<1>1. /\ result = "sending" /\ source.kind = "file" /\ unread # << >>
      /\ unread' = SubSeq(unread, Fgets + 1, Len(unread)) /\ SendFrame(text, "sending")
      /\ UNCHANGED <<source, far, hops, down, output, cuts, missed>>
  BY DEF SendLine, listenerVars, Shown
<1>2. source \in Sources /\ unread \in Seq(Chars) /\ Gots \in Seq(Seq(Chars))
  BY ProgressTypes, AccountTypes
<1>3. text \in Seq(ToSet(source.text)) /\ \A i \in 1 .. Len(text) : text[i] # "NUL"
  <2>1. text \in Seq(ToSet(source.text)) /\ Fgets \in 0 .. Len(unread)
    BY LineTypes DEF Shown
  <2>2. PICK k \in 0 .. Len(unread) : k = Fgets
    BY <2>1
  <2>3. SubSeq(unread, 1, k) \in Seq(Chars)
    BY <1>2, Split
  <2>4. \A i \in 1 .. Len(text) : text[i] # "NUL"
    BY <2>2, <2>3, ShownShape
  <2> QED
    BY <2>1, <2>4
<1>4. PICK t, then : t = text /\ then = "sending"
  OBVIOUS
<1>5. /\ t \in Seq(ToSet(source.text)) /\ (\A i \in 1 .. Len(t) : t[i] # "NUL") /\ SendFrame(t, then)
      /\ UNCHANGED <<far, hops, down, output, cuts, missed>>
  BY <1>1, <1>3, <1>4
<1>6. result' = "failed" \/ (result' = then /\ Gots' = Gots \o <<Got(t)>>)
  BY <1>5, AccountSendFrame
<1>7. ASSUME Tidy(source.text), Gots' = Gots \o <<Got(t)>>
      PROVE  Tidy(unread') /\ FlattenSeq(Gots') \o WithoutLineEnds(unread') = WithoutLineEnds(source.text)
  <2>1. Tidy(unread) /\ FlattenSeq(Gots) \o WithoutLineEnds(unread) = WithoutLineEnds(source.text)
    BY <1>1, <1>7 DEF Spelled
  <2>2. PICK n : n = Fgets
    OBVIOUS
  <2>3. n = Min({Len(unread), MaxLine - 1} \cup {i \in DOMAIN unread : unread[i] = "LF"})
    BY <2>2 DEF Fgets
  <2>4. PICK p, r : p = SubSeq(unread, 1, n) /\ r = SubSeq(unread, n + 1, Len(unread))
    OBVIOUS
  <2>5. /\ Got(Shown(p)) = WithoutLineEnds(p) /\ p \in Seq(Chars)
        /\ r \in Seq(Chars) /\ Tidy(r) /\ unread = p \o r
    BY <1>1, <1>2, <2>1, <2>3, <2>4, PieceTaken
  <2>6. r = unread' /\ Got(t) = WithoutLineEnds(p)
    BY <1>1, <1>4, <2>2, <2>4, <2>5
  <2>7. PICK f, x, y : f = FlattenSeq(Gots) /\ x = WithoutLineEnds(p) /\ y = WithoutLineEnds(r)
    OBVIOUS
  <2>8. x \in Seq(Chars) /\ y \in Seq(Chars)
    <3>1. \A u \in Seq(Chars) : WithoutLineEnds(u) \in Seq(Chars)
      <4>1. ASSUME NEW u \in Seq(Chars)
            PROVE  At(u, {i \in DOMAIN u : Kept(u[i])}) \in Seq(Chars)
        <5>1. {i \in DOMAIN u : Kept(u[i])} \in SUBSET DOMAIN u
          OBVIOUS
        <5> QED
          BY <5>1, AtProperties
      <4> QED
        BY <4>1 DEF WithoutLineEnds
    <3> QED
      BY <2>5, <2>7, <3>1
  <2>9. f \in Seq(Chars) /\ FlattenSeq(Gots \o <<x>>) = f \o x
    BY <1>2, <2>7, <2>8, FlattenAppend
  <2>10. PICK g : g = FlattenSeq(Gots')
    OBVIOUS
  <2>11. g = f \o x
    BY <1>7, <2>6, <2>7, <2>9, <2>10
  <2>12. WithoutLineEnds(unread) = x \o y
    BY <2>5, <2>7, WithoutLineEndsJoined
  <2>13. (f \o x) \o y = f \o (x \o y)
    BY <2>8, <2>9, ConcatAssociative
  <2>14. f \o (x \o y) = WithoutLineEnds(source.text)
    BY <2>1, <2>7, <2>12
  <2>15. g \o y = WithoutLineEnds(source.text)
    BY <2>11, <2>13, <2>14
  <2>16. Then(g, y) = WithoutLineEnds(source.text)
    BY <2>15 DEF Then
  <2>17. y = WithoutLineEnds(unread')
    BY <2>6, <2>7
  <2> QED
    BY <2>5, <2>6, <2>10, <2>16, <2>17 DEF Then
<1> QED
  BY <1>1, <1>4, <1>6, <1>7 DEF Spelled

\* An empty sequence of characters.
LEMMA NoCharacters ==
    WithoutLineEnds(<< >>) = << >> /\ FlattenSeq(<< >>) = << >> /\ Got(<< >>) = << >>
<1>1. PICK e : e = << >>
  OBVIOUS
<1>2. e \in Seq(Chars) /\ Len(e) = 0 /\ DOMAIN e = {}
  BY <1>1, EmptySeq
<1>3. WithoutLineEnds(e) = << >>
  <2>1. DOMAIN e = {} => {i \in DOMAIN e : Kept(e[i])} = {}
    OBVIOUS
  <2>2. At(e, {}) = << >>
    BY <1>2, AtNone
  <2> QED
    BY <1>2, <2>1, <2>2 DEF WithoutLineEnds
<1>4. FlattenSeq(<< >>) = << >>
  BY DEF FlattenSeq
<1>5. Got(e) = e
  <2>1. e \in Seq(Chars) /\ \A i \in 1 .. Len(e) : Kept(e[i])
    BY <1>2
  <2> QED
    BY <2>1, GotKept
<1> QED
  BY <1>1, <1>3, <1>4, <1>5

\* The end of the file.
LEMMA SpelledEndOfFile ==
    ASSUME PlainTexts, TypeInv, Accounts, Spelled, EndOfFile
    PROVE  Spelled'
<1> DEFINE frame == IF sent = << >> THEN Encode(Data(source.dest, << >>)) ELSE << >>
<1>1. /\ result = "sending" /\ source.kind = "file" /\ unread = << >> /\ result' = "ok"
      /\ sent' = IF frame = << >> THEN sent ELSE << << >> >>
      /\ UNCHANGED source
  BY DEF EndOfFile
<1>2. Gots \in Seq(Seq(Chars))
  BY AccountTypes
<1>3. SUFFICES ASSUME Tidy(source.text)
               PROVE  FlattenSeq(Gots') = WithoutLineEnds(source.text)
  BY <1>1 DEF Spelled
<1>4. FlattenSeq(Gots) = WithoutLineEnds(source.text)
  <2>1. FlattenSeq(Gots) \o << >> = WithoutLineEnds(source.text)
    BY <1>1, <1>3, NoCharacters DEF Spelled
  <2>2. PICK f : f = FlattenSeq(Gots)
    OBVIOUS
  <2>3. f \in Seq(Chars)
    <3>1. << >> \in Seq(Chars)
      BY EmptySeq
    <3> QED
      BY <1>2, <2>2, <3>1, FlattenAppend
  <2> QED
    BY <2>1, <2>2, <2>3, ConcatEmptySeq
<1>5. CASE frame = << >>
  <2>1. Gots' = Gots
    BY <1>1, <1>5 DEF Gots
  <2> QED
    BY <1>4, <2>1
<1>6. CASE frame # << >>
  <2>1. sent = << >> /\ sent' = << << >> >>
    BY <1>1, <1>6
  <2>2. Gots = << >>
    BY <2>1 DEF Gots
  <2>3. WithoutLineEnds(source.text) = << >>
    BY <1>4, <2>2, NoCharacters
  <2>4. Gots' = << << >> >>
    <3>1. Gots' = [k \in DOMAIN << << >> >> |-> Got(<< << >> >>[k])]
      BY <2>1 DEF Gots
    <3>2. DOMAIN << << >> >> = {1} /\ << << >> >>[1] = << >>
      OBVIOUS
    <3>3. Gots' = [k \in {1} |-> << >>]
      BY <3>1, <3>2, NoCharacters
    <3> QED
      BY <3>3
  <2>5. FlattenSeq(<< << >> >>) = << >>
    <3>1. PICK e, x : e = << >> /\ x = << >>
      OBVIOUS
    <3>2. e \in Seq(Seq(Chars)) /\ x \in Seq(Chars)
      BY <3>1, EmptySeq
    <3>3. FlattenSeq(e \o <<x>>) = FlattenSeq(e) \o x
      BY <3>2, FlattenAppend
    <3>4. e \o <<x>> = << << >> >>
      <4>1. PICK o : o = << << >> >>
        OBVIOUS
      <4>2. o \in Seq(Seq(Chars))
        BY <3>1, <3>2, <4>1
      <4>3. << >> \o o = o
        BY <4>2, ConcatEmptySeq
      <4> QED
        BY <3>1, <4>1, <4>3
    <3>5. x \o x = x
      BY <3>1, <3>2, ConcatEmptySeq
    <3> QED
      BY <3>1, <3>3, <3>4, <3>5, NoCharacters
  <2>6. PICK g : g = Gots'
    OBVIOUS
  <2>7. FlattenSeq(g) = << >>
    BY <2>4, <2>5, <2>6
  <2> QED
    BY <2>3, <2>6, <2>7
<1> QED
  BY <1>5, <1>6

\* Every step.
LEMMA NextSpelled ==
    ASSUME PlainTexts
    PROVE  TypeInv /\ Accounts /\ Spelled /\ [Next]_vars => Spelled'
<1> SUFFICES ASSUME TypeInv, Accounts, Spelled, [Next]_vars
             PROVE  Spelled'
  OBVIOUS
<1>1. CASE Connect
  <2>1. /\ result = "none" /\ result' \in {"failed", "sending"} /\ UNCHANGED <<source, unread, sent>>
    BY <1>1 DEF Connect
  <2>2. Gots' = Gots
    BY <2>1 DEF Gots
  <2> QED
    BY <2>1, <2>2 DEF Spelled
<1>2. CASE SendMessage
  BY <1>2 DEF SendMessage, Spelled
<1>3. CASE SendLine
  BY <1>3, SpelledSendLine
<1>4. CASE EndOfFile
  BY <1>4, SpelledEndOfFile
<1>5. CASE ReadSender \/ ReadNeighbor \/ ReadListener \/ Listen \/ Hear \/ UNCHANGED vars
  <2>1. UNCHANGED <<source, unread, sent, result>>
    BY <1>5 DEF ReadSender, ReadNeighbor, ReadListener, Listen, Hear, vars, senderVars
  <2>2. Gots' = Gots
    BY <2>1 DEF Gots
  <2> QED
    BY <2>1, <2>2 DEF Spelled
<1> QED
  BY <1>1, <1>2, <1>3, <1>4, <1>5 DEF Next

\* Nothing is sent yet.
LEMMA InitSpelled == Init => Spelled
<1> SUFFICES ASSUME Init
             PROVE  Spelled
  OBVIOUS
<1>1. sent = << >> /\ unread = source.text /\ result = "none" /\ source \in Sources
  BY DEF Init
<1>2. Gots = << >>
  BY <1>1 DEF Gots
<1>3. WithoutLineEnds(source.text) \in Seq(Chars)
  <2>1. PICK t : t = source.text
    OBVIOUS
  <2>2. t \in Seq(Chars)
    <3>1. source.text \in Seq(ToSet(source.text)) /\ ToSet(source.text) \subseteq Chars
      BY <1>1, Characters
    <3> QED
      BY <2>1, <3>1, SeqMonotonic
  <2>3. {i \in DOMAIN t : Kept(t[i])} \in SUBSET DOMAIN t
    OBVIOUS
  <2>4. At(t, {i \in DOMAIN t : Kept(t[i])}) \in Seq(Chars)
    BY <2>2, <2>3, AtProperties
  <2> QED
    BY <2>1, <2>4 DEF WithoutLineEnds
<1>4. << >> \o WithoutLineEnds(source.text) = WithoutLineEnds(source.text)
  BY <1>3, ConcatEmptySeq
<1> QED
  BY <1>1, <1>2, <1>4, NoCharacters DEF Spelled

-----------------------------------------------------------------------------
(* The theorem.                                                             *)

\* When all has arrived, the file has what was sent: the same in number, and
\* within one router the same in order.
LEMMA AllArrived ==
    ASSUME TypeInv, Accounts, Drained, cuts = 0, ~ missed
    PROVE  ToBag(output) = ToBag(Gots) /\ (~ far => output = Gots)
<1>1. output \in Seq(Seq(Chars)) /\ Gots \in Seq(Seq(Chars))
  BY AccountTypes
<1>2. up = << >> /\ hops = << >> /\ down = << >>
  BY DEF Drained
<1>3. OnHops = << >> /\ Messages(up) = << >> /\ Messages(down) = << >>
  BY <1>2, NoLines DEF OnHops
<1>4. CASE ~ far
  <2>1. output \o (<< >> \o << >>) = Gots
    BY <1>3, <1>4 DEF Accounts
  <2>2. << >> \o << >> = << >>
    <3>1. << >> \in Seq(Chars)
      BY EmptySeq
    <3> QED
      BY <3>1, ConcatEmptySeq
  <2>3. output \o << >> = output
    BY <1>1, ConcatEmptySeq
  <2>4. output = Gots
    BY <2>1, <2>2, <2>3
  <2> QED
    BY <2>4
<1>5. CASE far
  <2>1. ASSUME NEW v \in Seq(Chars)
        PROVE  Count(output, v) = Count(Gots, v)
    <3>1. Count(output, v) + (Count(<< >>, v) + Count(<< >>, <<v>>) + Count(<< >>, v)) = Count(Gots, v)
      BY <1>3, <1>5 DEF Accounts, InFile, OnWay
    <3>2. Count(<< >>, v) = 0 /\ Count(<< >>, <<v>>) = 0
      BY CountNone
    <3>3. Count(output, v) \in Nat
      BY <1>1, CountType
    <3> QED
      BY <3>1, <3>2, <3>3
  <2>2. ToBag(output) = ToBag(Gots)
    BY <1>1, <2>1, CountsGiveBag
  <2> QED
    BY <1>5, <2>2
<1> QED
  BY <1>4, <1>5

\* A file whose lines fit, and a message: what was sent is what was wanted.
LEMMA SentAsWanted ==
    ASSUME TypeInv, Progress, result = "ok", source.dest \in Addresses,
           ~ (source.kind = "file" /\ \E l \in ToSet(Lines(Ended(source.text))) : IsLong(l))
    PROVE  Wanted = Gots
<1>1. source.kind \in Kinds
  BY FileRelayAssumption DEF TypeInv, TypeOK
<1>2. CASE source.kind = "file"
  <2>1. NoneLong(source.text)
    <3>1. CASE source.text = << >>
      BY <3>1, NoLines
    <3>2. CASE source.text # << >>
      BY <1>2, <3>2 DEF NoneLong, Closed
    <3> QED
      BY <3>1, <3>2
  <2>2. Gots = TextLines(source.text)
    BY <1>2, <2>1 DEF Progress
  <2> QED
    BY <1>2, <2>2 DEF Wanted
<1>3. CASE source.kind = "message"
  <2>1. Gots = <<Got(source.text)>>
    BY <1>3 DEF Progress
  <2> QED
    BY <1>3, <2>1 DEF Wanted, Got
<1>4. CASE source.kind = "missing"
  BY <1>4 DEF Progress
<1> QED
  BY <1>1, <1>2, <1>3, <1>4 DEF Kinds

\* Both together.
LEMMA ArrivedIsComplete ==
    ASSUME TidyTexts, TypeInv, Accounts, Progress, Spelled
    PROVE  Complete
<1> DEFINE Splits == source.kind = "file" /\ \E l \in ToSet(Lines(Ended(source.text))) : IsLong(l)
<1> SUFFICES ASSUME result = "ok", source.dest = host, Drained, cuts = 0, ~ missed
             PROVE  IF Splits THEN ~ far => FlattenSeq(output) = WithoutLineEnds(source.text)
                    ELSE ToBag(output) = ToBag(Wanted) /\ (~ far => output = Wanted)
  BY DEF Complete
<1>1. source \in Sources /\ source.dest \in Addresses
  BY Characters DEF TypeInv, TypeOK
<1>2. ToBag(output) = ToBag(Gots) /\ (~ far => output = Gots)
  BY AllArrived
<1>3. CASE Splits
  <2>1. source.kind = "file" /\ Tidy(source.text)
    BY <1>1, <1>3 DEF TidyTexts
  <2>2. FlattenSeq(Gots) = WithoutLineEnds(source.text)
    BY <2>1 DEF Spelled
  <2> QED
    BY <1>2, <1>3, <2>2
<1>4. CASE ~ Splits
  <2>1. Wanted = Gots
    BY <1>1, <1>4, SentAsWanted
  <2> QED
    BY <1>2, <1>4, <2>1
<1> QED
  BY <1>3, <1>4

\* Complete: when no recv ends within a line and nothing is dropped, a file sent
\* with success arrives line for line, or, where fgets had to split a line,
\* character for character, and a message up to its first line end; within one
\* router in their order.
THEOREM NothingIsLost ==
    ASSUME PlainTexts, Arguments, TidyTexts
    PROVE  Spec => []Complete
<1> DEFINE IInv == TypeInv /\ Origins /\ OneLines /\ Accounts /\ Progress /\ Spelled
<1>1. Init => IInv
  BY InitTypes, InitOrigins, InitAccounts, InitSpelled
<1>2. IInv /\ [Next]_vars => IInv'
  BY NextTypes, NextOrigins, NextOneLines, NextAccounts, NextSpelled
<1>3. IInv => Complete
  BY ArrivedIsComplete
<1> QED
  BY <1>1, <1>2, <1>3, PTL DEF Spec
=============================================================================
