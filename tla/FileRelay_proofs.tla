-------------------------- MODULE FileRelay_proofs --------------------------
(* Theorems about FileRelay, for every table of hosts, every size of the     *)
(* buffers, every text that --send may be given and every number of cuts.    *)
EXTENDS FileRelay, MinTheorems, SequenceTheorems, FiniteSetTheorems, TLAPS

\* No text given to --send has a type word in it.  (A text that looks like a
\* frame would be taken for one wherever a cut sets its beginning free.)
PlainTexts == \A s \in Sources : ToSet(s.text) \cap Types = {}

\* The characters of the streams.
TextChars    == UNION {ToSet(s.text) : s \in Sources}
AddressChars == UNION {ToSet(ip) : ip \in Addresses}
Chars        == TextChars \cup AddressChars \cup Types \cup LineEnds \cup {"|"}

-----------------------------------------------------------------------------
(* The inductive invariants.                                                *)

\* s is the beginning of t, or the end of it, place by place.
Begins(s, t) == Len(s) <= Len(t) /\ \A i \in 1 .. Len(s) : s[i] = t[i]
Ends(s, t)   == Len(s) <= Len(t) /\ \A i \in 1 .. Len(s) : s[i] = t[Len(t) - Len(s) + i]

\* A stream that is nothing, or ends with a line end.
Whole(stream) == stream = << >> \/ stream[Len(stream)] = "LF"

\* A line and its line end fit into the buffer, and leave room for the NUL.
ShortLines(stream) ==
    \A p, q \in 1 .. Len(stream) : p <= q /\ (\A r \in p .. q : stream[r] # "LF") => q - p + 2 < BufSize

\* What the variables hold; no connection ever ends within a frame, and a line
\* on the sender's connection is shorter than the buffer.
Streams ==
    /\ unread \in Seq(ToSet(source.text)) /\ Ends(unread, source.text)
    /\ sent \in Seq(Seq(ToSet(source.text)))
    /\ sent # << >> => source.dest \in Addresses
    /\ up \in Seq(Chars) /\ Whole(up) /\ ShortLines(up)
    /\ hops \in Seq(Seq(Chars)) /\ \A i \in DOMAIN hops : Whole(hops[i])
    /\ hello \in Seq(Chars)
    /\ down \in Seq(Chars) /\ Whole(down)
    /\ output \in Seq(Seq(Chars))

TypeInv == TypeOK /\ Streams

\* Where the frames of a stream begin, and that what follows there, as far as
\* the line goes, is the beginning of f.
Heads(stream) == {p \in 1 .. Len(stream) : stream[p] = "DATA"}
Follows(stream, p, f) ==
    \A q \in p .. Len(stream) :
        (\A r \in p .. q : stream[r] # "LF") => q - p + 1 <= Len(f) /\ stream[q] = f[q - p + 1]

\* Two frames that were sent, in this order unless the order is free.
Precedes(k, l, free) == k # l /\ (free \/ k < l)
Apart(K, L, free)    == \A k \in K, l \in L : Precedes(k, l, free)

\* The frames that begin in the stream are those that o tells, each once.
CarriedBy(o, stream, frames, free) ==
    /\ \A p \in Heads(stream) : p = 1 \/ stream[p - 1] = "LF"
    /\ \A p \in Heads(stream) : Follows(stream, p, frames[o[p]])
    /\ \A p, q \in Heads(stream) : p < q => Precedes(o[p], o[q], free)
Carries(stream, K, frames, free) == \E o \in [Heads(stream) -> K] : CarriedBy(o, stream, frames, free)

\* The texts are related by R to those that o tells, each once.
SourcedBy(o, texts, R, free) ==
    /\ \A i \in DOMAIN texts : <<texts[i], o[i]>> \in R
    /\ \A i, j \in DOMAIN texts : i < j => Precedes(o[i], o[j], free)
Sourced(texts, K, R, free) == \E o \in [DOMAIN texts -> K] : SourcedBy(o, texts, R, free)

\* A text that is the beginning of a frame; a text that is the beginning of
\* what was sent.
PartOfFrame(frames) ==
    {e \in Seq(Chars) \X DOMAIN frames :
        /\ Begins(e[1], frames[e[2]])
        /\ \A q \in 1 .. Len(e[1]) : e[1][q] # "LF" /\ (q # 1 => e[1][q] # "DATA")}
PartOfText(texts) == {e \in Seq(Chars) \X DOMAIN texts : Begins(e[1], texts[e[2]])}

\* The frames that were sent, by their numbers.
Frames == [k \in DOMAIN sent |-> FrameText(Data(source.dest, sent[k]))]

\* Wherever a frame is, it is in no other place, and in the order of sending
\* if that is not free: Ko are those of the lines in the file, Kd those on the way to the
\* listener, Kh[i] those on a connection between the routers and Ku those that
\* the sender's router has not read.
InOrder(Ko, Kd, Kh, Ku, free) ==
    /\ Apart(Ko, Kd, free) /\ Apart(Ko, Ku, free) /\ Apart(Kd, Ku, free)
    /\ \A i \in DOMAIN Kh : Apart(Ko, Kh[i], free) /\ Apart(Kd, Kh[i], free) /\ Apart(Kh[i], Ku, free)
    /\ \A i, j \in DOMAIN Kh : i # j => Apart(Kh[i], Kh[j], free)

Traced(Ko, Kd, Kh, Ku) ==
    /\ Sourced(output, Ko, PartOfText(sent), far)
    /\ Carries(down, Kd, Frames, far)
    /\ \A i \in DOMAIN hops : Carries(hops[i], Kh[i], Frames, far)
    /\ Carries(up, Ku, Frames, far)
    /\ InOrder(Ko, Kd, Kh, Ku, far)

\* Each line of the file, and each frame in a stream, whole or in part, comes
\* from one that was sent, and no two from the same.
Origins ==
    /\ hops # << >> => far
    /\ \E Ko, Kd, Ku \in SUBSET DOMAIN sent, Kh \in [DOMAIN hops -> SUBSET DOMAIN sent] :
           Traced(Ko, Kd, Kh, Ku)

\* The route of no address but those in A is the listener's socket, and no
\* frame for another has come to it.
Only(A) == table \subseteq A /\ (Heads(down) # {} \/ output # << >> => source.dest \in A)

Announcement == FrameText([type |-> "ANNOUNCE", ip |-> host])
Beginnings   == {ip \in Addresses : IsPrefix(ip, host)}

\* What the listener's router has to read is its announcement, or has lost the
\* type word, and nothing but addresses that its own begins with are
\* registered; as long as no recv has ended within a line, its own only.
OneHost ==
    /\ hello = Announcement \/ \A p \in 1 .. Len(hello) : hello[p] # "ANNOUNCE"
    /\ Only(Beginnings)
    /\ cuts = 0 => hello \in {<< >>, Announcement} /\ Only({host})

-----------------------------------------------------------------------------
(* The operators on sets and sequences.                                     *)

\* The i-th number of a set is a member, and it grows with i; every member is
\* one of them.
LEMMA AscendingProperties ==
    ASSUME NEW n \in Nat, NEW D \in SUBSET (1 .. n)
    PROVE  /\ Cardinality(D) \in Nat
           /\ Ascending(D) \in [1 .. Cardinality(D) -> D]
           /\ \A i, j \in 1 .. Cardinality(D) : i < j => Ascending(D)[i] < Ascending(D)[j]
           /\ \A x \in D : \E i \in 1 .. Cardinality(D) : Ascending(D)[i] = x
<1> DEFINE Below(x) == {y \in D : y <= x}
           Rank     == [x \in D |-> Cardinality(Below(x))]
<1>0. \A x \in D : x \in Nat
  OBVIOUS
<1>1. IsFiniteSet(D) /\ Cardinality(D) \in Nat
  <2>1. IsFiniteSet(1 .. n)
    BY FS_Interval
  <2> QED
    BY <2>1, FS_Subset, FS_CardinalityType
<1>2. \A x \in D : Rank[x] \in 1 .. Cardinality(D)
  <2> TAKE x \in D
  <2>1. Below(x) \in SUBSET D /\ {x} \in SUBSET Below(x)
    OBVIOUS
  <2>2. IsFiniteSet(Below(x)) /\ Cardinality(Below(x)) <= Cardinality(D)
    BY <2>1, <1>1, FS_Subset
  <2>3. Cardinality({x}) <= Cardinality(Below(x)) /\ Cardinality({x}) = 1
    BY <2>1, <2>2, FS_Subset, FS_Singleton
  <2> QED
    BY <1>1, <2>2, <2>3, FS_CardinalityType
<1>3. ASSUME NEW x \in D, NEW y \in D, x <= y
      PROVE  Below(x) \in SUBSET Below(y) /\ Below(y) \in SUBSET D /\ Rank[x] <= Rank[y]
  <2>1. Below(x) \in SUBSET Below(y) /\ Below(y) \in SUBSET D
    <3>1. \A z \in D : z <= x => z <= y
      BY <1>0, <1>3
    <3> QED
      BY <3>1
  <2>2. IsFiniteSet(Below(y))
    BY <2>1, <1>1, FS_Subset
  <2> QED
    BY <2>1, <2>2, FS_Subset
<1>4. \A x, y \in D : Rank[x] = Rank[y] => x = y
  <2>1. ASSUME NEW x \in D, NEW y \in D, Rank[x] = Rank[y], x <= y
        PROVE  x = y
    <3>1. Below(x) \in SUBSET Below(y) /\ Below(y) \in SUBSET D
      BY <2>1, <1>3
    <3>2. Below(x) = Below(y)
      BY <3>1, <2>1, <1>1, FS_Subset
    <3>3. y \in Below(x)
      BY <3>2
    <3> QED
      BY <3>3, <2>1
  <2> QED
    BY <2>1, <1>0
<1>5. Rank \in Injection(D, 1 .. Cardinality(D))
  BY <1>2, <1>4 DEF Injection, IsInjective
<1>6. IsFiniteSet(1 .. Cardinality(D)) /\ Cardinality(1 .. Cardinality(D)) = Cardinality(D)
  BY <1>1, FS_Interval
<1>7. Rank \in Surjection(D, 1 .. Cardinality(D))
  BY <1>5, <1>6, FS_Injection
<1>8. \A i \in 1 .. Cardinality(D) : Ascending(D)[i] \in D /\ Rank[Ascending(D)[i]] = i
  <2> TAKE i \in 1 .. Cardinality(D)
  <2>1. \E x \in D : Cardinality({y \in D : y <= x}) = i
    BY <1>7 DEF Surjection
  <2> QED
    BY <2>1 DEF Ascending
<1>9. Ascending(D) \in [1 .. Cardinality(D) -> D]
  BY <1>8 DEF Ascending
<1>10. ASSUME NEW i \in 1 .. Cardinality(D), NEW j \in 1 .. Cardinality(D), i < j
       PROVE  Ascending(D)[i] < Ascending(D)[j]
  <2>1. Ascending(D)[i] \in D /\ Ascending(D)[j] \in D
    BY <1>8
  <2>2. CASE Ascending(D)[j] <= Ascending(D)[i]
    <3>1. Rank[Ascending(D)[j]] <= Rank[Ascending(D)[i]]
      BY <2>1, <2>2, <1>3
    <3>2. j <= i
      BY <3>1, <1>8
    <3> QED
      BY <3>2, <1>10, <1>1
  <2>3. Ascending(D)[i] \in Nat /\ Ascending(D)[j] \in Nat
    BY <2>1, <1>0
  <2> QED
    BY <2>2, <2>3
<1>11. \A x \in D : \E i \in 1 .. Cardinality(D) : Ascending(D)[i] = x
  BY <1>2, <1>4, <1>8
<1> QED
  BY <1>1, <1>9, <1>10, <1>11

\* What At keeps of a sequence are elements of it, in the same order.
LEMMA AtProperties ==
    ASSUME NEW S, NEW s \in Seq(S), NEW D \in SUBSET DOMAIN s
    PROVE  /\ At(s, D) \in Seq(S)
           /\ Len(At(s, D)) = Cardinality(D) /\ DOMAIN At(s, D) = 1 .. Cardinality(D)
           /\ \A i \in DOMAIN At(s, D) : Ascending(D)[i] \in D /\ At(s, D)[i] = s[Ascending(D)[i]]
           /\ \A i, j \in DOMAIN At(s, D) : i < j => Ascending(D)[i] < Ascending(D)[j]
<1>1. Len(s) \in Nat /\ DOMAIN s = 1 .. Len(s)
  BY LenProperties
<1>2. /\ Cardinality(D) \in Nat
      /\ Ascending(D) \in [1 .. Cardinality(D) -> D]
      /\ \A i, j \in 1 .. Cardinality(D) : i < j => Ascending(D)[i] < Ascending(D)[j]
  BY <1>1, AscendingProperties
<1> DEFINE a == Ascending(D)
           n == Cardinality(D)
<1>3. \A i \in 1 .. n : s[a[i]] \in S
  BY <1>1, <1>2, ElementOfSeq
<1> HIDE DEF a, n
<1>4. At(s, D) = [i \in 1 .. n |-> s[a[i]]]
  BY DEF At, a, n
<1>5. n \in Nat
  BY <1>2 DEF n
<1>6. [i \in 1 .. n |-> s[a[i]]] \in Seq(S) /\ Len([i \in 1 .. n |-> s[a[i]]]) = n
  BY <1>3, <1>5
<1> QED
  BY <1>2, <1>4, <1>5, <1>6 DEF a, n

\* FlattenSeq puts one sequence after the other, and its value is the last of
\* the partial results.
LEMMA FlattenSteps ==
    ASSUME NEW S, NEW seqs \in Seq(Seq(S))
    PROVE  \E g \in [0 .. Len(seqs) -> Seq(S)] :
               /\ g[0] = << >>
               /\ \A i \in 1 .. Len(seqs) : g[i] = g[i - 1] \o seqs[i]
               /\ FlattenSeq(seqs) = g[Len(seqs)]
<1> DEFINE N == Len(seqs)
           Steps(g, n) == /\ g[0] = << >>
                          /\ \A i \in 1 .. n : g[i] = g[i - 1] \o seqs[i]
           T == {n \in Nat : n <= N => \E g \in [0 .. n -> Seq(S)] : Steps(g, n)}
<1>1. N \in Nat /\ \A i \in 1 .. N : seqs[i] \in Seq(S)
  BY LenProperties, ElementOfSeq
<1>2. 0 \in T
  <2> DEFINE g == [i \in 0 .. 0 |-> << >>]
  <2>1. g \in [0 .. 0 -> Seq(S)] /\ Steps(g, 0)
    BY EmptySeq
  <2> QED
    BY <2>1
<1>3. ASSUME NEW n \in Nat, n \in T
      PROVE  n + 1 \in T
  <2>1. SUFFICES ASSUME n + 1 <= N
                 PROVE  \E g \in [0 .. n + 1 -> Seq(S)] : Steps(g, n + 1)
    <3> HIDE DEF Steps
    <3> QED
      BY <1>3
  <2>2. PICK h \in [0 .. n -> Seq(S)] : Steps(h, n)
    <3>1. n <= N
      BY <1>1, <2>1
    <3> HIDE DEF Steps
    <3> QED
      BY <1>3, <3>1
  <2> DEFINE g == [i \in 0 .. n + 1 |-> IF i <= n THEN h[i] ELSE h[n] \o seqs[n + 1]]
  <2>3. h[n] \in Seq(S) /\ seqs[n + 1] \in Seq(S)
    BY <1>1, <2>1
  <2>4. h[n] \o seqs[n + 1] \in Seq(S)
    BY <2>3, ConcatProperties
  <2>5. g \in [0 .. n + 1 -> Seq(S)]
    BY <2>4
  <2>6. Steps(g, n + 1)
    <3>1. g[0] = << >>
      BY <2>2
    <3>2. ASSUME NEW i \in 1 .. n + 1
          PROVE  g[i] = g[i - 1] \o seqs[i]
      <4>1. CASE i <= n
        <5>1. i \in 1 .. n /\ i - 1 \in 0 .. n + 1 /\ i - 1 <= n
          BY <4>1
        <5>2. h[i] = h[i - 1] \o seqs[i]
          BY <5>1, <2>2
        <5>3. g[i] = h[i] /\ g[i - 1] = h[i - 1]
          BY <5>1, <4>1
        <5> QED
          BY <5>2, <5>3
      <4>2. CASE i = n + 1
        <5>1. i - 1 = n /\ i - 1 \in 0 .. n + 1 /\ ~ (i <= n)
          BY <4>2
        <5> QED
          BY <5>1, <4>2
      <4>3. i <= n \/ i = n + 1
        OBVIOUS
      <4> QED
        BY <4>1, <4>2, <4>3
    <3> QED
      BY <3>1, <3>2
  <2> QED
    BY <2>5, <2>6
<1>4. N \in T
  <2> HIDE DEF T
  <2> QED
    BY <1>1, <1>2, <1>3, AllNumbers
<1>5. PICK g \in [0 .. N -> Seq(S)] : Steps(g, N)
  <2> HIDE DEF Steps
  <2> QED
    BY <1>4, <1>1
<1>6. CASE N = 0
  BY <1>5, <1>6, <1>1, EmptySeq DEF FlattenSeq
<1>7. CASE N # 0
  <2> DEFINE Step(f)  == [i \in 1 .. N |-> IF i = 1 THEN seqs[i] ELSE f[i - 1] \o seqs[i]]
             f        == [i \in 1 .. N |-> g[i]]
             chosen   == CHOOSE h : h = Step(h)
  <2>1. f = Step(f)
    <3>1. ASSUME NEW i \in 1 .. N
          PROVE  g[i] = IF i = 1 THEN seqs[i] ELSE f[i - 1] \o seqs[i]
      <4>1. g[i] = g[i - 1] \o seqs[i]
        BY <1>5
      <4>2. CASE i = 1
        BY <4>1, <4>2, <1>1, <1>5, ConcatEmptySeq
      <4>3. CASE i # 1
        <5>1. i - 1 \in 1 .. N
          BY <4>3, <1>1
        <5> QED
          BY <4>1, <4>3, <5>1
      <4> QED
        BY <4>2, <4>3
    <3> QED
      BY <3>1
  <2>2. chosen = Step(chosen)
    BY <2>1
  <2>3. FlattenSeq(seqs) = chosen[N]
    BY <1>7 DEF FlattenSeq
  <2> HIDE DEF chosen
  <2> DEFINE U == {n \in Nat : n + 1 <= N => chosen[n + 1] = g[n + 1]}
  <2>4. \A i \in 1 .. N : chosen[i] = IF i = 1 THEN seqs[i] ELSE chosen[i - 1] \o seqs[i]
    BY <2>2
  <2>5. \A i \in 1 .. N : g[i] = IF i = 1 THEN seqs[i] ELSE g[i - 1] \o seqs[i]
    <3>1. ASSUME NEW i \in 1 .. N
          PROVE  g[i] = IF i = 1 THEN seqs[i] ELSE g[i - 1] \o seqs[i]
      <4>1. g[i] = g[i - 1] \o seqs[i]
        BY <1>5
      <4>2. CASE i = 1
        <5>1. g[i - 1] = << >> /\ seqs[i] \in Seq(S)
          BY <4>2, <1>1, <1>5
        <5> QED
          BY <4>1, <4>2, <5>1, ConcatEmptySeq
      <4> QED
        BY <4>1, <4>2
    <3> QED
      BY <3>1
  <2>6. 0 \in U
    BY <2>4, <2>5
  <2>7. ASSUME NEW n \in Nat, n \in U
        PROVE  n + 1 \in U
    <3>1. SUFFICES ASSUME n + 2 <= N
                   PROVE  chosen[n + 2] = g[n + 2]
      OBVIOUS
    <3>2. chosen[n + 1] = g[n + 1]
      BY <2>7, <3>1, <1>1
    <3>3. n + 2 \in 1 .. N /\ n + 2 # 1 /\ n + 2 - 1 = n + 1
      BY <3>1, <1>1
    <3> QED
      BY <2>4, <2>5, <3>2, <3>3
  <2>8. N - 1 \in U
    <3>1. N - 1 \in Nat
      BY <1>1, <1>7
    <3> HIDE DEF U
    <3> QED
      BY <2>6, <2>7, <3>1, AllNumbers
  <2>9. chosen[N] = g[N]
    BY <2>8, <1>1, <1>7
  <2> QED
    BY <1>5, <2>3, <2>9
<1> QED
  BY <1>6, <1>7

\* What holds of the empty sequence, and after another one of the sequences
\* when it held before, holds of the whole.
LEMMA FlattenInduction ==
    ASSUME NEW S, NEW seqs \in Seq(Seq(S)), NEW P,
           <<0, << >>>> \in P,
           \A i \in 1 .. Len(seqs), s \in Seq(S) : <<i - 1, s>> \in P => <<i, s \o seqs[i]>> \in P
    PROVE  FlattenSeq(seqs) \in Seq(S) /\ <<Len(seqs), FlattenSeq(seqs)>> \in P
<1>1. PICK g \in [0 .. Len(seqs) -> Seq(S)] :
               /\ g[0] = << >>
               /\ \A i \in 1 .. Len(seqs) : g[i] = g[i - 1] \o seqs[i]
               /\ FlattenSeq(seqs) = g[Len(seqs)]
  BY FlattenSteps
<1> DEFINE T == {n \in Nat : n <= Len(seqs) => <<n, g[n]>> \in P}
<1>2. Len(seqs) \in Nat
  BY LenProperties
<1>3. 0 \in T
  BY <1>1
<1>4. ASSUME NEW n \in Nat, n \in T
      PROVE  n + 1 \in T
  <2>1. SUFFICES ASSUME n + 1 <= Len(seqs)
                 PROVE  <<n + 1, g[n + 1]>> \in P
    OBVIOUS
  <2> DEFINE N == Len(seqs)
  <2> HIDE DEF N
  <2>4. n <= N /\ n + 1 \in 1 .. N /\ (n + 1) - 1 = n /\ n \in 0 .. N
    BY <1>2, <2>1 DEF N
  <2>2. <<n, g[n]>> \in P /\ g[n] \in Seq(S) /\ n + 1 \in 1 .. Len(seqs) /\ (n + 1) - 1 = n
    BY <2>4, <1>4 DEF N
  <2>3. g[n + 1] = g[n] \o seqs[n + 1]
    BY <1>1, <2>2
  <2> QED
    BY <2>2, <2>3
<1>5. Len(seqs) \in T
  <2> HIDE DEF T
  <2> QED
    BY <1>2, <1>3, <1>4, AllNumbers
<1> QED
  BY <1>1, <1>2, <1>5

-----------------------------------------------------------------------------
(* The operators on texts.                                                  *)

\* A text divides at its first c.
LEMMA FirstPlace ==
    ASSUME NEW S, NEW text \in Seq(S), NEW c,
           NEW at \in 1 .. Len(text), text[at] = c, \A i \in 1 .. at - 1 : text[i] # c
    PROVE  /\ Before(text, c) = SubSeq(text, 1, at - 1)
           /\ After(text, c) = SubSeq(text, at + 1, Len(text))
<1> DEFINE I == {i \in 1 .. Len(text) : text[i] = c}
<1>1. Len(text) \in Nat
  BY LenProperties
<1>2. I \subseteq Nat /\ at \in I
  BY <1>1
<1>3. Min(I) \in I /\ Min(I) <= at
  BY <1>2, MinIsMember, MinIsLeast
<1>4. Min(I) = at
  <2>1. Min(I) \in Nat /\ text[Min(I)] = c
    BY <1>1, <1>3
  <2>2. ~ (Min(I) <= at - 1)
    BY <1>1, <1>3, <2>1
  <2> QED
    BY <1>3, <2>1, <2>2
<1>5. SelectInSeq(text, LAMBDA x : x = c) = at
  BY <1>2, <1>4 DEF SelectInSeq
<1>6. at # 0
  BY <1>1
<1> QED
  BY <1>5, <1>6 DEF Before, After

\* A text without c does not divide.
LEMMA NoPlace ==
    ASSUME NEW S, NEW text \in Seq(S), NEW c, \A i \in 1 .. Len(text) : text[i] # c
    PROVE  Before(text, c) = text /\ After(text, c) = << >>
BY DEF Before, After, SelectInSeq

\* A text that has c has a first one.
LEMMA HasFirstPlace ==
    ASSUME NEW S, NEW text \in Seq(S), NEW c, NEW k \in 1 .. Len(text), text[k] = c
    PROVE  \E at \in 1 .. Len(text) : text[at] = c /\ \A i \in 1 .. at - 1 : text[i] # c
<1> DEFINE I == {i \in 1 .. Len(text) : text[i] = c}
<1>1. Len(text) \in Nat
  BY LenProperties
<1>2. PICK at \in I : \A i \in I : at <= i
  <2>1. I \subseteq Nat /\ I # {}
    BY <1>1
  <2> HIDE DEF I
  <2> QED
    BY <2>1, LeastMember
<1>3. \A i \in 1 .. at - 1 : text[i] # c
  <2> SUFFICES ASSUME NEW i \in 1 .. at - 1, text[i] = c
               PROVE  FALSE
    OBVIOUS
  <2>1. i \in I
    BY <1>1
  <2> QED
    BY <1>2, <2>1
<1> QED
  BY <1>2, <1>3

\* The part of a text before c is a beginning of it, and the part after it an
\* end.
LEMMA PartsOfText ==
    ASSUME NEW S, NEW text \in Seq(S), NEW c
    PROVE  /\ \E k \in 0 .. Len(text) : Before(text, c) = SubSeq(text, 1, k)
           /\ \E k \in 1 .. Len(text) + 1 : After(text, c) = SubSeq(text, k, Len(text))
<1>1. Len(text) \in Nat
  BY LenProperties
<1>2. CASE \A i \in 1 .. Len(text) : text[i] # c
  <2>1. Before(text, c) = SubSeq(text, 1, Len(text))
    BY <1>2, NoPlace, SubSeqFull
  <2>2. After(text, c) = SubSeq(text, Len(text) + 1, Len(text))
    <3>1. After(text, c) = << >>
      BY <1>2, NoPlace
    <3>2. Len(text) + 1 \in Int /\ Len(text) \in Int /\ Len(text) < Len(text) + 1
      BY <1>1
    <3> QED
      BY <3>1, <3>2, SubSeqEmpty
  <2> QED
    BY <1>1, <2>1, <2>2
<1>3. CASE \E i \in 1 .. Len(text) : text[i] = c
  <2>1. PICK at \in 1 .. Len(text) : text[at] = c /\ \A i \in 1 .. at - 1 : text[i] # c
    BY <1>3, HasFirstPlace
  <2>2. at - 1 \in 0 .. Len(text) /\ at + 1 \in 1 .. Len(text) + 1
    BY <1>1
  <2> QED
    BY <2>1, <2>2, FirstPlace
<1> QED
  BY <1>2, <1>3

\* A part of a text is a text with the characters of that part.
LEMMA SubSeqShape ==
    ASSUME NEW S, NEW text \in Seq(S), NEW a \in Nat \ {0}, NEW b \in Int, b <= Len(text)
    PROVE  /\ SubSeq(text, a, b) \in Seq(S)
           /\ Len(SubSeq(text, a, b)) = IF a <= b THEN b - a + 1 ELSE 0
           /\ \A i \in 1 .. Len(SubSeq(text, a, b)) : SubSeq(text, a, b)[i] = text[a + i - 1]
<1>1. Len(text) \in Nat
  BY LenProperties
<1>2. \A i \in a .. b : text[i] \in S
  BY <1>1, ElementOfSeq
<1>3. /\ SubSeq(text, a, b) \in Seq(S)
      /\ Len(SubSeq(text, a, b)) = IF a <= b THEN b - a + 1 ELSE 0
      /\ \A i \in 1 .. b - a + 1 : SubSeq(text, a, b)[i] = text[a + i - 1]
  BY <1>2, SubSeqProperties
<1> QED
  BY <1>3

\* Neither part of a text is longer than it.
LEMMA PartsAreShorter ==
    ASSUME NEW S, NEW text \in Seq(S), NEW c
    PROVE  /\ Before(text, c) \in Seq(S) /\ Len(Before(text, c)) <= Len(text)
           /\ After(text, c) \in Seq(S) /\ Len(After(text, c)) <= Len(text)
<1>1. Len(text) \in Nat
  BY LenProperties
<1>2. PICK k \in 0 .. Len(text) : Before(text, c) = SubSeq(text, 1, k)
  BY PartsOfText
<1>3. PICK j \in 1 .. Len(text) + 1 : After(text, c) = SubSeq(text, j, Len(text))
  BY PartsOfText
<1>4. SubSeq(text, 1, k) \in Seq(S) /\ Len(SubSeq(text, 1, k)) <= Len(text)
  BY <1>1, SubSeqShape
<1>5. SubSeq(text, j, Len(text)) \in Seq(S) /\ Len(SubSeq(text, j, Len(text))) <= Len(text)
  BY <1>1, SubSeqShape
<1> QED
  BY <1>2, <1>3, <1>4, <1>5

\* Without its line ends, a text ends with its last character of another kind.
LEMMA WithoutEndShape ==
    ASSUME NEW S, NEW text \in Seq(S)
    PROVE  \E n \in 0 .. Len(text) : /\ WithoutEnd(text) = SubSeq(text, 1, n)
                                     /\ \A i \in n + 1 .. Len(text) : ~ Kept(text[i])
<1> DEFINE I == {i \in 1 .. Len(text) : Kept(text[i])}
<1>1. Len(text) \in Nat
  BY LenProperties
<1>2. CASE I = {}
  <2>1. WithoutEnd(text) = SubSeq(text, 1, 0)
    BY <1>2 DEF WithoutEnd, SelectLastInSeq
  <2> QED
    BY <1>1, <1>2, <2>1
<1>3. CASE I # {}
  <2> DEFINE J == {Len(text) - i : i \in I}
  <2>1. PICK j \in J : \A k \in J : j <= k
    <3>1. J \subseteq Nat /\ J # {}
      BY <1>1, <1>3
    <3> HIDE DEF J
    <3> QED
      BY <3>1, LeastMember
  <2>2. PICK n \in I : j = Len(text) - n
    BY <2>1
  <2>3. \A i \in I : i <= n
    <3> TAKE i \in I
    <3>1. Len(text) - n <= Len(text) - i
      BY <2>1, <2>2
    <3> QED
      BY <1>1, <3>1
  <2> DEFINE m == Max(I)
  <2>4. m \in I /\ \A i \in I : i <= m
    <3>1. m \in I /\ \A i \in I : m >= i
      BY <2>3 DEF Max
    <3> QED
      BY <1>1, <3>1
  <2>5. WithoutEnd(text) = SubSeq(text, 1, m)
    BY <1>3 DEF WithoutEnd, SelectLastInSeq
  <2> HIDE DEF m
  <2>6. \A i \in m + 1 .. Len(text) : ~ Kept(text[i])
    <3> SUFFICES ASSUME NEW i \in m + 1 .. Len(text), Kept(text[i])
                 PROVE  FALSE
      OBVIOUS
    <3>1. i \in I
      BY <1>1, <2>4
    <3> QED
      BY <1>1, <2>4, <3>1
  <2> QED
    BY <1>1, <2>4, <2>5, <2>6
<1> QED
  BY <1>2, <1>3

\* Without line ends at both ends, a text is a part of it.
LEMMA TrimmedShape ==
    ASSUME NEW S, NEW text \in Seq(S)
    PROVE  \E m \in 1 .. Len(text) + 1, n \in 0 .. Len(text) :
               /\ Trimmed(text) = SubSeq(text, m, n)
               /\ \A i \in 1 .. m - 1 : ~ Kept(text[i])
               /\ \A i \in n + 1 .. Len(text) : ~ Kept(text[i])
<1>1. Len(text) \in Nat /\ DOMAIN text = 1 .. Len(text)
  BY LenProperties
<1>2. CASE \A i \in DOMAIN text : ~ Kept(text[i])
  <2>1. Trimmed(text) = << >>
    BY <1>2 DEF Trimmed
  <2>2. Trimmed(text) = SubSeq(text, 1, 0)
    BY <2>1, SubSeqEmpty
  <2> QED
    BY <1>1, <1>2, <2>2
<1>3. CASE ~ \A i \in DOMAIN text : ~ Kept(text[i])
  <2> DEFINE I == {i \in 1 .. Len(text) : Kept(text[i])}
             m == Min(I)
  <2>1. I \subseteq Nat /\ I # {}
    BY <1>1, <1>3
  <2>2. m \in I /\ \A i \in I : m <= i
    BY <2>1, MinIsMember, MinIsLeast
  <2>3. SelectInSeq(text, Kept) = m
    BY <2>1 DEF SelectInSeq
  <2> HIDE DEF m
  <2>4. PICK n \in 0 .. Len(text) : /\ WithoutEnd(text) = SubSeq(text, 1, n)
                                    /\ \A i \in n + 1 .. Len(text) : ~ Kept(text[i])
    BY WithoutEndShape
  <2>5. m \in 1 .. Len(text) /\ m <= n
    <3>1. m \in 1 .. Len(text) /\ Kept(text[m])
      BY <2>2
    <3>2. ~ (m \in n + 1 .. Len(text))
      BY <2>4, <3>1
    <3> QED
      BY <1>1, <3>1, <3>2
  <2>6. Len(SubSeq(text, 1, n)) = n
    BY <1>1, SubSeqShape
  <2>7. Trimmed(text) = SubSeq(SubSeq(text, 1, n), m, n)
    BY <1>3, <2>3, <2>4, <2>6 DEF Trimmed
  <2>8. SubSeq(SubSeq(text, 1, n), m, n) = SubSeq(text, m, n)
    <3>1. n \in 1 .. Len(text) /\ 1 \in 1 .. Len(text) /\ m \in 1 .. n - 1 + 1 /\ n \in 1 .. n - 1 + 1
      BY <1>1, <2>5
    <3>2. SubSeq(SubSeq(text, 1, n), m, n) = SubSeq(text, 1 + m - 1, 1 + n - 1)
      BY <3>1, SubSeqOfSubSeq
    <3>3. 1 + m - 1 = m /\ 1 + n - 1 = n
      BY <3>1
    <3> QED
      BY <3>2, <3>3
  <2>9. \A i \in 1 .. m - 1 : ~ Kept(text[i])
    <3> SUFFICES ASSUME NEW i \in 1 .. m - 1, Kept(text[i])
                 PROVE  FALSE
      OBVIOUS
    <3>1. i \in I
      BY <1>1, <2>5
    <3> QED
      BY <2>2, <2>5, <3>1
  <2>10. m \in 1 .. Len(text) + 1 /\ Trimmed(text) = SubSeq(text, m, n)
    BY <1>1, <2>5, <2>7, <2>8
  <2> QED
    BY <2>4, <2>9, <2>10
<1> QED
  BY <1>2, <1>3

\* The line that decodeFrame looks at.
LineOf(text) == Trimmed(Before(text, "NUL"))

\* It is a part of the text, and only line ends are in front of it.
LEMMA LineOfShape ==
    ASSUME NEW S, NEW text \in Seq(S)
    PROVE  \E m \in 1 .. Len(text) + 1, n \in 0 .. Len(text) :
               /\ LineOf(text) = SubSeq(text, m, n)
               /\ \A i \in 1 .. m - 1 : ~ Kept(text[i])
<1>1. Len(text) \in Nat
  BY LenProperties
<1>2. PICK k \in 0 .. Len(text) : Before(text, "NUL") = SubSeq(text, 1, k)
  BY PartsOfText
<1> DEFINE b == SubSeq(text, 1, k)
<1>3. /\ b \in Seq(S) /\ Len(b) = k
      /\ \A i \in 1 .. k : b[i] = text[i]
  BY <1>1, SubSeqShape
<1> HIDE DEF b
<1>4. PICK m \in 1 .. k + 1, n \in 0 .. k : /\ Trimmed(b) = SubSeq(b, m, n)
                                            /\ \A i \in 1 .. m - 1 : ~ Kept(b[i])
  BY <1>3, TrimmedShape
<1>5. LineOf(text) = SubSeq(b, m, n)
  BY <1>2, <1>4 DEF LineOf, b
<1>6. m \in 1 .. Len(text) + 1 /\ n \in 0 .. Len(text)
  BY <1>1
<1>7. SubSeq(b, m, n) = SubSeq(text, m, n)
  <2>1. m \in Int /\ n \in Int /\ m \in Nat \ {0} /\ n <= Len(b) /\ n <= Len(text)
    BY <1>1, <1>3
  <2>2. CASE n < m
    BY <2>1, <2>2, SubSeqEmpty
  <2>3. CASE m <= n
    <3>1. /\ SubSeq(b, m, n) \in Seq(S) /\ Len(SubSeq(b, m, n)) = n - m + 1
          /\ \A i \in 1 .. n - m + 1 : SubSeq(b, m, n)[i] = b[m + i - 1]
      BY <2>1, <2>3, <1>3, SubSeqShape
    <3>2. /\ SubSeq(text, m, n) \in Seq(S) /\ Len(SubSeq(text, m, n)) = n - m + 1
          /\ \A i \in 1 .. n - m + 1 : SubSeq(text, m, n)[i] = text[m + i - 1]
      BY <2>1, <2>3, SubSeqShape
    <3>3. \A i \in 1 .. n - m + 1 : b[m + i - 1] = text[m + i - 1]
      BY <1>3, <2>3
    <3> QED
      BY <3>1, <3>2, <3>3, SeqEqual
  <2> QED
    BY <2>1, <2>2, <2>3
<1>8. \A i \in 1 .. m - 1 : ~ Kept(text[i])
  BY <1>3, <1>4
<1> QED
  BY <1>5, <1>6, <1>7, <1>8

\* A text that is decoded begins, after line ends, with its type and a
\* separator; the data is a part of it.
LEMMA DecodedShape ==
    ASSUME NEW S, NEW text \in Seq(S)
    PROVE  /\ Decode(text).data \in Seq(S) /\ Len(Decode(text).data) <= Len(text)
           /\ Decode(text).type \in Types =>
                  LET rest == After(LineOf(text), "|")
                  IN  /\ \E k \in 1 .. Len(LineOf(text)) : LineOf(text)[k] = "|"
                      /\ LineOf(text) # << >> /\ LineOf(text)[1] = Decode(text).type
                      /\ (\E k \in 1 .. Len(rest) : rest[k] = "|") <=> Decode(text).type = "DATA"
                      /\ Decode(text).ip = Before(rest, "|") /\ Decode(text).ip \in Addresses
                      /\ Decode(text).data = After(rest, "|")
<1> DEFINE line == LineOf(text)
           rest == After(line, "|")
<1>1. Len(text) \in Nat
  BY LenProperties
<1>2. line \in Seq(S) /\ Len(line) <= Len(text)
  <2>1. PICK m \in 1 .. Len(text) + 1, n \in 0 .. Len(text) : line = SubSeq(text, m, n)
    BY LineOfShape
  <2>2. m \in Nat \ {0} /\ n \in Int /\ n <= Len(text)
    BY <1>1
  <2> HIDE DEF line
  <2>3. line \in Seq(S) /\ Len(line) = IF m <= n THEN n - m + 1 ELSE 0
    BY <2>1, <2>2, SubSeqShape
  <2> QED
    BY <1>1, <2>2, <2>3
<1>3. rest \in Seq(S) /\ Len(rest) <= Len(line)
  BY <1>2, PartsAreShorter
<1>4. After(rest, "|") \in Seq(S) /\ Len(After(rest, "|")) <= Len(rest)
  BY <1>3, PartsAreShorter
<1> DEFINE good == /\ Contains(line, "|")
                   /\ Before(line, "|") \in {<<t>> : t \in Types}
                   /\ Contains(rest, "|") <=> line[1] = "DATA"
                   /\ Before(rest, "|") \in Addresses
<1>5. CASE ~ good
  <2>1. Decode(text) = NoMessage
    BY <1>5 DEF Decode, LineOf
  <2>2. Decode(text).type \notin Types /\ Decode(text).data = << >>
    BY <2>1 DEF NoMessage, Types
  <2> QED
    BY <1>1, <2>2, EmptySeq
<1>6. CASE good
  <2>1. Decode(text) = [type |-> line[1], ip |-> Before(rest, "|"), data |-> After(rest, "|")]
    BY <1>6 DEF Decode, LineOf
  <2>2. line # << >>
    BY <1>6, EmptySeq DEF Contains
  <2>3. Len(After(rest, "|")) <= Len(text)
    <3>1. Len(After(rest, "|")) \in Nat /\ Len(rest) \in Nat /\ Len(line) \in Nat
      BY <1>2, <1>3, <1>4, LenProperties
    <3> QED
      BY <1>1, <1>2, <1>3, <1>4, <3>1
  <2> HIDE DEF line
  <2> QED
    BY <1>4, <1>6, <2>1, <2>2, <2>3 DEF Contains, line
<1> QED
  BY <1>5, <1>6

-----------------------------------------------------------------------------
(* Frames.                                                                  *)

\* The places of a DATA frame.
LEMMA DataFrame ==
    ASSUME NEW S, "DATA" \in S, "|" \in S, "LF" \in S, NEW ip \in Seq(S), NEW x \in Seq(S)
    PROVE  LET f == FrameText(Data(ip, x))
           IN  /\ f \in Seq(S) /\ Len(f) = Len(ip) + Len(x) + 4
               /\ f[1] = "DATA" /\ f[2] = "|" /\ f[Len(ip) + 3] = "|" /\ f[Len(f)] = "LF"
               /\ \A i \in 1 .. Len(ip) : f[i + 2] = ip[i]
               /\ \A i \in 1 .. Len(x) : f[Len(ip) + 3 + i] = x[i]
<1> DEFINE a == <<"DATA", "|">>
           b == a \o ip
           c == <<"|">> \o x
           d == b \o c
           f == FrameText(Data(ip, x))
<1>1. f = d \o <<"LF">>
  BY DEF FrameText, Data
<1>2. Len(ip) \in Nat /\ Len(x) \in Nat
  BY LenProperties
<1>3. a \in Seq(S) /\ Len(a) = 2 /\ a[1] = "DATA" /\ a[2] = "|" /\ <<"|">> \in Seq(S) /\ <<"LF">> \in Seq(S)
  OBVIOUS
<1> HIDE DEF a
<1>4. /\ b \in Seq(S) /\ Len(b) = 2 + Len(ip)
      /\ \A i \in 1 .. 2 + Len(ip) : b[i] = IF i <= 2 THEN a[i] ELSE ip[i - 2]
  <2>1. /\ b \in Seq(S) /\ Len(b) = Len(a) + Len(ip)
        /\ \A i \in 1 .. Len(a) + Len(ip) : b[i] = IF i <= Len(a) THEN a[i] ELSE ip[i - Len(a)]
    BY <1>3, ConcatProperties
  <2> HIDE DEF b
  <2> QED
    BY <1>3, <2>1
<1>5. /\ c \in Seq(S) /\ Len(c) = 1 + Len(x)
      /\ \A i \in 1 .. 1 + Len(x) : c[i] = IF i <= 1 THEN "|" ELSE x[i - 1]
  <2>1. Len(<<"|">>) = 1 /\ <<"|">>[1] = "|"
    OBVIOUS
  <2> QED
    BY <1>3, <2>1, ConcatProperties
<1> HIDE DEF b, c
<1>6. /\ d \in Seq(S) /\ Len(d) = Len(ip) + Len(x) + 3
      /\ \A i \in 1 .. Len(ip) + Len(x) + 3 : d[i] = IF i <= 2 + Len(ip) THEN b[i] ELSE c[i - (2 + Len(ip))]
  <2>1. /\ d \in Seq(S) /\ Len(d) = Len(b) + Len(c)
        /\ \A i \in 1 .. Len(b) + Len(c) : d[i] = IF i <= Len(b) THEN b[i] ELSE c[i - Len(b)]
    BY <1>4, <1>5, ConcatProperties
  <2>2. Len(b) + Len(c) = Len(ip) + Len(x) + 3
    BY <1>2, <1>4, <1>5
  <2> QED
    BY <1>4, <2>1, <2>2
<1> HIDE DEF d
<1>7. /\ f \in Seq(S) /\ Len(f) = Len(ip) + Len(x) + 4
      /\ \A i \in 1 .. Len(ip) + Len(x) + 4 : f[i] = IF i <= Len(ip) + Len(x) + 3 THEN d[i] ELSE "LF"
  <2>1. Len(<<"LF">>) = 1 /\ <<"LF">>[1] = "LF"
    OBVIOUS
  <2>2. <<"LF">> \in Seq(S)
    BY <1>3
  <2> DEFINE e == <<"LF">>
  <2>7. f = d \o e
    BY <1>1 DEF e
  <2>8. e \in Seq(S)
    BY <2>2 DEF e
  <2> HIDE DEF e, f
  <2>3. /\ f \in Seq(S) /\ Len(f) = Len(d) + Len(e)
        /\ \A i \in 1 .. Len(d) + Len(e) : f[i] = IF i <= Len(d) THEN d[i] ELSE e[i - Len(d)]
    <3>1. /\ d \o e \in Seq(S) /\ Len(d \o e) = Len(d) + Len(e)
          /\ \A i \in 1 .. Len(d) + Len(e) : (d \o e)[i] = IF i <= Len(d) THEN d[i] ELSE e[i - Len(d)]
      <4>1. d \in Seq(S)
        BY <1>6
      <4> QED
        BY <4>1, <2>8, ConcatProperties
    <3> QED
      BY <2>7, <3>1
  <2>4. Len(e) = 1 /\ e[1] = "LF"
    BY <2>1 DEF e
  <2>5. Len(f) = Len(ip) + Len(x) + 4
    BY <1>2, <1>6, <2>3, <2>4
  <2>6. ASSUME NEW i \in 1 .. Len(ip) + Len(x) + 4
        PROVE  f[i] = IF i <= Len(ip) + Len(x) + 3 THEN d[i] ELSE "LF"
    <3>1. i \in 1 .. Len(d) + Len(e) /\ Len(d) = Len(ip) + Len(x) + 3
      BY <1>2, <1>6, <2>4
    <3>2. CASE i <= Len(ip) + Len(x) + 3
      BY <2>3, <3>1, <3>2
    <3>3. CASE ~ (i <= Len(ip) + Len(x) + 3)
      <4>1. i - Len(d) = 1
        BY <1>2, <3>1, <3>3
      <4> QED
        BY <2>3, <2>4, <3>1, <3>3, <4>1
    <3> QED
      BY <3>2, <3>3
  <2> QED
    BY <2>3, <2>5, <2>6
<1> HIDE DEF f
<1>8. f[1] = "DATA" /\ f[2] = "|" /\ f[Len(ip) + 3] = "|" /\ f[Len(f)] = "LF"
  <2>1. f[1] = a[1] /\ f[2] = a[2]
    BY <1>2, <1>4, <1>6, <1>7
  <2> DEFINE k == Len(ip) + 3
  <2>2. /\ k \in 1 .. Len(ip) + Len(x) + 4 /\ k <= Len(ip) + Len(x) + 3 /\ k \in 1 .. Len(ip) + Len(x) + 3
        /\ ~ (k <= 2 + Len(ip)) /\ k - (2 + Len(ip)) = 1 /\ 1 \in 1 .. 1 + Len(x)
    BY <1>2
  <2> HIDE DEF k
  <2>3. f[k] = "|"
    BY <1>5, <1>6, <1>7, <2>2
  <2>4. f[Len(f)] = "LF"
    BY <1>2, <1>7
  <2> QED
    BY <1>3, <2>1, <2>3, <2>4 DEF k
<1>9. ASSUME NEW i \in 1 .. Len(ip)
      PROVE  f[i + 2] = ip[i]
  <2>1. /\ i + 2 \in 1 .. Len(ip) + Len(x) + 4 /\ i + 2 <= Len(ip) + Len(x) + 3
        /\ i + 2 <= 2 + Len(ip) /\ ~ (i + 2 <= 2) /\ (i + 2) - 2 = i /\ i + 2 \in 1 .. Len(ip) + Len(x) + 3
        /\ i + 2 \in 1 .. 2 + Len(ip)
    BY <1>2
  <2> QED
    BY <2>1, <1>4, <1>6, <1>7
<1>10. ASSUME NEW i \in 1 .. Len(x)
       PROVE  f[Len(ip) + 3 + i] = x[i]
  <2> DEFINE k == Len(ip) + 3 + i
  <2>1. /\ k \in 1 .. Len(ip) + Len(x) + 4 /\ k <= Len(ip) + Len(x) + 3 /\ k \in 1 .. Len(ip) + Len(x) + 3
        /\ ~ (k <= 2 + Len(ip)) /\ k - (2 + Len(ip)) = i + 1
        /\ i + 1 \in 1 .. 1 + Len(x) /\ ~ (i + 1 <= 1) /\ (i + 1) - 1 = i
    BY <1>2
  <2> HIDE DEF k
  <2>2. f[k] = x[i]
    BY <2>1, <1>5, <1>6, <1>7
  <2> QED
    BY <2>2 DEF k
<1> QED
  BY <1>7, <1>8, <1>9, <1>10 DEF f

\* An address has none of the characters that decodeFrame looks for.
LEMMA AddressCharacters ==
    ASSUME NEW ip \in Addresses
    PROVE  /\ ip \in Seq(ToSet(ip)) /\ Len(ip) \in Nat
           /\ \A i \in 1 .. Len(ip) : ip[i] \notin Types /\ Kept(ip[i]) /\ ip[i] # "|" /\ ip[i] # "NUL"
<1>1. ip \in Seq(ToSet(ip)) /\ ToSet(ip) \cap (Types \cup LineEnds \cup {"|", "NUL"}) = {}
  BY FrameCodecAssumption
<1>2. \A i \in 1 .. Len(ip) : ip[i] \in ToSet(ip)
  BY <1>1, ElementOfSeq
<1> QED
  BY <1>1, <1>2, LenProperties DEF Kept

\* A beginning in this sense is a prefix.
LEMMA BeginningIsPrefix ==
    ASSUME NEW S, NEW s \in Seq(S), NEW t \in Seq(S), Begins(s, t)
    PROVE  IsPrefix(s, t)
<1>1. Len(s) \in Nat /\ Len(t) \in Nat /\ Len(s) <= Len(t)
  BY LenProperties DEF Begins
<1>2. SubSeq(s, 1, Len(s)) = s
  BY SubSeqFull
<1>3. /\ SubSeq(t, 1, Len(s)) \in Seq(S) /\ Len(SubSeq(t, 1, Len(s))) = Len(s)
      /\ \A i \in 1 .. Len(s) : SubSeq(t, 1, Len(s))[i] = t[i]
  BY <1>1, SubSeqShape
<1>4. SubSeq(t, 1, Len(s)) = s
  <2> DEFINE u == SubSeq(t, 1, Len(s))
  <2> HIDE DEF u
  <2>1. u \in Seq(S) /\ Len(u) = Len(s) /\ \A i \in 1 .. Len(u) : u[i] = s[i]
    BY <1>3 DEF u, Begins
  <2> QED
    BY <2>1, SeqEqual DEF u
<1> QED
  BY <1>1, <1>2, <1>4 DEF IsPrefix

\* The beginning of a DATA frame, if it is decoded as one at all, has the
\* address of the frame and the beginning of its data.
LEMMA DecodedData ==
    ASSUME NEW S, "DATA" \in S, "|" \in S, "LF" \in S,
           NEW ip \in Addresses, ip \in Seq(S), NEW x \in Seq(S), NEW text \in Seq(S),
           Begins(text, FrameText(Data(ip, x))),
           \A q \in 1 .. Len(text) : text[q] # "LF" /\ (q # 1 => text[q] # "DATA"),
           Decode(text).type = "DATA"
    PROVE  /\ Decode(text).ip = ip
           /\ Decode(text).data \in Seq(S) /\ Begins(Decode(text).data, x)
<1> DEFINE f    == FrameText(Data(ip, x))
           line == LineOf(text)
           rest == After(line, "|")
           data == Decode(text).data
<1>1. /\ f \in Seq(S) /\ Len(f) = Len(ip) + Len(x) + 4
      /\ f[1] = "DATA" /\ f[2] = "|" /\ f[Len(ip) + 3] = "|" /\ f[Len(f)] = "LF"
      /\ \A i \in 1 .. Len(ip) : f[i + 2] = ip[i]
      /\ \A i \in 1 .. Len(x) : f[Len(ip) + 3 + i] = x[i]
  BY DataFrame
<1>2. Len(ip) \in Nat /\ Len(x) \in Nat /\ Len(text) \in Nat
  BY LenProperties
<1>3. /\ \E k \in 1 .. Len(line) : line[k] = "|"
      /\ line # << >> /\ line[1] = "DATA"
      /\ \E k \in 1 .. Len(rest) : rest[k] = "|"
      /\ Decode(text).ip = Before(rest, "|")
      /\ data \in Seq(S) /\ data = After(rest, "|")
  BY DecodedShape DEF Types
<1>4. PICK m \in 1 .. Len(text) + 1, n \in 0 .. Len(text) : line = SubSeq(text, m, n)
  BY LineOfShape
<1>5. /\ line \in Seq(S) /\ Len(line) = IF m <= n THEN n - m + 1 ELSE 0
      /\ \A i \in 1 .. Len(line) : line[i] = text[m + i - 1]
  BY <1>2, <1>4, SubSeqShape
<1> HIDE DEF line, f
<1>6. m = 1 /\ Len(line) = n /\ \A i \in 1 .. n : line[i] = text[i]
  <2>1. Len(line) \in Nat \ {0}
    BY <1>3, <1>5, EmptySeq
  <2>2. text[m] = "DATA" /\ m \in 1 .. Len(text) /\ m <= n
    <3>1. m <= n /\ 1 \in 1 .. Len(line) /\ m \in Nat /\ n \in 0 .. Len(text)
      BY <1>2, <1>5, <2>1
    <3>2. line[1] = text[m + 1 - 1] /\ m + 1 - 1 = m
      BY <1>5, <3>1
    <3>3. m \in 1 .. Len(text)
      BY <1>2, <3>1
    <3> QED
      BY <1>3, <3>1, <3>2, <3>3
  <2>3. m = 1
    BY <2>2
  <2> QED
    BY <1>5, <2>2, <2>3
<1>7. \A i \in 1 .. n : line[i] = f[i]
  BY <1>2, <1>6 DEF Begins, f
<1>8. Len(line) \in Nat /\ n \in Nat /\ n <= Len(f)
  BY <1>2, <1>6 DEF Begins, f
<1>9. rest = SubSeq(line, 3, n) /\ n >= 2
  <2>1. PICK k \in 1 .. n : line[k] = "|"
    BY <1>3, <1>6
  <2>2. k # 1
    BY <1>3, <2>1
  <2>3. n >= 2
    BY <1>8, <2>1, <2>2
  <2>4. 2 \in 1 .. Len(line) /\ line[2] = "|" /\ \A i \in 1 .. 2 - 1 : line[i] # "|"
    BY <1>1, <1>3, <1>6, <1>7, <1>8, <2>3
  <2>5. rest = SubSeq(line, 2 + 1, Len(line))
    BY <2>4, <1>5, FirstPlace
  <2> QED
    BY <1>6, <2>3, <2>5
<1>10. /\ rest \in Seq(S) /\ Len(rest) = n - 2
       /\ \A i \in 1 .. n - 2 : rest[i] = f[i + 2]
  <2>1. /\ rest \in Seq(S) /\ Len(rest) = (IF 3 <= n THEN n - 3 + 1 ELSE 0)
        /\ \A i \in 1 .. Len(rest) : rest[i] = line[3 + i - 1]
    <3>1. 3 \in Nat \ {0} /\ n \in Int /\ n <= Len(line)
      BY <1>6, <1>8
    <3> HIDE DEF rest
    <3> QED
      BY <1>5, <1>9, <3>1, SubSeqShape
  <2>2. Len(rest) = n - 2
    BY <1>8, <1>9, <2>1
  <2>3. \A i \in 1 .. n - 2 : 3 + i - 1 = i + 2 /\ i + 2 \in 1 .. n
    BY <1>8
  <2> HIDE DEF rest
  <2> QED
    BY <1>7, <2>1, <2>2, <2>3
<1> HIDE DEF rest
<1> DEFINE at == Len(ip) + 1
<1>11. at \in 1 .. Len(rest) /\ rest[at] = "|" /\ \A i \in 1 .. at - 1 : rest[i] # "|"
  <2>1. \A i \in 1 .. Len(ip) : i <= n - 2 => rest[i] # "|"
    <3> SUFFICES ASSUME NEW i \in 1 .. Len(ip), i <= n - 2
                 PROVE  rest[i] # "|"
      OBVIOUS
    <3>1. i \in 1 .. n - 2
      BY <1>8
    <3>2. rest[i] = ip[i]
      BY <1>1, <1>10, <3>1
    <3> QED
      BY <3>2, AddressCharacters
  <2>2. PICK k \in 1 .. n - 2 : rest[k] = "|"
    BY <1>3, <1>10
  <2>3. ~ (k <= Len(ip))
    BY <2>1, <2>2
  <2>4. at <= n - 2
    BY <1>2, <1>8, <2>2, <2>3
  <2>5. rest[at] = "|"
    BY <1>1, <1>2, <1>8, <1>10, <2>4
  <2> QED
    BY <1>2, <1>8, <1>10, <2>1, <2>4, <2>5
<1>12. Decode(text).ip = SubSeq(rest, 1, at - 1) /\ data = SubSeq(rest, at + 1, Len(rest))
  BY <1>3, <1>10, <1>11, FirstPlace
<1>13. SubSeq(rest, 1, at - 1) = ip
  <2> DEFINE u == SubSeq(rest, 1, at - 1)
  <2>1. 1 \in Nat \ {0} /\ at - 1 \in Int /\ at - 1 <= Len(rest) /\ at - 1 = Len(ip)
    BY <1>2, <1>11
  <2>2. /\ u \in Seq(S) /\ Len(u) = IF 1 <= at - 1 THEN at - 1 - 1 + 1 ELSE 0
        /\ \A i \in 1 .. Len(u) : u[i] = rest[1 + i - 1]
    BY <1>10, <2>1, SubSeqShape
  <2> HIDE DEF u
  <2>3. Len(u) = Len(ip)
    BY <1>2, <2>1, <2>2
  <2>4. ASSUME NEW i \in 1 .. Len(u)
        PROVE  u[i] = ip[i]
    <3>1. i \in 1 .. Len(ip) /\ i \in 1 .. n - 2 /\ 1 + i - 1 = i
      BY <1>2, <1>8, <1>10, <1>11, <2>3
    <3> QED
      BY <1>1, <1>10, <2>2, <3>1
  <2> QED
    BY <2>2, <2>3, <2>4, SeqEqual DEF u
<1>14. Begins(data, x)
  <2>1. at + 1 \in Nat \ {0} /\ Len(rest) \in Int /\ Len(rest) <= Len(rest)
    BY <1>2, <1>8, <1>10
  <2>2. /\ Len(data) = IF at + 1 <= Len(rest) THEN Len(rest) - (at + 1) + 1 ELSE 0
        /\ \A i \in 1 .. Len(data) : data[i] = rest[at + 1 + i - 1]
    BY <1>10, <1>12, <2>1, SubSeqShape
  <2> HIDE DEF data
  <2>3. Len(data) = n - 3 - Len(ip)
    BY <1>2, <1>8, <1>10, <1>11, <2>2
  <2>4. \A i \in 1 .. Len(data) : data[i] = f[Len(ip) + 3 + i] /\ Len(ip) + 3 + i \in 1 .. n
    <3> TAKE i \in 1 .. Len(data)
    <3>1. at + 1 + i - 1 = Len(ip) + 1 + i /\ Len(ip) + 1 + i \in 1 .. n - 2
      BY <1>2, <1>8, <2>3
    <3>2. (Len(ip) + 1 + i) + 2 = Len(ip) + 3 + i /\ Len(ip) + 3 + i \in 1 .. n
      BY <1>2, <1>8, <3>1
    <3> QED
      BY <1>10, <2>2, <3>1, <3>2
  <2>5. ~ (n >= Len(f))
    <3> SUFFICES ASSUME n >= Len(f)
                 PROVE  FALSE
      OBVIOUS
    <3>1. n = Len(f)
      <4>1. Len(f) \in Int
        BY <1>1, <1>2
      <4> QED
        BY <1>8, <4>1
    <3>3. n \in 1 .. n /\ n \in 1 .. Len(text)
      BY <1>2, <1>8, <1>9
    <3>2. text[n] = f[n]
      BY <1>6, <1>7, <3>3
    <3> QED
      BY <1>1, <3>1, <3>2, <3>3
  <2>6. Len(data) <= Len(x)
    BY <1>1, <1>2, <1>8, <2>3, <2>5
  <2>7. \A i \in 1 .. Len(data) : data[i] = x[i]
    BY <1>1, <1>2, <2>3, <2>4, <2>6, <1>8
  <2> QED
    BY <2>6, <2>7 DEF Begins
<1> QED
  BY <1>3, <1>12, <1>13, <1>14

\* A text that is ANNOUNCE and a whole address has that address, if it is decoded.
LEMMA DecodedAnnounce ==
    ASSUME NEW S, NEW ip \in Addresses, ip \in Seq(S), NEW text \in Seq(S),
           Len(text) = Len(ip) + 2, text[1] = "ANNOUNCE", text[2] = "|",
           \A i \in 1 .. Len(ip) : text[i + 2] = ip[i],
           Decode(text).type \in Types
    PROVE  Decode(text).ip = ip
<1>1. Len(ip) \in Nat /\ Len(text) \in Nat
  BY LenProperties
<1>2. \A i \in 1 .. Len(text) : text[i] # "NUL" /\ Kept(text[i])
  <2> TAKE i \in 1 .. Len(text)
  <2>1. CASE i <= 2
    <3>1. text[i] \in {"ANNOUNCE", "|"}
      BY <1>1, <2>1
    <3> QED
      BY <3>1 DEF Kept, LineEnds
  <2>2. CASE ~ (i <= 2)
    <3>1. i - 2 \in 1 .. Len(ip) /\ (i - 2) + 2 = i
      BY <1>1, <2>2
    <3>2. text[i] = ip[i - 2]
      BY <3>1
    <3> QED
      BY <3>1, <3>2, AddressCharacters
  <2> QED
    BY <2>1, <2>2
<1>3. Before(text, "NUL") = text
  BY <1>2, NoPlace
<1>4. PICK m \in 1 .. Len(text) + 1, n \in 0 .. Len(text) :
          /\ Trimmed(text) = SubSeq(text, m, n)
          /\ \A i \in 1 .. m - 1 : ~ Kept(text[i])
          /\ \A i \in n + 1 .. Len(text) : ~ Kept(text[i])
  BY TrimmedShape
<1>5. m = 1 /\ n = Len(text)
  <2>1. ~ (1 \in 1 .. m - 1) /\ ~ (Len(text) \in n + 1 .. Len(text))
    BY <1>1, <1>2, <1>4
  <2> QED
    BY <1>1, <2>1
<1>6. LineOf(text) = text
  BY <1>3, <1>4, <1>5, SubSeqFull DEF LineOf
<1>7. After(text, "|") = SubSeq(text, 3, Len(text))
  <2>1. 2 \in 1 .. Len(text) /\ \A i \in 1 .. 2 - 1 : text[i] # "|"
    BY <1>1
  <2>2. After(text, "|") = SubSeq(text, 2 + 1, Len(text))
    BY <2>1, FirstPlace
  <2> QED
    BY <2>2
<1>8. SubSeq(text, 3, Len(text)) = ip
  <2> DEFINE u == SubSeq(text, 3, Len(text))
  <2>1. 3 \in Nat \ {0} /\ Len(text) \in Int /\ Len(text) <= Len(text)
    BY <1>1
  <2>2. /\ u \in Seq(S) /\ Len(u) = IF 3 <= Len(text) THEN Len(text) - 3 + 1 ELSE 0
        /\ \A i \in 1 .. Len(u) : u[i] = text[3 + i - 1]
    BY <2>1, SubSeqShape
  <2> HIDE DEF u
  <2>3. Len(u) = Len(ip)
    BY <1>1, <2>2
  <2>4. ASSUME NEW i \in 1 .. Len(u)
        PROVE  u[i] = ip[i]
    <3>1. 3 + i - 1 = i + 2 /\ i \in 1 .. Len(ip)
      BY <1>1, <2>3
    <3> QED
      BY <2>2, <3>1
  <2> QED
    BY <2>2, <2>3, <2>4, SeqEqual DEF u
<1>9. Before(ip, "|") = ip
  BY AddressCharacters, NoPlace
<1>10. Decode(text).ip = Before(After(LineOf(text), "|"), "|")
  BY DecodedShape
<1> QED
  BY <1>6, <1>7, <1>8, <1>9, <1>10

-----------------------------------------------------------------------------
(* The lines of a stream.                                                   *)

\* The texts are parts of the stream, one after the other, without a line end
\* in them; each starts the stream or follows a line end.
PlacedAt(a, texts, stream) ==
    /\ a \in [DOMAIN texts -> Nat \ {0}]
    /\ \A j \in DOMAIN texts :
           /\ a[j] + Len(texts[j]) - 1 <= Len(stream)
           /\ \A q \in 1 .. Len(texts[j]) : texts[j][q] = stream[a[j] + q - 1] /\ texts[j][q] # "LF"
           /\ a[j] = 1 \/ stream[a[j] - 1] = "LF"
    /\ \A j, k \in DOMAIN texts : j < k => a[j] < a[k]
InLines(texts, stream) == \E a \in [DOMAIN texts -> Nat \ {0}] : PlacedAt(a, texts, stream)

\* The lines of a stream are placed so, and a line end follows each; without
\* any line, the stream has no line end.
LEMMA LinesArePlaced ==
    ASSUME NEW S, NEW stream \in Seq(S)
    PROVE  /\ Lines(stream) \in Seq(Seq(S))
           /\ \E a \in [DOMAIN Lines(stream) -> Nat \ {0}] :
                 /\ PlacedAt(a, Lines(stream), stream)
                 /\ \A j \in DOMAIN Lines(stream) : /\ a[j] + Len(Lines(stream)[j]) \in 1 .. Len(stream)
                                                    /\ stream[a[j] + Len(Lines(stream)[j])] = "LF"
           /\ Lines(stream) = << >> => \A i \in 1 .. Len(stream) : stream[i] # "LF"
<1> DEFINE D    == {i \in DOMAIN stream : stream[i] = "LF"}
           ends == Ascending(D)
           n    == Cardinality(D)
           a    == [j \in 1 .. n |-> IF j = 1 THEN 1 ELSE ends[j - 1] + 1]
           L    == Lines(stream)
<1>1. Len(stream) \in Nat /\ DOMAIN stream = 1 .. Len(stream)
  BY LenProperties
<1>2. /\ n \in Nat /\ ends \in [1 .. n -> D]
      /\ \A i, j \in 1 .. n : i < j => ends[i] < ends[j]
      /\ \A x \in D : \E i \in 1 .. n : ends[i] = x
  <2>1. D \in SUBSET (1 .. Len(stream))
    BY <1>1
  <2> HIDE DEF D
  <2> QED
    BY <1>1, <2>1, AscendingProperties
<1>3. \A j \in 1 .. n : ends[j] \in 1 .. Len(stream) /\ stream[ends[j]] = "LF"
  BY <1>1, <1>2
<1>4. L = [j \in 1 .. n |-> SubSeq(stream, a[j], ends[j] - 1)]
  <2>1. DOMAIN ends = 1 .. n
    BY <1>2
  <2>2. L = [j \in DOMAIN ends |-> SubSeq(stream, IF j = 1 THEN 1 ELSE ends[j - 1] + 1, ends[j] - 1)]
    BY DEF Lines
  <2> QED
    BY <2>1, <2>2
<1>5. \A x \in 1 .. Len(stream) : stream[x] = "LF" => \E i \in 1 .. n : ends[i] = x
  BY <1>1, <1>2
<1> HIDE DEF n, ends, D
<1>6. \A j \in 1 .. n : j # 1 => j - 1 \in 1 .. n /\ ends[j - 1] < ends[j]
  BY <1>2
<1>7. \A j \in 1 .. n : a[j] \in Nat \ {0} /\ a[j] <= ends[j] /\ (a[j] = 1 \/ stream[a[j] - 1] = "LF")
  <2> TAKE j \in 1 .. n
  <2>1. CASE j = 1
    BY <1>3, <2>1
  <2>2. CASE j # 1
    <3>1. a[j] = ends[j - 1] + 1 /\ ends[j - 1] \in 1 .. Len(stream) /\ stream[ends[j - 1]] = "LF"
      BY <1>3, <1>6, <2>2
    <3>2. ends[j] \in 1 .. Len(stream) /\ ends[j - 1] < ends[j]
      BY <1>3, <1>6, <2>2
    <3>3. a[j] - 1 = ends[j - 1]
      BY <3>1
    <3> HIDE DEF a
    <3> QED
      BY <1>1, <3>1, <3>2, <3>3
  <2> QED
    BY <2>1, <2>2
<1>8. \A j, k \in 1 .. n : j < k => a[j] < a[k]
  <2> SUFFICES ASSUME NEW j \in 1 .. n, NEW k \in 1 .. n, j < k
               PROVE  a[j] < a[k]
    OBVIOUS
  <2>1. k # 1 /\ a[k] = ends[k - 1] + 1 /\ k - 1 \in 1 .. n
    BY <1>2
  <2>2. ends[j] <= ends[k - 1]
    <3>1. CASE j = k - 1
      BY <3>1, <1>3
    <3>2. CASE j < k - 1
      BY <3>2, <2>1, <1>2, <1>3
    <3> QED
      BY <1>2, <2>1, <3>1, <3>2
  <2> HIDE DEF a
  <2> QED
    BY <1>3, <1>7, <2>1, <2>2
<1>9. ASSUME NEW j \in 1 .. n, NEW x \in a[j] .. ends[j] - 1
      PROVE  stream[x] # "LF"
  <2> SUFFICES ASSUME stream[x] = "LF"
               PROVE  FALSE
    OBVIOUS
  <2>1. x \in 1 .. Len(stream) /\ x < ends[j] /\ a[j] <= x
    BY <1>1, <1>3, <1>7, <1>9
  <2>2. PICK i \in 1 .. n : ends[i] = x
    BY <1>5, <2>1
  <2>3. i < j
    <3>1. CASE i = j
      BY <2>1, <2>2, <3>1
    <3>2. CASE j < i
      BY <1>2, <1>3, <2>1, <2>2, <3>2
    <3> QED
      BY <1>2, <3>1, <3>2
  <2>4. i <= j - 1 /\ j # 1 /\ j - 1 \in 1 .. n /\ a[j] = ends[j - 1] + 1
    BY <1>2, <2>3
  <2>5. ends[i] <= ends[j - 1]
    <3>1. CASE i = j - 1
      BY <1>3, <3>1
    <3>2. CASE i < j - 1
      BY <1>2, <1>3, <2>4, <3>2
    <3> QED
      BY <1>2, <2>4, <3>1, <3>2
  <2> HIDE DEF a
  <2> QED
    BY <1>3, <2>1, <2>2, <2>4, <2>5
<1>10. a \in [1 .. n -> Nat \ {0}]
  BY <1>7
<1> HIDE DEF a
<1>11. ASSUME NEW j \in 1 .. n
       PROVE  /\ L[j] \in Seq(S) /\ Len(L[j]) = ends[j] - a[j]
              /\ \A q \in 1 .. Len(L[j]) : L[j][q] = stream[a[j] + q - 1]
  <2> DEFINE t == SubSeq(stream, a[j], ends[j] - 1)
  <2>1. a[j] \in Nat \ {0} /\ a[j] <= ends[j] /\ ends[j] \in 1 .. Len(stream)
    BY <1>3, <1>7
  <2>2. ends[j] - 1 \in Int /\ ends[j] - 1 <= Len(stream)
    BY <1>1, <2>1
  <2>3. /\ t \in Seq(S) /\ Len(t) = IF a[j] <= ends[j] - 1 THEN ends[j] - 1 - a[j] + 1 ELSE 0
        /\ \A i \in 1 .. Len(t) : t[i] = stream[a[j] + i - 1]
    <3>1. a[j] \in Nat \ {0} /\ ends[j] - 1 \in Int /\ ends[j] - 1 <= Len(stream) /\ stream \in Seq(S)
      BY <2>1, <2>2
    <3> QED
      BY <3>1, SubSeqShape
  <2>4. L[j] = t
    BY <1>4
  <2> HIDE DEF t, L
  <2>5. Len(t) = ends[j] - a[j]
    BY <1>1, <2>1, <2>3
  <2> QED
    BY <2>3, <2>4, <2>5
<1>12. L \in Seq(Seq(S)) /\ DOMAIN L = 1 .. n
  <2>1. \A j \in 1 .. n : SubSeq(stream, a[j], ends[j] - 1) \in Seq(S)
    BY <1>4, <1>11
  <2>2. [j \in 1 .. n |-> SubSeq(stream, a[j], ends[j] - 1)] \in Seq(Seq(S))
    BY <1>2, <2>1
  <2> QED
    BY <1>4, <2>2
<1> HIDE DEF L
<1>13. ASSUME NEW j \in 1 .. n
       PROVE  /\ a[j] + Len(L[j]) = ends[j] /\ a[j] + Len(L[j]) - 1 <= Len(stream)
              /\ \A q \in 1 .. Len(L[j]) : L[j][q] = stream[a[j] + q - 1] /\ L[j][q] # "LF"
  <2>1. a[j] \in Nat \ {0} /\ ends[j] \in 1 .. Len(stream)
    BY <1>3, <1>7
  <2>2. \A q \in 1 .. Len(L[j]) : a[j] + q - 1 \in a[j] .. ends[j] - 1
    BY <1>1, <1>11, <2>1
  <2>3. a[j] + Len(L[j]) = ends[j] /\ a[j] + Len(L[j]) - 1 <= Len(stream)
    BY <1>1, <1>11, <2>1
  <2> QED
    BY <1>9, <1>11, <2>2, <2>3
<1>14. PlacedAt(a, L, stream)
  BY <1>7, <1>8, <1>10, <1>12, <1>13 DEF PlacedAt
<1>15. L = << >> => \A i \in 1 .. Len(stream) : stream[i] # "LF"
  <2> SUFFICES ASSUME L = << >>, NEW i \in 1 .. Len(stream), stream[i] = "LF"
               PROVE  FALSE
    OBVIOUS
  <2>1. 1 .. n = {}
    BY <1>12
  <2> QED
    BY <1>5, <2>1
<1>16. \A j \in DOMAIN L : a[j] + Len(L[j]) \in 1 .. Len(stream) /\ stream[a[j] + Len(L[j])] = "LF"
  BY <1>3, <1>12, <1>13
<1> QED
  BY <1>10, <1>12, <1>14, <1>15, <1>16 DEF L

\* Texts that are placed so remain it when some of them are left out ...
LEMMA AtInLines ==
    ASSUME NEW S, NEW stream, NEW texts \in Seq(Seq(S)), InLines(texts, stream),
           NEW D \in SUBSET DOMAIN texts
    PROVE  At(texts, D) \in Seq(Seq(S)) /\ InLines(At(texts, D), stream)
<1> DEFINE t == At(texts, D)
           p == Ascending(D)
<1>1. PICK a \in [DOMAIN texts -> Nat \ {0}] : PlacedAt(a, texts, stream)
  BY DEF InLines
<1>2. /\ t \in Seq(Seq(S))
      /\ \A i \in DOMAIN t : p[i] \in D /\ t[i] = texts[p[i]]
      /\ \A i, j \in DOMAIN t : i < j => p[i] < p[j]
  BY AtProperties
<1> HIDE DEF t, p
<1> DEFINE b == [i \in DOMAIN t |-> a[p[i]]]
<1>3. \A i \in DOMAIN t : p[i] \in DOMAIN texts /\ b[i] = a[p[i]]
  BY <1>2
<1>4. b \in [DOMAIN t -> Nat \ {0}]
  BY <1>3
<1> HIDE DEF b
<1>5. PlacedAt(b, t, stream)
  <2>1. ASSUME NEW j \in DOMAIN t
        PROVE  /\ b[j] + Len(t[j]) - 1 <= Len(stream)
               /\ \A q \in 1 .. Len(t[j]) : t[j][q] = stream[b[j] + q - 1] /\ t[j][q] # "LF"
               /\ b[j] = 1 \/ stream[b[j] - 1] = "LF"
    <3>1. p[j] \in DOMAIN texts /\ b[j] = a[p[j]] /\ t[j] = texts[p[j]]
      BY <1>2, <1>3
    <3>2. \A k \in DOMAIN texts :
              /\ a[k] + Len(texts[k]) - 1 <= Len(stream)
              /\ \A q \in 1 .. Len(texts[k]) : texts[k][q] = stream[a[k] + q - 1] /\ texts[k][q] # "LF"
              /\ a[k] = 1 \/ stream[a[k] - 1] = "LF"
      BY <1>1 DEF PlacedAt
    <3>3. /\ a[p[j]] + Len(texts[p[j]]) - 1 <= Len(stream)
          /\ \A q \in 1 .. Len(texts[p[j]]) :
                 texts[p[j]][q] = stream[a[p[j]] + q - 1] /\ texts[p[j]][q] # "LF"
          /\ a[p[j]] = 1 \/ stream[a[p[j]] - 1] = "LF"
      BY <3>1, <3>2
    <3> QED
      BY <3>1, <3>3
  <2>2. ASSUME NEW j \in DOMAIN t, NEW k \in DOMAIN t, j < k
        PROVE  b[j] < b[k]
    <3>1. p[j] < p[k] /\ p[j] \in DOMAIN texts /\ p[k] \in DOMAIN texts
      BY <1>2, <1>3, <2>2
    <3> QED
      BY <1>1, <1>3, <3>1 DEF PlacedAt
  <2> QED
    BY <1>4, <2>1, <2>2 DEF PlacedAt
<1> QED
  BY <1>2, <1>4, <1>5 DEF InLines, t

\* ... or shortened at their end.
LEMMA ShortenedInLines ==
    ASSUME NEW S, NEW stream, Len(stream) \in Nat, NEW texts \in Seq(Seq(S)), InLines(texts, stream),
           NEW short \in Seq(Seq(S)), DOMAIN short = DOMAIN texts,
           \A j \in DOMAIN texts : Begins(short[j], texts[j])
    PROVE  InLines(short, stream)
<1>1. PICK a \in [DOMAIN texts -> Nat \ {0}] : PlacedAt(a, texts, stream)
  BY DEF InLines
<1>2. ASSUME NEW j \in DOMAIN texts
      PROVE  /\ a[j] + Len(short[j]) - 1 <= Len(stream)
             /\ \A q \in 1 .. Len(short[j]) :
                    short[j][q] = stream[a[j] + q - 1] /\ short[j][q] # "LF"
  <2>1. /\ Len(short[j]) \in Nat /\ Len(texts[j]) \in Nat /\ Len(short[j]) <= Len(texts[j])
        /\ \A q \in 1 .. Len(short[j]) : short[j][q] = texts[j][q]
    BY LenProperties DEF Begins
  <2>2. /\ a[j] \in Nat /\ a[j] + Len(texts[j]) - 1 <= Len(stream)
        /\ \A q \in 1 .. Len(texts[j]) : texts[j][q] = stream[a[j] + q - 1] /\ texts[j][q] # "LF"
    BY <1>1 DEF PlacedAt
  <2>3. \A q \in 1 .. Len(short[j]) : q \in 1 .. Len(texts[j])
    BY <2>1
  <2>4. a[j] + Len(short[j]) - 1 <= Len(stream)
    BY <2>1, <2>2
  <2> QED
    BY <2>1, <2>2, <2>3, <2>4
<1>3. PlacedAt(a, short, stream)
  BY <1>1, <1>2 DEF PlacedAt
<1> QED
  BY <1>3 DEF InLines

\* A line less its CR is the beginning of it.
LEMMA LineWithoutCR ==
    ASSUME NEW S, NEW line \in Seq(S)
    PROVE  /\ WithoutCR(line) \in Seq(S) /\ Begins(WithoutCR(line), line)
           /\ line # << >> /\ line[Len(line)] # "CR" => WithoutCR(line) = line
<1>1. Len(line) \in Nat
  BY LenProperties
<1>2. CASE line # << >> /\ Last(line) = "CR"
  <2>1. WithoutCR(line) = SubSeq(line, 1, Len(line) - 1)
    BY <1>2 DEF WithoutCR, Front
  <2>2. Len(line) # 0
    BY <1>2, EmptySeq
  <2>3. 1 \in Nat \ {0} /\ Len(line) - 1 \in Int /\ Len(line) - 1 <= Len(line)
    BY <1>1
  <2> DEFINE u == SubSeq(line, 1, Len(line) - 1)
  <2>4. /\ u \in Seq(S) /\ Len(u) = IF 1 <= Len(line) - 1 THEN Len(line) - 1 - 1 + 1 ELSE 0
        /\ \A i \in 1 .. Len(u) : u[i] = line[1 + i - 1]
    BY <2>3, SubSeqShape
  <2> HIDE DEF u
  <2>5. Len(u) <= Len(line)
    BY <1>1, <2>4
  <2>6. \A i \in 1 .. Len(u) : u[i] = line[i]
    <3> TAKE i \in 1 .. Len(u)
    <3>1. 1 + i - 1 = i
      OBVIOUS
    <3> QED
      BY <2>4, <3>1
  <2> QED
    BY <1>2, <2>1, <2>4, <2>5, <2>6 DEF u, Begins, Last
<1>3. CASE ~ (line # << >> /\ Last(line) = "CR")
  <2>1. WithoutCR(line) = line
    BY <1>3 DEF WithoutCR
  <2> QED
    BY <1>1, <2>1 DEF Begins
<1> QED
  BY <1>2, <1>3

\* What the loop of `listening` takes for frames are parts of lines of the
\* chunk; none is as long as the chunk, unless that has no line end.
LEMMA DispatchedInLines ==
    ASSUME NEW S, NEW chunk \in Seq(S)
    PROVE  /\ Dispatched(chunk) \in Seq(Seq(S)) /\ InLines(Dispatched(chunk), chunk)
           /\ (\E i \in 1 .. Len(chunk) : chunk[i] = "LF") =>
                  \A j \in DOMAIN Dispatched(chunk) : Len(Dispatched(chunk)[j]) < Len(chunk)
           /\ (\A i \in 1 .. Len(chunk) : chunk[i] # "LF") =>
                  \A j \in DOMAIN Dispatched(chunk) : Len(Dispatched(chunk)[j]) <= Len(chunk)
<1> DEFINE L     == Lines(chunk)
           lines == [j \in DOMAIN L |-> WithoutCR(L[j])]
           D     == {j \in DOMAIN lines : lines[j] # << >>}
<1>1. Len(chunk) \in Nat
  BY LenProperties
<1>2. PICK a \in [DOMAIN L -> Nat \ {0}] :
          /\ PlacedAt(a, L, chunk)
          /\ \A j \in DOMAIN L : a[j] + Len(L[j]) \in 1 .. Len(chunk) /\ chunk[a[j] + Len(L[j])] = "LF"
  BY LinesArePlaced
<1>3. /\ L \in Seq(Seq(S)) /\ InLines(L, chunk)
      /\ L = << >> => \A i \in 1 .. Len(chunk) : chunk[i] # "LF"
  BY <1>2, LinesArePlaced DEF InLines
<1> HIDE DEF L
<1>4. \A j \in DOMAIN L : L[j] \in Seq(S)
  BY <1>3, LenProperties, ElementOfSeq
<1>5. \A j \in DOMAIN L : WithoutCR(L[j]) \in Seq(S) /\ Begins(WithoutCR(L[j]), L[j])
  BY <1>4, LineWithoutCR
<1>6. lines \in Seq(Seq(S)) /\ DOMAIN lines = DOMAIN L
  <2>1. Len(L) \in Nat /\ DOMAIN L = 1 .. Len(L)
    BY <1>3, LenProperties
  <2>2. [j \in 1 .. Len(L) |-> WithoutCR(L[j])] \in Seq(Seq(S))
    BY <1>5, <2>1
  <2> QED
    BY <2>1, <2>2
<1>7. \A j \in DOMAIN L : lines[j] = WithoutCR(L[j])
  OBVIOUS
<1>8. Dispatched(chunk) = IF lines = << >> THEN <<chunk>> ELSE At(lines, D)
  BY DEF Dispatched, L
<1> HIDE DEF lines
<1>9. InLines(lines, chunk)
  BY <1>1, <1>3, <1>5, <1>6, <1>7, ShortenedInLines
<1>10. \A j \in DOMAIN lines : Len(lines[j]) < Len(chunk)
  <2> TAKE j \in DOMAIN lines
  <2>1. /\ Len(lines[j]) \in Nat /\ Len(L[j]) \in Nat /\ Len(lines[j]) <= Len(L[j])
        /\ a[j] \in Nat \ {0} /\ a[j] + Len(L[j]) \in 1 .. Len(chunk)
    BY <1>2, <1>4, <1>5, <1>6, <1>7, LenProperties DEF Begins
  <2> QED
    BY <1>1, <2>1
<1>11. CASE lines # << >>
  <2>1. D \in SUBSET DOMAIN lines
    OBVIOUS
  <2> HIDE DEF D
  <2>2. At(lines, D) \in Seq(Seq(S)) /\ InLines(At(lines, D), chunk)
    BY <1>6, <1>9, <2>1, AtInLines
  <2>3. \A j \in DOMAIN At(lines, D) : Len(At(lines, D)[j]) < Len(chunk)
    <3> TAKE j \in DOMAIN At(lines, D)
    <3>1. Ascending(D)[j] \in D /\ At(lines, D)[j] = lines[Ascending(D)[j]]
      BY <1>6, <2>1, AtProperties
    <3> QED
      BY <1>10, <2>1, <3>1
  <2>4. \A j \in DOMAIN At(lines, D) : Len(At(lines, D)[j]) <= Len(chunk)
    <3> TAKE j \in DOMAIN At(lines, D)
    <3>1. Len(At(lines, D)[j]) \in Nat
      BY <2>2, LenProperties, ElementOfSeq
    <3> QED
      BY <1>1, <2>3, <3>1
  <2> QED
    BY <1>8, <1>11, <2>2, <2>3, <2>4
<1>12. CASE lines = << >>
  <2>1. DOMAIN L = {}
    BY <1>6, <1>12
  <2>2. L = << >>
    BY <1>3, <2>1, LenProperties, EmptySeq
  <2>3. Dispatched(chunk) = <<chunk>> /\ \A i \in 1 .. Len(chunk) : chunk[i] # "LF"
    BY <1>3, <1>8, <1>12, <2>2
  <2> DEFINE b == [j \in {1} |-> 1]
             t == <<chunk>>
  <2>4. t \in Seq(Seq(S)) /\ DOMAIN t = {1} /\ t[1] = chunk
    OBVIOUS
  <2>5. b \in [DOMAIN t -> Nat \ {0}] /\ b[1] = 1
    BY <2>4
  <2> HIDE DEF b, t
  <2>6. \A j \in DOMAIN t : t[j] = chunk /\ b[j] = 1
    BY <2>4, <2>5
  <2>7. PlacedAt(b, t, chunk)
    <3>1. 1 + Len(chunk) - 1 <= Len(chunk) /\ \A q \in 1 .. Len(chunk) : 1 + q - 1 = q
      BY <1>1
    <3> QED
      BY <2>3, <2>4, <2>5, <2>6, <3>1 DEF PlacedAt
  <2>8. InLines(t, chunk)
    BY <2>5, <2>7 DEF InLines
  <2> QED
    BY <1>1, <2>3, <2>4, <2>6, <2>8 DEF t
<1> QED
  BY <1>11, <1>12

-----------------------------------------------------------------------------
(* Streams: what is put after one another, and taken off in chunks.         *)

\* The places of two streams put together.
LEMMA Joined ==
    ASSUME NEW S, NEW a \in Seq(S), NEW b \in Seq(S)
    PROVE  /\ a \o b \in Seq(S) /\ Len(a) \in Nat /\ Len(b) \in Nat /\ Len(a \o b) = Len(a) + Len(b)
           /\ \A i \in 1 .. Len(a) : (a \o b)[i] = a[i]
           /\ \A i \in 1 .. Len(b) : (a \o b)[Len(a) + i] = b[i]
<1>1. Len(a) \in Nat /\ Len(b) \in Nat
  BY LenProperties
<1>2. /\ a \o b \in Seq(S) /\ Len(a \o b) = Len(a) + Len(b)
      /\ \A i \in 1 .. Len(a) + Len(b) : (a \o b)[i] = IF i <= Len(a) THEN a[i] ELSE b[i - Len(a)]
  BY ConcatProperties
<1>3. \A i \in 1 .. Len(a) : i \in 1 .. Len(a) + Len(b) /\ i <= Len(a)
  BY <1>1
<1>4. \A i \in 1 .. Len(b) : /\ Len(a) + i \in 1 .. Len(a) + Len(b) /\ ~ (Len(a) + i <= Len(a))
                             /\ (Len(a) + i) - Len(a) = i
  BY <1>1
<1> QED
  BY <1>1, <1>2, <1>3, <1>4

\* The places of a chunk and of the rest of its stream.
LEMMA Split ==
    ASSUME NEW S, NEW stream \in Seq(S), NEW k \in 0 .. Len(stream)
    PROVE  LET chunk == SubSeq(stream, 1, k)
               rest  == Rest(stream, chunk)
           IN  /\ chunk \in Seq(S) /\ Len(chunk) = k /\ Len(stream) \in Nat
               /\ \A i \in 1 .. k : chunk[i] = stream[i]
               /\ rest \in Seq(S) /\ Len(rest) = Len(stream) - k
               /\ \A i \in 1 .. Len(stream) - k : rest[i] = stream[k + i]
<1> DEFINE chunk == SubSeq(stream, 1, k)
           rest  == SubSeq(stream, k + 1, Len(stream))
<1>1. Len(stream) \in Nat
  BY LenProperties
<1>2. 1 \in Nat \ {0} /\ k \in Int /\ k <= Len(stream)
  BY <1>1
<1>3. /\ chunk \in Seq(S) /\ Len(chunk) = IF 1 <= k THEN k - 1 + 1 ELSE 0
      /\ \A i \in 1 .. Len(chunk) : chunk[i] = stream[1 + i - 1]
  BY <1>2, SubSeqShape
<1> HIDE DEF chunk
<1>4. Len(chunk) = k
  BY <1>2, <1>3
<1>5. \A i \in 1 .. k : chunk[i] = stream[i]
  <2> TAKE i \in 1 .. k
  <2>1. 1 + i - 1 = i
    OBVIOUS
  <2> QED
    BY <1>3, <1>4, <2>1
<1>6. Rest(stream, chunk) = rest
  BY <1>4 DEF Rest
<1>7. k + 1 \in Nat \ {0} /\ Len(stream) \in Int /\ Len(stream) <= Len(stream)
  BY <1>1
<1>8. /\ rest \in Seq(S) /\ Len(rest) = IF k + 1 <= Len(stream) THEN Len(stream) - (k + 1) + 1 ELSE 0
      /\ \A i \in 1 .. Len(rest) : rest[i] = stream[k + 1 + i - 1]
  BY <1>7, SubSeqShape
<1> HIDE DEF rest
<1>9. Len(rest) = Len(stream) - k
  BY <1>1, <1>2, <1>8
<1>10. \A i \in 1 .. Len(stream) - k : rest[i] = stream[k + i]
  <2> TAKE i \in 1 .. Len(stream) - k
  <2>1. k + 1 + i - 1 = k + i
    OBVIOUS
  <2> QED
    BY <1>8, <1>9, <2>1
<1> QED
  BY <1>1, <1>3, <1>4, <1>5, <1>6, <1>8, <1>9, <1>10 DEF chunk

\* Two streams that end at a line end ...
LEMMA JoinedWhole ==
    ASSUME NEW S, NEW a \in Seq(S), NEW b \in Seq(S), Whole(a), Whole(b)
    PROVE  Whole(a \o b)
<1>1. CASE b = << >>
  BY <1>1, ConcatEmptySeq
<1>2. CASE b # << >>
  <2>1. Len(b) \in 1 .. Len(b) /\ b[Len(b)] = "LF"
    BY <1>2, EmptySeq DEF Whole
  <2>2. (a \o b)[Len(a \o b)] = "LF"
    BY <2>1, Joined
  <2> QED
    BY <2>2 DEF Whole
<1> QED
  BY <1>1, <1>2

\* ... and what a read leaves of one.
LEMMA RestWhole ==
    ASSUME NEW S, NEW stream \in Seq(S), Whole(stream), NEW k \in 0 .. Len(stream)
    PROVE  Whole(Rest(stream, SubSeq(stream, 1, k)))
<1> DEFINE rest == Rest(stream, SubSeq(stream, 1, k))
<1>1. /\ rest \in Seq(S) /\ Len(rest) = Len(stream) - k /\ Len(stream) \in Nat
      /\ \A i \in 1 .. Len(stream) - k : rest[i] = stream[k + i]
  BY Split
<1> HIDE DEF rest
<1>2. CASE rest = << >>
  BY <1>2 DEF Whole, rest
<1>3. CASE rest # << >>
  <2>1. Len(rest) \in Nat \ {0}
    BY <1>1, <1>3, EmptySeq
  <2>2. Len(stream) # 0 /\ Len(rest) \in 1 .. Len(stream) - k /\ k + Len(rest) = Len(stream)
    BY <1>1, <2>1
  <2>3. stream[Len(stream)] = "LF"
    BY <2>2, EmptySeq DEF Whole
  <2>4. rest[Len(rest)] = "LF"
    BY <1>1, <2>2, <2>3
  <2> QED
    BY <2>4 DEF Whole, rest
<1> QED
  BY <1>2, <1>3

\* What is put together of whole streams is whole.
LEMMA FlattenWhole ==
    ASSUME NEW S, NEW seqs \in Seq(Seq(S)), \A i \in DOMAIN seqs : Whole(seqs[i])
    PROVE  FlattenSeq(seqs) \in Seq(S) /\ Whole(FlattenSeq(seqs))
<1> DEFINE P == {e \in Nat \X Seq(S) : Whole(e[2])}
<1>1. Len(seqs) \in Nat /\ DOMAIN seqs = 1 .. Len(seqs) /\ \A i \in 1 .. Len(seqs) : seqs[i] \in Seq(S)
  BY LenProperties, ElementOfSeq
<1>2. <<0, << >>>> \in P
  BY EmptySeq DEF Whole
<1>3. ASSUME NEW i \in 1 .. Len(seqs), NEW s \in Seq(S), <<i - 1, s>> \in P
      PROVE  <<i, s \o seqs[i]>> \in P
  <2>1. Whole(s) /\ i \in Nat
    BY <1>1, <1>3
  <2>2. s \o seqs[i] \in Seq(S) /\ Whole(s \o seqs[i])
    BY <1>1, <2>1, Joined, JoinedWhole
  <2> QED
    BY <2>1, <2>2
<1>4. FlattenSeq(seqs) \in Seq(S) /\ <<Len(seqs), FlattenSeq(seqs)>> \in P
  <2> HIDE DEF P
  <2> QED
    BY <1>2, <1>3, FlattenInduction
<1> QED
  BY <1>4

\* No line longer than a read, as for streams put one after the other ...
LEMMA JoinedShortLines ==
    ASSUME NEW S, NEW a \in Seq(S), NEW b \in Seq(S), Whole(a), Whole(b), ShortLines(a),
           Len(b) < BufSize
    PROVE  ShortLines(a \o b)
<1> DEFINE c == a \o b
<1>1. /\ Len(a) \in Nat /\ Len(b) \in Nat /\ Len(c) = Len(a) + Len(b)
      /\ \A i \in 1 .. Len(a) : c[i] = a[i]
      /\ \A i \in 1 .. Len(b) : c[Len(a) + i] = b[i]
  BY Joined
<1> HIDE DEF c
<1>2. BufSize \in Nat
  BY FrameCodecAssumption
<1>3. ASSUME NEW p \in 1 .. Len(c), NEW q \in 1 .. Len(c), p <= q, \A r \in p .. q : c[r] # "LF"
      PROVE  q - p + 2 < BufSize
  <2>1. CASE q <= Len(a)
    <3>1. \A r \in p .. q : r \in 1 .. Len(a) /\ a[r] # "LF"
      BY <1>1, <1>3, <2>1
    <3>2. p \in 1 .. Len(a) /\ q \in 1 .. Len(a)
      BY <1>1, <1>3, <2>1
    <3> QED
      BY <1>3, <3>1, <3>2 DEF ShortLines
  <2>2. CASE p <= Len(a) /\ Len(a) < q
    <3>1. Len(a) \in p .. q /\ Len(a) \in 1 .. Len(a)
      BY <1>1, <1>3, <2>2
    <3>2. c[Len(a)] = "LF"
      BY <1>1, <3>1, EmptySeq DEF Whole
    <3> QED
      BY <1>3, <3>1, <3>2
  <2>3. CASE Len(a) < p
    <3>1. q # Len(c)
      <4>1. SUFFICES ASSUME q = Len(c)
                     PROVE  FALSE
        OBVIOUS
      <4>2. Len(b) \in 1 .. Len(b) /\ Len(c) \in p .. q
        BY <1>1, <1>3, <2>3, <4>1
      <4>3. c[Len(c)] = "LF"
        BY <1>1, <4>2, EmptySeq DEF Whole
      <4> QED
        BY <1>3, <4>2, <4>3
    <3>2. p \in Nat /\ q \in Nat /\ q < Len(a) + Len(b)
      BY <1>1, <3>1
    <3> QED
      BY <1>1, <1>2, <2>3, <3>2
  <2> QED
    BY <1>1, <2>1, <2>2, <2>3
<1> QED
  BY <1>3 DEF ShortLines, c

\* ... so for what a read leaves.
LEMMA RestShortLines ==
    ASSUME NEW S, NEW stream \in Seq(S), ShortLines(stream), NEW k \in 0 .. Len(stream)
    PROVE  ShortLines(Rest(stream, SubSeq(stream, 1, k)))
<1> DEFINE rest == Rest(stream, SubSeq(stream, 1, k))
<1>1. /\ Len(rest) = Len(stream) - k /\ Len(stream) \in Nat
      /\ \A i \in 1 .. Len(stream) - k : rest[i] = stream[k + i]
  BY Split
<1> HIDE DEF rest
<1>2. ASSUME NEW p \in 1 .. Len(rest), NEW q \in 1 .. Len(rest), p <= q, \A r \in p .. q : rest[r] # "LF"
      PROVE  q - p + 2 < BufSize
  <2>1. k + p \in 1 .. Len(stream) /\ k + q \in 1 .. Len(stream) /\ k + p <= k + q
    BY <1>1, <1>2
  <2>2. \A r \in k + p .. k + q : stream[r] # "LF"
    <3> TAKE r \in k + p .. k + q
    <3>1. r - k \in p .. q /\ r - k \in 1 .. Len(stream) - k /\ k + (r - k) = r
      BY <1>1, <1>2
    <3> QED
      BY <1>1, <1>2, <3>1
  <2>3. (k + q) - (k + p) + 2 < BufSize
    BY <2>1, <2>2 DEF ShortLines
  <2>4. (k + q) - (k + p) + 2 = q - p + 2
    OBVIOUS
  <2> QED
    BY <2>3, <2>4
<1> QED
  BY <1>2 DEF ShortLines, rest

\* The places of an ANNOUNCE or ADVERTISE frame.
LEMMA OtherFrame ==
    ASSUME NEW S, NEW t \in Types \ {"DATA"}, t \in S, "|" \in S, "LF" \in S, NEW ip \in Seq(S)
    PROVE  LET f == FrameText([type |-> t, ip |-> ip])
           IN  /\ f \in Seq(S) /\ Len(f) = Len(ip) + 3
               /\ f[1] = t /\ f[2] = "|" /\ f[Len(f)] = "LF"
               /\ \A i \in 1 .. Len(ip) : f[i + 2] = ip[i]
<1> DEFINE a == <<t, "|">>
           b == a \o ip
           e == <<"LF">>
           f == FrameText([type |-> t, ip |-> ip])
<1>1. Len(ip) \in Nat
  BY LenProperties
<1>2. a \in Seq(S) /\ Len(a) = 2 /\ a[1] = t /\ a[2] = "|" /\ e \in Seq(S) /\ Len(e) = 1 /\ e[1] = "LF"
  OBVIOUS
<1>3. f = (b \o << >>) \o e
  BY DEF FrameText
<1> HIDE DEF a, e, f
<1>4. /\ b \in Seq(S) /\ Len(b) = Len(a) + Len(ip)
      /\ \A i \in 1 .. Len(a) : b[i] = a[i]
      /\ \A i \in 1 .. Len(ip) : b[Len(a) + i] = ip[i]
  <2>1. a \in Seq(S)
    BY <1>2
  <2> QED
    BY <2>1, Joined
<1> HIDE DEF b
<1>5. b \o << >> = b
  BY <1>4, ConcatEmptySeq
<1>6. /\ b \o e \in Seq(S) /\ Len(b \o e) = Len(b) + Len(e)
      /\ \A i \in 1 .. Len(b) : (b \o e)[i] = b[i]
      /\ \A i \in 1 .. Len(e) : (b \o e)[Len(b) + i] = e[i]
  <2>1. b \in Seq(S) /\ e \in Seq(S)
    BY <1>2, <1>4
  <2> QED
    BY <2>1, Joined
<1>7. /\ f \in Seq(S) /\ Len(f) = Len(b) + Len(e)
      /\ \A i \in 1 .. Len(b) : f[i] = b[i]
      /\ \A i \in 1 .. Len(e) : f[Len(b) + i] = e[i]
  BY <1>3, <1>5, <1>6
<1>8. Len(b) = Len(ip) + 2 /\ Len(f) = Len(ip) + 3
  BY <1>1, <1>2, <1>4, <1>7
<1>9. f[1] = t /\ f[2] = "|"
  <2>1. 1 \in 1 .. Len(a) /\ 2 \in 1 .. Len(a) /\ 1 \in 1 .. Len(b) /\ 2 \in 1 .. Len(b)
    BY <1>1, <1>2, <1>8
  <2> QED
    BY <1>2, <1>4, <1>7, <2>1
<1>10. f[Len(f)] = "LF"
  <2>1. 1 \in 1 .. Len(e) /\ Len(b) + 1 = Len(f)
    BY <1>1, <1>2, <1>8
  <2> QED
    BY <1>2, <1>7, <2>1
<1>11. ASSUME NEW i \in 1 .. Len(ip)
       PROVE  f[i + 2] = ip[i]
  <2>1. Len(a) + i = i + 2 /\ i + 2 \in 1 .. Len(b)
    BY <1>1, <1>2, <1>8
  <2> QED
    BY <1>4, <1>7, <2>1
<1> QED
  BY <1>7, <1>8, <1>9, <1>10, <1>11 DEF f

\* What encodeFrame gives is nothing, or the text of a frame that fits.
LEMMA Encoded ==
    ASSUME NEW m, Encode(m) # << >>
    PROVE  Encode(m) = FrameText(m) /\ m.ip \in Addresses /\ Len(FrameText(m)) < BufSize
BY DEF Encode

\* What sendFrame makes of a text is nothing, or the text and a line end, and
\* fits.
LEMMA ForwardedText ==
    ASSUME NEW S, "LF" \in S, NEW text \in Seq(S)
    PROVE  /\ Forwarded(text) \in Seq(S) /\ Whole(Forwarded(text))
           /\ Len(text) + 1 < BufSize => /\ Forwarded(text) = Append(text, "LF")
                                         /\ Forwarded(text) # << >> /\ Len(Forwarded(text)) < BufSize
<1>1. Len(text) \in Nat
  BY LenProperties
<1>2. /\ Append(text, "LF") \in Seq(S) /\ Append(text, "LF") # << >>
      /\ Len(Append(text, "LF")) = Len(text) + 1
      /\ Append(text, "LF")[Len(text) + 1] = "LF"
  BY AppendProperties
<1> QED
  BY <1>1, <1>2, EmptySeq DEF Forwarded, Whole

\* Each text that is passed on ends in one line end.
LEMMA AllForwardedTexts ==
    ASSUME NEW S, "LF" \in S, NEW texts \in Seq(Seq(S))
    PROVE  /\ AllForwarded(texts) \in Seq(Seq(S))
           /\ DOMAIN AllForwarded(texts) = DOMAIN texts
           /\ \A i \in DOMAIN texts : /\ texts[i] \in Seq(S)
                                      /\ AllForwarded(texts)[i] = Forwarded(texts[i])
                                      /\ Whole(AllForwarded(texts)[i])
<1>1. Len(texts) \in Nat /\ DOMAIN texts = 1 .. Len(texts)
  BY LenProperties
<1>2. \A i \in 1 .. Len(texts) : texts[i] \in Seq(S)
  BY ElementOfSeq
<1>3. \A i \in 1 .. Len(texts) : Forwarded(texts[i]) \in Seq(S) /\ Whole(Forwarded(texts[i]))
  BY <1>2, ForwardedText
<1>4. [i \in 1 .. Len(texts) |-> Forwarded(texts[i])] \in Seq(Seq(S))
  BY <1>1, <1>3
<1>5. AllForwarded(texts) = [i \in 1 .. Len(texts) |-> Forwarded(texts[i])]
  BY <1>1 DEF AllForwarded
<1> QED
  BY <1>1, <1>2, <1>3, <1>4, <1>5

\* The smaller of two numbers.
LEMMA MinOfTwo ==
    ASSUME NEW a \in Int, NEW b \in Int
    PROVE  Min({a, b}) \in Int /\ Min({a, b}) <= a /\ Min({a, b}) <= b
<1>1. CASE a <= b
  <2>1. a \in {a, b} /\ \A y \in {a, b} : a <= y
    BY <1>1
  <2> QED
    BY <2>1 DEF Min
<1>2. CASE ~ (a <= b)
  <2>1. b \in {a, b} /\ \A y \in {a, b} : b <= y
    BY <1>2
  <2> QED
    BY <2>1 DEF Min
<1> QED
  BY <1>1, <1>2

\* A recv returns a beginning of the stream, shorter than the buffer.
LEMMA ChunkShape ==
    ASSUME NEW S, NEW stream \in Seq(S), NEW chunk \in Chunks(stream), cuts \in 0 .. MaxCuts
    PROVE  /\ \E k \in 1 .. Len(stream) : k < BufSize /\ chunk = SubSeq(stream, 1, k)
           /\ cuts + Cut(chunk) \in 0 .. MaxCuts /\ cuts <= cuts + Cut(chunk)
           /\ cuts + Cut(chunk) = 0 => cuts = 0 /\ Last(chunk) = "LF"
<1>1. Len(stream) \in Nat /\ BufSize \in Nat /\ MaxCuts \in Nat
  BY LenProperties, FrameCodecAssumption, FileRelayAssumption
<1>2. PICK k \in 1 .. Min({Len(stream), BufSize - 1}) : chunk = SubSeq(stream, 1, k)
  BY DEF Chunks
<1>3. cuts + Cut(chunk) <= MaxCuts
  BY DEF Chunks
<1>4. /\ Min({Len(stream), BufSize - 1}) \in Int
      /\ Min({Len(stream), BufSize - 1}) <= Len(stream) /\ Min({Len(stream), BufSize - 1}) <= BufSize - 1
  <2>1. Len(stream) \in Int /\ BufSize - 1 \in Int
    BY <1>1
  <2> QED
    BY <2>1, MinOfTwo
<1>5. k \in 1 .. Len(stream) /\ k < BufSize
  BY <1>1, <1>2, <1>4
<1>6. Cut(chunk) \in {0, 1} /\ (Cut(chunk) = 0 => Last(chunk) = "LF")
  BY DEF Cut
<1>7. cuts + Cut(chunk) \in 0 .. MaxCuts /\ cuts <= cuts + Cut(chunk)
  BY <1>1, <1>3, <1>6
<1>8. cuts + Cut(chunk) = 0 => cuts = 0 /\ Cut(chunk) = 0
  BY <1>1, <1>6
<1> QED
  BY <1>2, <1>5, <1>6, <1>7, <1>8

-----------------------------------------------------------------------------
(* Types.                                                                   *)

\* A part of s from its k-th place on has the end of s.
LEMMA EndIsSuffix ==
    ASSUME NEW S, NEW s \in Seq(S), NEW t \in Seq(S), Ends(s, t)
    PROVE  IsSuffix(s, t)
<1> DEFINE rs == [i \in 1 .. Len(s) |-> s[(Len(s) - i) + 1]]
           rt == [i \in 1 .. Len(t) |-> t[(Len(t) - i) + 1]]
<1>1. Len(s) \in Nat /\ Len(t) \in Nat /\ Len(s) <= Len(t)
  BY LenProperties DEF Ends
<1>2. Reverse(s) = rs /\ Reverse(t) = rt
  BY DEF Reverse
<1>3. rs \in Seq(S) /\ Len(rs) = Len(s) /\ rt \in Seq(S) /\ Len(rt) = Len(t)
  <2>1. \A i \in 1 .. Len(s) : s[(Len(s) - i) + 1] \in S
    <3> TAKE i \in 1 .. Len(s)
    <3>1. (Len(s) - i) + 1 \in 1 .. Len(s)
      BY <1>1
    <3> QED
      BY <3>1, ElementOfSeq
  <2>2. \A i \in 1 .. Len(t) : t[(Len(t) - i) + 1] \in S
    <3> TAKE i \in 1 .. Len(t)
    <3>1. (Len(t) - i) + 1 \in 1 .. Len(t)
      BY <1>1
    <3> QED
      BY <3>1, ElementOfSeq
  <2> QED
    BY <1>1, <2>1, <2>2
<1>4. \A i \in 1 .. Len(s) : rs[i] = rt[i]
  <2> TAKE i \in 1 .. Len(s)
  <2>1. (Len(s) - i) + 1 \in 1 .. Len(s) /\ Len(t) - Len(s) + ((Len(s) - i) + 1) = (Len(t) - i) + 1 /\ i \in 1 .. Len(t)
    BY <1>1
  <2>2. s[(Len(s) - i) + 1] = t[Len(t) - Len(s) + ((Len(s) - i) + 1)]
    BY <2>1 DEF Ends
  <2> QED
    BY <2>1, <2>2
<1> HIDE DEF rs, rt
<1>5. IsPrefix(rs, rt)
  BY <1>1, <1>3, <1>4, BeginningIsPrefix DEF Begins
<1> QED
  BY <1>2, <1>5 DEF IsSuffix

\* The characters of a text, of an address and of a frame.
LEMMA Characters ==
    /\ "LF" \in Chars /\ "|" \in Chars /\ Types \subseteq Chars
    /\ \A s \in Sources : s.text \in Seq(ToSet(s.text)) /\ ToSet(s.text) \subseteq Chars
    /\ \A ip \in Addresses : ip \in Seq(Chars)
    /\ \A i \in DOMAIN Hosts : Hosts[i] \in Addresses
    /\ ToSet(Hosts) \subseteq Addresses
<1>1. "LF" \in Chars /\ "|" \in Chars /\ Types \subseteq Chars
  BY DEF Chars, LineEnds
<1>2. \A s \in Sources : s.text \in Seq(ToSet(s.text)) /\ ToSet(s.text) \subseteq Chars
  BY FileRelayAssumption DEF Chars, TextChars
<1>3. \A ip \in Addresses : ip \in Seq(Chars)
  <2> TAKE ip \in Addresses
  <2>1. ip \in Seq(ToSet(ip))
    BY FrameCodecAssumption
  <2>2. ToSet(ip) \subseteq AddressChars
    BY DEF AddressChars
  <2>3. AddressChars \subseteq Chars
    BY DEF Chars
  <2> QED
    BY <2>1, <2>2, <2>3, SeqMonotonic
<1>4. Hosts \in Seq(Addresses)
  BY FileRelayAssumption
<1>5. \A i \in DOMAIN Hosts : Hosts[i] \in Addresses
  BY <1>4, LenProperties, ElementOfSeq
<1>6. ToSet(Hosts) \subseteq Addresses
  BY <1>5 DEF ToSet
<1> QED
  BY <1>1, <1>2, <1>3, <1>5, <1>6

\* Texts over fewer characters are texts over more.
LEMMA SeqOfSeqMonotonic ==
    ASSUME NEW S, NEW T, S \subseteq T, NEW seqs \in Seq(Seq(S))
    PROVE  seqs \in Seq(Seq(T))
<1>1. Seq(S) \subseteq Seq(T)
  BY SeqMonotonic
<1> QED
  BY <1>1, SeqMonotonic

\* A frame that the sender writes is a text of the relay, with its line end.
LEMMA FrameCharacters ==
    ASSUME NEW s \in Sources, NEW ip \in Addresses, NEW x \in Seq(ToSet(s.text))
    PROVE  /\ FrameText(Data(ip, x)) \in Seq(Chars) /\ Whole(FrameText(Data(ip, x)))
           /\ x \in Seq(Chars)
<1>1. x \in Seq(Chars) /\ ip \in Seq(Chars) /\ "DATA" \in Chars /\ "|" \in Chars /\ "LF" \in Chars
  BY Characters, SeqMonotonic DEF Types
<1> DEFINE f == FrameText(Data(ip, x))
<1>2. f \in Seq(Chars) /\ f[Len(f)] = "LF"
  BY <1>1, DataFrame
<1> QED
  BY <1>1, <1>2 DEF Whole

\* Sending a text: the stream and the list of what was sent.
LEMMA SentTypes ==
    ASSUME TypeInv, NEW text \in Seq(ToSet(source.text)), NEW frame, frame # << >>,
           frame = Encode(Data(source.dest, text))
    PROVE  /\ source.dest \in Addresses /\ frame = FrameText(Data(source.dest, text)) /\ Len(frame) < BufSize
           /\ frame \in Seq(Chars) /\ Whole(frame)
           /\ up \o frame \in Seq(Chars) /\ Whole(up \o frame) /\ ShortLines(up \o frame)
           /\ \A i \in DOMAIN Append(sent, text) :
                  Len(FrameText(Data(source.dest, Append(sent, text)[i]))) < BufSize
           /\ Append(sent, text) \in Seq(Seq(ToSet(source.text)))
<1>1. source \in Sources /\ up \in Seq(Chars) /\ Whole(up) /\ ShortLines(up) /\ sent \in Seq(Seq(ToSet(source.text)))
  BY DEF TypeInv, TypeOK, Streams
<1>2. frame = FrameText(Data(source.dest, text)) /\ source.dest \in Addresses /\ Len(frame) < BufSize
  BY Encoded DEF Data
<1>3. frame \in Seq(Chars) /\ Whole(frame)
  BY <1>1, <1>2, FrameCharacters
<1>4. up \o frame \in Seq(Chars) /\ Whole(up \o frame) /\ ShortLines(up \o frame)
  BY <1>1, <1>2, <1>3, Joined, JoinedWhole, JoinedShortLines
<1>5. /\ Append(sent, text) \in Seq(Seq(ToSet(source.text)))
      /\ Len(sent) \in Nat /\ DOMAIN sent = 1 .. Len(sent)
      /\ DOMAIN Append(sent, text) = 1 .. Len(sent) + 1
      /\ \A i \in 1 .. Len(sent) : Append(sent, text)[i] = sent[i]
      /\ Append(sent, text)[Len(sent) + 1] = text
  BY <1>1, AppendProperties, LenProperties
<1>6. \A i \in DOMAIN Append(sent, text) :
          Len(FrameText(Data(source.dest, Append(sent, text)[i]))) < BufSize
  <2> TAKE i \in DOMAIN Append(sent, text)
  <2>1. CASE i \in 1 .. Len(sent)
    BY <1>5, <2>1 DEF TypeInv, TypeOK
  <2>2. CASE i = Len(sent) + 1
    BY <1>2, <1>5, <2>2
  <2> QED
    BY <1>5, <2>1, <2>2
<1> QED
  BY <1>2, <1>3, <1>4, <1>5, <1>6

\* The characters of a line of the file are those of the file.
LEMMA LineTypes ==
    ASSUME TypeInv
    PROVE  /\ Fgets \in 0 .. Len(unread)
           /\ WithoutEnd(Before(SubSeq(unread, 1, Fgets), "NUL")) \in Seq(ToSet(source.text))
           /\ SubSeq(unread, Fgets + 1, Len(unread)) \in Seq(ToSet(source.text))
           /\ Ends(SubSeq(unread, Fgets + 1, Len(unread)), source.text)
<1> DEFINE C == ToSet(source.text)
           I == {Len(unread), MaxLine - 1} \cup {i \in DOMAIN unread : unread[i] = "LF"}
           rest == SubSeq(unread, Fgets + 1, Len(unread))
<1>1. unread \in Seq(C) /\ Ends(unread, source.text) /\ source.text \in Seq(C) /\ MaxLine \in Nat \ {0, 1}
  BY Characters, FileRelayAssumption DEF TypeInv, TypeOK, Streams
<1>2. Len(unread) \in Nat /\ DOMAIN unread = 1 .. Len(unread) /\ Len(source.text) \in Nat
  BY <1>1, LenProperties
<1>3. I \subseteq Nat /\ Len(unread) \in I
  BY <1>1, <1>2
<1>4. Min(I) \in Nat /\ Min(I) <= Len(unread)
  BY <1>3, MinIsMember, MinIsLeast
<1>5. Fgets \in 0 .. Len(unread)
  BY <1>2, <1>4 DEF Fgets
<1> HIDE DEF C
<1>6. /\ SubSeq(unread, 1, Fgets) \in Seq(C) /\ Len(SubSeq(unread, 1, Fgets)) = Fgets
      /\ rest = Rest(unread, SubSeq(unread, 1, Fgets))
      /\ rest \in Seq(C) /\ Len(rest) = Len(unread) - Fgets
      /\ \A i \in 1 .. Len(unread) - Fgets : rest[i] = unread[Fgets + i]
  BY <1>1, <1>5, Split DEF Rest
<1>7. WithoutEnd(Before(SubSeq(unread, 1, Fgets), "NUL")) \in Seq(C)
  <2> DEFINE b == Before(SubSeq(unread, 1, Fgets), "NUL")
  <2>1. b \in Seq(C)
    BY <1>6, PartsAreShorter
  <2> HIDE DEF b
  <2>2. PICK n \in 0 .. Len(b) : WithoutEnd(b) = SubSeq(b, 1, n)
    BY <2>1, WithoutEndShape
  <2>3. SubSeq(b, 1, n) \in Seq(C)
    BY <2>1, Split
  <2> QED
    BY <2>2, <2>3 DEF b
<1>8. Ends(rest, source.text)
  <2> HIDE DEF rest
  <2>1. Len(unread) <= Len(source.text) /\ Len(rest) <= Len(source.text)
    BY <1>1, <1>2, <1>5, <1>6 DEF Ends
  <2>2. ASSUME NEW i \in 1 .. Len(rest)
        PROVE  rest[i] = source.text[Len(source.text) - Len(rest) + i]
    <3>1. Fgets + i \in 1 .. Len(unread) /\ i \in 1 .. Len(unread) - Fgets
      BY <1>2, <1>5, <1>6
    <3>2. unread[Fgets + i] = source.text[Len(source.text) - Len(unread) + (Fgets + i)]
      BY <1>1, <3>1 DEF Ends
    <3>3. Len(source.text) - Len(unread) + (Fgets + i) = Len(source.text) - Len(rest) + i
      <4>1. Fgets \in Int /\ i \in Int /\ Len(rest) = Len(unread) - Fgets
        BY <1>5, <1>6
      <4> DEFINE f == Fgets
                 t == Len(source.text)
                 u == Len(unread)
                 v == Len(rest)
      <4>2. f \in Int /\ t \in Int /\ u \in Int /\ v = u - f
        BY <1>2, <4>1
      <4> HIDE DEF f, t, u, v
      <4>3. t - u + (f + i) = t - v + i
        BY <4>1, <4>2
      <4> QED
        BY <4>3 DEF f, t, u, v
    <3> QED
      BY <1>6, <3>1, <3>2, <3>3
  <2> QED
    BY <2>1, <2>2 DEF Ends
<1> QED
  BY <1>5, <1>6, <1>7, <1>8 DEF C

\* The frames of one type are some of the texts.
LEMMA OfTypeTexts ==
    ASSUME NEW S, NEW texts \in Seq(Seq(S)), NEW type
    PROVE  /\ {i \in DOMAIN texts : Decode(texts[i]).type = type} \in SUBSET DOMAIN texts
           /\ OfType(texts, type) \in Seq(Seq(S))
           /\ \A i \in DOMAIN OfType(texts, type) :
                  /\ OfType(texts, type)[i] \in Seq(S)
                  /\ \E j \in DOMAIN texts : OfType(texts, type)[i] = texts[j]
                  /\ Decode(OfType(texts, type)[i]).type = type
<1> DEFINE D == {i \in DOMAIN texts : Decode(texts[i]).type = type}
           f == OfType(texts, type)
<1>1. D \in SUBSET DOMAIN texts /\ f = At(texts, D)
  BY DEF OfType
<1>2. \A i \in D : Decode(texts[i]).type = type /\ i \in DOMAIN texts
  OBVIOUS
<1> HIDE DEF D, f
<1>3. /\ f \in Seq(Seq(S))
      /\ \A i \in DOMAIN f : Ascending(D)[i] \in D /\ f[i] = texts[Ascending(D)[i]]
  BY <1>1, AtProperties
<1>4. \A i \in DOMAIN f : f[i] \in Seq(S)
  BY <1>3, LenProperties, ElementOfSeq
<1> QED
  BY <1>1, <1>2, <1>3, <1>4 DEF D, f

\* What the listener's router passes on are some of the frames, to addresses
\* in its table; and they end with a line end.
LEMMA Delivered ==
    ASSUME NEW texts \in Seq(Seq(Chars)), down \in Seq(Chars), Whole(down), missed \in BOOLEAN,
           DeliverToHost(texts)
    PROVE  /\ missed' \in BOOLEAN
           /\ \E D \in SUBSET DOMAIN OfType(texts, "DATA") :
                 LET routed == At(OfType(texts, "DATA"), D)
                 IN  /\ routed \in Seq(Seq(Chars))
                     /\ \A i \in D : Decode(OfType(texts, "DATA")[i]).ip \in table
                     /\ FlattenSeq(AllForwarded(routed)) \in Seq(Chars)
                     /\ Whole(FlattenSeq(AllForwarded(routed)))
                     /\ down' = down \o FlattenSeq(AllForwarded(routed))
           /\ down' \in Seq(Chars) /\ Whole(down')
<1> DEFINE frames == OfType(texts, "DATA")
           D      == {i \in DOMAIN frames : Decode(frames[i]).ip \in table}
           routed == At(frames, D)
<1>1. down' = down \o FlattenSeq(AllForwarded(routed)) /\ missed' \in BOOLEAN
  BY DEF DeliverToHost
<1>2. frames \in Seq(Seq(Chars))
  BY OfTypeTexts
<1> HIDE DEF frames
<1>3. D \in SUBSET DOMAIN frames /\ \A i \in D : Decode(frames[i]).ip \in table
  OBVIOUS
<1> HIDE DEF D
<1>4. routed \in Seq(Seq(Chars))
  BY <1>2, <1>3, AtProperties
<1> HIDE DEF routed
<1>5. FlattenSeq(AllForwarded(routed)) \in Seq(Chars) /\ Whole(FlattenSeq(AllForwarded(routed)))
  BY <1>4, Characters, AllForwardedTexts, FlattenWhole
<1>6. down' \in Seq(Chars) /\ Whole(down')
  BY <1>1, <1>5, Joined, JoinedWhole
<1> QED
  BY <1>1, <1>3, <1>4, <1>5, <1>6 DEF frames, routed

\* The data of a chunk's lines is shorter than the buffer.
LEMMA MessageTypes ==
    ASSUME NEW chunk \in Seq(Chars), Len(chunk) < BufSize
    PROVE  /\ Messages(chunk) \in Seq(Seq(Chars))
           /\ DOMAIN Messages(chunk) = DOMAIN OfType(Lines(chunk), "DATA")
           /\ \A i \in DOMAIN Messages(chunk) :
                  /\ Messages(chunk)[i] = Decode(OfType(Lines(chunk), "DATA")[i]).data
                  /\ Len(Messages(chunk)[i]) < BufSize
<1> DEFINE L      == Lines(chunk)
           frames == OfType(L, "DATA")
           M      == Messages(chunk)
<1>1. Len(chunk) \in Nat /\ BufSize \in Nat
  BY LenProperties, FrameCodecAssumption
<1>2. PICK a \in [DOMAIN L -> Nat \ {0}] :
          \A j \in DOMAIN L : a[j] + Len(L[j]) \in 1 .. Len(chunk)
  BY LinesArePlaced
<1>3. L \in Seq(Seq(Chars))
  BY LinesArePlaced
<1> HIDE DEF L
<1>4. \A j \in DOMAIN L : Len(L[j]) < BufSize
  <2> TAKE j \in DOMAIN L
  <2>1. Len(L[j]) \in Nat /\ a[j] \in Nat /\ a[j] + Len(L[j]) <= Len(chunk)
    BY <1>1, <1>2, <1>3, LenProperties, ElementOfSeq
  <2> QED
    BY <1>1, <2>1
<1>5. M = [i \in DOMAIN frames |-> Decode(frames[i]).data]
  BY DEF Messages, L
<1>6. /\ frames \in Seq(Seq(Chars))
      /\ \A i \in DOMAIN frames : frames[i] \in Seq(Chars) /\ \E j \in DOMAIN L : frames[i] = L[j]
  BY <1>3, OfTypeTexts
<1> HIDE DEF frames, M
<1>7. \A i \in DOMAIN frames : Decode(frames[i]).data \in Seq(Chars) /\ Len(Decode(frames[i]).data) < BufSize
  <2> TAKE i \in DOMAIN frames
  <2>1. frames[i] \in Seq(Chars) /\ Len(frames[i]) < BufSize
    BY <1>4, <1>6
  <2>2. Decode(frames[i]).data \in Seq(Chars) /\ Len(Decode(frames[i]).data) <= Len(frames[i])
    BY <2>1, DecodedShape
  <2>3. Len(frames[i]) \in Nat /\ Len(Decode(frames[i]).data) \in Nat
    BY <2>1, <2>2, LenProperties
  <2> QED
    BY <1>1, <2>1, <2>2, <2>3
<1>8. M \in Seq(Seq(Chars))
  <2>1. Len(frames) \in Nat /\ DOMAIN frames = 1 .. Len(frames)
    BY <1>6, LenProperties
  <2>2. [i \in 1 .. Len(frames) |-> Decode(frames[i]).data] \in Seq(Seq(Chars))
    BY <1>7, <2>1
  <2> QED
    BY <1>5, <2>1, <2>2
<1> QED
  BY <1>5, <1>7, <1>8 DEF frames, M, L

\* At the start nothing is on its way, so every stream is whole.
LEMMA InitTypes == Init => TypeInv
<1> SUFFICES ASSUME Init
             PROVE  TypeInv
  OBVIOUS
<1>1. source \in Sources /\ host \in ToSet(Hosts) /\ far \in BOOLEAN /\ unread = source.text
  BY DEF Init
<1>2. unread \in Seq(ToSet(source.text)) /\ Len(unread) \in Nat
  BY <1>1, Characters, LenProperties
<1>3. Ends(unread, source.text)
  <2>1. \A i \in 1 .. Len(unread) : Len(unread) - Len(unread) + i = i
    BY <1>2
  <2> QED
    BY <1>1, <1>2, <2>1 DEF Ends
<1>4. IsSuffix(unread, source.text)
  BY <1>1, <1>2, <1>3, EndIsSuffix
<1>5. /\ sent = << >> /\ up = << >> /\ hops = << >> /\ hello = << >> /\ down = << >> /\ output = << >>
      /\ result = "none" /\ listening = FALSE /\ table = {} /\ cuts = 0 /\ missed = FALSE
  BY DEF Init
<1>6. MaxCuts \in Nat /\ 0 \in 0 .. MaxCuts
  BY FileRelayAssumption
<1>7. Whole(<< >>) /\ ShortLines(<< >>)
  BY DEF Whole, ShortLines
<1>8. DOMAIN sent = {} /\ DOMAIN hops = {} /\ DOMAIN output = {}
  BY <1>5
<1>9. TypeOK
  BY <1>1, <1>4, <1>5, <1>6, <1>8 DEF TypeOK
<1>10. Streams
  BY <1>2, <1>3, <1>5, <1>7, <1>8 DEF Streams
<1> QED
  BY <1>9, <1>10 DEF TypeInv

\* One lemma for each part of the program that reads or writes a stream.
LEMMA SenderTypes ==
    ASSUME TypeInv, Connect \/ SendMessage \/ SendLine \/ EndOfFile
    PROVE  TypeInv'
<1>1. CASE Connect
  <2>1. result' \in {"none", "sending", "ok", "failed"}
    BY <1>1 DEF Connect
  <2> QED
    BY <1>1, <2>1 DEF TypeInv, TypeOK, Streams, Connect, listenerVars
<1>2. source \in Sources /\ source.text \in Seq(ToSet(source.text))
  BY Characters DEF TypeInv, TypeOK
<1>3. ASSUME NEW text \in Seq(ToSet(source.text)), NEW then \in {"sending", "ok"}, SendFrame(text, then)
      PROVE  /\ result' \in {"none", "sending", "ok", "failed"}
             /\ sent' \in Seq(Seq(ToSet(source.text)))
             /\ sent' # << >> => source.dest \in Addresses
             /\ up' \in Seq(Chars) /\ Whole(up') /\ ShortLines(up')
             /\ \A i \in DOMAIN sent' : Len(FrameText(Data(source.dest, sent'[i]))) < BufSize
  <2> DEFINE frame == Encode(Data(source.dest, text))
  <2> HIDE DEF frame
  <2>1. CASE frame = << >>
    <3>1. result' = "failed" /\ up' = up /\ sent' = sent
      BY <1>3, <2>1 DEF SendFrame, frame
    <3> QED
      BY <3>1 DEF TypeInv, TypeOK, Streams
  <2>2. CASE frame # << >>
    <3>1. result' = then /\ up' = up \o frame /\ sent' = Append(sent, text)
      BY <1>3, <2>2 DEF SendFrame, frame
    <3>2. /\ source.dest \in Addresses
          /\ up \o frame \in Seq(Chars) /\ Whole(up \o frame) /\ ShortLines(up \o frame)
          /\ \A i \in DOMAIN Append(sent, text) :
                 Len(FrameText(Data(source.dest, Append(sent, text)[i]))) < BufSize
          /\ Append(sent, text) \in Seq(Seq(ToSet(source.text)))
      BY <2>2, SentTypes DEF frame
    <3> QED
      BY <1>3, <3>1, <3>2
  <2> QED
    BY <2>1, <2>2
<1>4. CASE SendMessage
  <2>1. SendFrame(source.text, "ok")
    BY <1>4 DEF SendMessage
  <2>2. UNCHANGED <<source, host, far, unread, hops, listenerVars, hello, table, down, cuts, missed>>
    BY <1>4 DEF SendMessage
  <2> QED
    BY <1>2, <1>3, <2>1, <2>2 DEF TypeInv, TypeOK, Streams, listenerVars
<1>5. CASE SendLine
  <2> DEFINE text == WithoutEnd(Before(SubSeq(unread, 1, Fgets), "NUL"))
  <2>1. unread' = SubSeq(unread, Fgets + 1, Len(unread)) /\ SendFrame(text, "sending")
    BY <1>5 DEF SendLine
  <2>2. UNCHANGED <<source, host, far, hops, listenerVars, hello, table, down, cuts, missed>>
    BY <1>5 DEF SendLine
  <2>3. text \in Seq(ToSet(source.text)) /\ unread' \in Seq(ToSet(source.text)) /\ Ends(unread', source.text)
    BY <2>1, LineTypes
  <2> HIDE DEF text
  <2>4. IsSuffix(unread', source.text)
    BY <1>2, <2>3, EndIsSuffix
  <2> QED
    BY <1>3, <2>1, <2>2, <2>3, <2>4 DEF TypeInv, TypeOK, Streams, listenerVars
<1>6. CASE EndOfFile
  <2> DEFINE frame == IF sent = << >> THEN Encode(Data(source.dest, << >>)) ELSE << >>
  <2>1. /\ result' = "ok" /\ up' = up \o frame
        /\ sent' = IF frame = << >> THEN sent ELSE << << >> >>
        /\ UNCHANGED <<source, host, far, unread, hops, listenerVars, hello, table, down, cuts, missed>>
    BY <1>6 DEF EndOfFile
  <2>2. up \in Seq(Chars)
    BY DEF TypeInv, Streams
  <2>3. CASE frame = << >>
    <3>1. up' = up /\ sent' = sent
      BY <2>1, <2>2, <2>3, ConcatEmptySeq
    <3> QED
      BY <2>1, <3>1 DEF TypeInv, TypeOK, Streams, listenerVars
  <2>4. CASE frame # << >>
    <3>1. sent = << >> /\ frame = Encode(Data(source.dest, << >>))
      BY <2>4
    <3>2. sent' = Append(sent, << >>) /\ << >> \in Seq(ToSet(source.text))
      BY <2>1, <2>4, <3>1
    <3> HIDE DEF frame
    <3> DEFINE text == << >>
    <3>4. text \in Seq(ToSet(source.text)) /\ frame = Encode(Data(source.dest, text))
      BY <3>1, <3>2
    <3> HIDE DEF text
    <3>5. /\ source.dest \in Addresses
          /\ up \o frame \in Seq(Chars) /\ Whole(up \o frame) /\ ShortLines(up \o frame)
          /\ \A i \in DOMAIN Append(sent, text) :
                 Len(FrameText(Data(source.dest, Append(sent, text)[i]))) < BufSize
          /\ Append(sent, text) \in Seq(Seq(ToSet(source.text)))
      BY <2>4, <3>4, SentTypes
    <3>3. /\ source.dest \in Addresses
          /\ up \o frame \in Seq(Chars) /\ Whole(up \o frame) /\ ShortLines(up \o frame)
          /\ \A i \in DOMAIN Append(sent, << >>) :
                 Len(FrameText(Data(source.dest, Append(sent, << >>)[i]))) < BufSize
          /\ Append(sent, << >>) \in Seq(Seq(ToSet(source.text)))
      BY <3>5 DEF text
    <3> QED
      BY <2>1, <3>2, <3>3 DEF TypeInv, TypeOK, Streams, listenerVars
  <2> QED
    BY <2>3, <2>4
<1> QED
  BY <1>1, <1>4, <1>5, <1>6

\* A chunk of a typed stream, and what is left of the stream.
LEMMA ChunkTypes ==
    ASSUME TypeInv, NEW stream \in Seq(Chars), NEW chunk \in Chunks(stream)
    PROVE  /\ chunk \in Seq(Chars) /\ Len(chunk) \in Nat /\ Len(chunk) < BufSize
           /\ Rest(stream, chunk) \in Seq(Chars)
           /\ Whole(stream) => Whole(Rest(stream, chunk))
           /\ ShortLines(stream) => ShortLines(Rest(stream, chunk))
           /\ Len(Rest(stream, chunk)) < Len(stream)
           /\ chunk # stream => Rest(stream, chunk) # << >>
           /\ cuts + Cut(chunk) \in 0 .. MaxCuts
           /\ Dispatched(chunk) \in Seq(Seq(Chars))
           /\ ShortLines(stream) => \A j \in DOMAIN Dispatched(chunk) : Len(Dispatched(chunk)[j]) + 1 < BufSize
<1>1. cuts \in 0 .. MaxCuts /\ BufSize \in Nat
  BY FrameCodecAssumption DEF TypeInv, TypeOK
<1>2. PICK k \in 1 .. Len(stream) : k < BufSize /\ chunk = SubSeq(stream, 1, k)
  BY <1>1, ChunkShape
<1>3. cuts + Cut(chunk) \in 0 .. MaxCuts
  BY <1>1, ChunkShape
<1> DEFINE rest == Rest(stream, chunk)
<1>4. Len(stream) \in Nat /\ k \in 0 .. Len(stream)
  BY LenProperties
<1>5. /\ chunk \in Seq(Chars) /\ Len(chunk) = k
      /\ \A i \in 1 .. k : chunk[i] = stream[i]
      /\ rest \in Seq(Chars) /\ Len(rest) = Len(stream) - k
  BY <1>2, <1>4, Split
<1>6. (Whole(stream) => Whole(rest)) /\ (ShortLines(stream) => ShortLines(rest))
  BY <1>2, <1>4, RestWhole, RestShortLines
<1> HIDE DEF rest
<1>7. chunk # stream => rest # << >>
  <2>1. SUFFICES ASSUME rest = << >>
                 PROVE  chunk = stream
    OBVIOUS
  <2>2. k = Len(stream)
    BY <1>4, <1>5, <2>1, EmptySeq
  <2> QED
    BY <1>2, <2>2, SubSeqFull
<1>8. Dispatched(chunk) \in Seq(Seq(Chars))
  BY <1>5, DispatchedInLines
<1>9. ASSUME ShortLines(stream), NEW j \in DOMAIN Dispatched(chunk)
      PROVE  Len(Dispatched(chunk)[j]) + 1 < BufSize
  <2> DEFINE t == Dispatched(chunk)[j]
  <2>1. Len(t) \in Nat
    BY <1>8, LenProperties, ElementOfSeq
  <2>2. CASE \E i \in 1 .. Len(chunk) : chunk[i] = "LF"
    <3>1. Len(t) < k
      BY <1>5, <2>2, DispatchedInLines
    <3> HIDE DEF t
    <3> QED
      BY <1>1, <1>2, <2>1, <3>1 DEF t
  <2>3. CASE \A i \in 1 .. Len(chunk) : chunk[i] # "LF"
    <3>1. Len(t) <= k
      BY <1>5, <2>3, DispatchedInLines
    <3>2. 1 \in 1 .. Len(stream) /\ 1 <= k /\ \A r \in 1 .. k : stream[r] # "LF"
      BY <1>4, <1>5, <2>3
    <3>3. k - 1 + 2 < BufSize
      BY <1>9, <3>2 DEF ShortLines
    <3> HIDE DEF t
    <3> QED
      BY <1>1, <2>1, <3>1, <3>3 DEF t
  <2> QED
    BY <2>2, <2>3
<1> QED
  BY <1>1, <1>2, <1>3, <1>4, <1>5, <1>6, <1>7, <1>8, <1>9 DEF rest

\* What the router of the sender reads is cut from the stream, and passed on whole.
LEMMA ReadSenderTypes ==
    ASSUME TypeInv, ReadSender
    PROVE  TypeInv'
<1>1. up \in Seq(Chars) /\ Whole(up) /\ ShortLines(up)
  BY DEF TypeInv, Streams
<1>2. PICK chunk \in Chunks(up) :
          /\ up' = Rest(up, chunk)
          /\ cuts' = cuts + Cut(chunk)
          /\ IF far THEN DeliverToNeighbor(Dispatched(chunk)) /\ UNCHANGED down
                    ELSE DeliverToHost(Dispatched(chunk)) /\ UNCHANGED hops
          /\ UNCHANGED <<source, host, far, senderVars, listenerVars, hello, table>>
  BY DEF ReadSender
<1> DEFINE texts == Dispatched(chunk)
<1>3. /\ up' \in Seq(Chars) /\ Whole(up') /\ ShortLines(up') /\ cuts' \in 0 .. MaxCuts
      /\ texts \in Seq(Seq(Chars))
      /\ \A j \in DOMAIN texts : Len(texts[j]) + 1 < BufSize
  BY <1>1, <1>2, ChunkTypes
<1> HIDE DEF texts
<1>4. CASE far
  <2>1. PICK routed \in PartsOf(OfType(texts, "DATA")) :
            /\ hops' = hops \o AllForwarded(routed)
            /\ missed' = (missed \/ Len(routed) < Len(OfType(texts, "DATA")))
    BY <1>2, <1>4 DEF DeliverToNeighbor, texts
  <2> DEFINE frames == OfType(texts, "DATA")
  <2>2. PICK D \in SUBSET DOMAIN frames : routed = At(frames, D)
    BY DEF PartsOf
  <2>3. /\ frames \in Seq(Seq(Chars))
        /\ \A i \in DOMAIN frames : Len(frames[i]) + 1 < BufSize
    BY <1>3, OfTypeTexts
  <2> HIDE DEF frames
  <2>4. /\ routed \in Seq(Seq(Chars))
        /\ \A i \in DOMAIN routed : Len(routed[i]) + 1 < BufSize
    <3>1. /\ routed \in Seq(Seq(Chars))
          /\ \A i \in DOMAIN routed : Ascending(D)[i] \in D /\ routed[i] = frames[Ascending(D)[i]]
      BY <2>2, <2>3, AtProperties
    <3> QED
      BY <2>3, <3>1
  <2> DEFINE new == AllForwarded(routed)
  <2>5. /\ new \in Seq(Seq(Chars)) /\ DOMAIN new = DOMAIN routed
        /\ \A i \in DOMAIN routed :
              routed[i] \in Seq(Chars) /\ new[i] = Forwarded(routed[i]) /\ Whole(new[i])
    BY <2>4, Characters, AllForwardedTexts
  <2>6. \A i \in DOMAIN new : Whole(new[i]) /\ new[i] # << >> /\ Len(new[i]) < BufSize
    BY <2>4, <2>5, Characters, ForwardedText
  <2>7. hops \in Seq(Seq(Chars)) /\ \A i \in DOMAIN hops : Whole(hops[i]) /\ hops[i] # << >> /\ Len(hops[i]) < BufSize
    BY DEF TypeInv, TypeOK, Streams
  <2> HIDE DEF new
  <2>8. /\ hops' \in Seq(Seq(Chars))
        /\ \A i \in DOMAIN hops' : Whole(hops'[i]) /\ hops'[i] # << >> /\ Len(hops'[i]) < BufSize
    <3>1. hops' = hops \o new
      BY <2>1 DEF new
    <3>2. /\ hops' \in Seq(Seq(Chars)) /\ Len(hops) \in Nat /\ Len(new) \in Nat /\ Len(hops') = Len(hops) + Len(new)
          /\ \A i \in 1 .. Len(hops) : hops'[i] = hops[i]
          /\ \A i \in 1 .. Len(new) : hops'[Len(hops) + i] = new[i]
      BY <2>5, <2>7, <3>1, Joined
    <3>3. DOMAIN hops = 1 .. Len(hops) /\ DOMAIN new = 1 .. Len(new) /\ DOMAIN hops' = 1 .. Len(hops) + Len(new)
      BY <2>5, <2>7, <3>2, LenProperties
    <3>4. ASSUME NEW i \in DOMAIN hops'
          PROVE  Whole(hops'[i]) /\ hops'[i] # << >> /\ Len(hops'[i]) < BufSize
      <4>1. CASE i <= Len(hops)
        <5>1. i \in DOMAIN hops /\ hops'[i] = hops[i]
          BY <3>2, <3>3, <4>1
        <5> QED
          BY <2>7, <5>1
      <4>2. CASE ~ (i <= Len(hops))
        <5>1. i - Len(hops) \in 1 .. Len(new) /\ Len(hops) + (i - Len(hops)) = i
          BY <3>2, <3>3, <4>2
        <5>2. hops'[i] = new[i - Len(hops)] /\ i - Len(hops) \in DOMAIN new
          BY <3>2, <3>3, <5>1
        <5> QED
          BY <2>6, <5>2
      <4> QED
        BY <4>1, <4>2
    <3> QED
      BY <3>2, <3>4
  <2>9. missed' \in BOOLEAN /\ down' = down
    BY <1>2, <1>4, <2>1 DEF TypeInv, TypeOK
  <2> QED
    BY <1>2, <1>3, <2>8, <2>9 DEF TypeInv, TypeOK, Streams, senderVars, listenerVars
<1>5. CASE ~ far
  <2>1. DeliverToHost(texts) /\ hops' = hops
    BY <1>2, <1>5 DEF texts
  <2>2. missed' \in BOOLEAN /\ down' \in Seq(Chars) /\ Whole(down')
    BY <1>3, <2>1, Delivered DEF TypeInv, TypeOK, Streams
  <2> QED
    BY <1>2, <1>3, <2>1, <2>2 DEF TypeInv, TypeOK, Streams, senderVars, listenerVars
<1> QED
  BY <1>4, <1>5

\* Removing an element moves those after it one place forward.
LEMMA RemoveAtProperties ==
    ASSUME NEW S, NEW s \in Seq(S), NEW i \in DOMAIN s
    PROVE  /\ RemoveAt(s, i) \in Seq(S) /\ DOMAIN RemoveAt(s, i) = 1 .. Len(s) - 1
           /\ Len(s) \in Nat /\ DOMAIN s = 1 .. Len(s)
           /\ \A j \in 1 .. Len(s) - 1 : RemoveAt(s, i)[j] = s[IF j < i THEN j ELSE j + 1]
<1> DEFINE a == SubSeq(s, 1, i - 1)
           b == SubSeq(s, i + 1, Len(s))
           r == RemoveAt(s, i)
<1>1. Len(s) \in Nat /\ DOMAIN s = 1 .. Len(s)
  BY LenProperties
<1>2. 1 \in Nat \ {0} /\ i - 1 \in Int /\ i - 1 <= Len(s) /\ i + 1 \in Nat \ {0} /\ Len(s) \in Int /\ Len(s) <= Len(s)
  BY <1>1
<1>3. /\ a \in Seq(S) /\ Len(a) = IF 1 <= i - 1 THEN i - 1 - 1 + 1 ELSE 0
      /\ \A j \in 1 .. Len(a) : a[j] = s[1 + j - 1]
  BY <1>2, SubSeqShape
<1>4. /\ b \in Seq(S) /\ Len(b) = IF i + 1 <= Len(s) THEN Len(s) - (i + 1) + 1 ELSE 0
      /\ \A j \in 1 .. Len(b) : b[j] = s[i + 1 + j - 1]
  BY <1>2, SubSeqShape
<1>5. r = a \o b
  BY DEF RemoveAt
<1> HIDE DEF a, b, r
<1>6. Len(a) = i - 1 /\ Len(b) = Len(s) - i
  BY <1>1, <1>3, <1>4
<1>7. /\ a \o b \in Seq(S) /\ Len(a \o b) = Len(a) + Len(b)
      /\ \A j \in 1 .. Len(a) : (a \o b)[j] = a[j]
      /\ \A j \in 1 .. Len(b) : (a \o b)[Len(a) + j] = b[j]
  <2>1. a \in Seq(S) /\ b \in Seq(S)
    BY <1>3, <1>4
  <2> QED
    BY <2>1, Joined
<1>8. r \in Seq(S) /\ Len(r) = Len(s) - 1 /\ DOMAIN r = 1 .. Len(s) - 1
  <2>1. r \in Seq(S) /\ Len(r) = Len(s) - 1
    BY <1>1, <1>5, <1>6, <1>7
  <2> QED
    BY <2>1, LenProperties
<1>9. ASSUME NEW j \in 1 .. Len(s) - 1
      PROVE  r[j] = s[IF j < i THEN j ELSE j + 1]
  <2>1. CASE j < i
    <3>1. j \in 1 .. Len(a) /\ 1 + j - 1 = j
      BY <1>1, <1>6, <2>1
    <3> QED
      BY <1>3, <1>5, <1>7, <2>1, <3>1
  <2>2. CASE ~ (j < i)
    <3>1. j - (i - 1) \in 1 .. Len(b) /\ Len(a) + (j - (i - 1)) = j /\ i + 1 + (j - (i - 1)) - 1 = j + 1
      <4>1. i \in Nat /\ j \in Nat /\ Len(s) \in Nat /\ i <= j /\ j <= Len(s) - 1 /\ 1 <= i
        BY <1>1, <2>2
      <4>2. j - (i - 1) \in 1 .. Len(s) - i
        BY <4>1
      <4> QED
        BY <1>6, <4>1, <4>2
    <3>2. r[j] = b[j - (i - 1)] /\ b[j - (i - 1)] = s[j + 1]
      BY <1>4, <1>5, <1>7, <3>1
    <3> QED
      BY <2>2, <3>2
  <2> QED
    BY <2>1, <2>2
<1> QED
  BY <1>1, <1>8, <1>9 DEF r

\* So is what the other router reads, of any of its connections.
LEMMA ReadNeighborTypes ==
    ASSUME TypeInv, ReadNeighbor
    PROVE  TypeInv'
<1>1. PICK i \in DOMAIN hops : \E chunk \in Chunks(hops[i]) :
          /\ hops' = IF chunk = hops[i] THEN RemoveAt(hops, i) ELSE [hops EXCEPT ![i] = Rest(@, chunk)]
          /\ cuts' = cuts + Cut(chunk)
          /\ DeliverToHost(Dispatched(chunk))
          /\ UNCHANGED <<source, host, far, senderVars, up, listenerVars, hello, table>>
  BY DEF ReadNeighbor
<1>2. PICK chunk \in Chunks(hops[i]) :
          /\ hops' = IF chunk = hops[i] THEN RemoveAt(hops, i) ELSE [hops EXCEPT ![i] = Rest(@, chunk)]
          /\ cuts' = cuts + Cut(chunk)
          /\ DeliverToHost(Dispatched(chunk))
          /\ UNCHANGED <<source, host, far, senderVars, up, listenerVars, hello, table>>
  BY <1>1
<1>3. /\ hops \in Seq(Seq(Chars)) /\ Len(hops) \in Nat /\ DOMAIN hops = 1 .. Len(hops)
      /\ \A j \in DOMAIN hops : Whole(hops[j]) /\ hops[j] # << >> /\ Len(hops[j]) < BufSize /\ hops[j] \in Seq(Chars)
  BY LenProperties, ElementOfSeq DEF TypeInv, TypeOK, Streams
<1> DEFINE rest == Rest(hops[i], chunk)
<1>4. /\ Dispatched(chunk) \in Seq(Seq(Chars)) /\ cuts' \in 0 .. MaxCuts
      /\ rest \in Seq(Chars) /\ Whole(rest) /\ Len(rest) < Len(hops[i])
      /\ chunk # hops[i] => rest # << >>
  BY <1>2, <1>3, ChunkTypes
<1>5. Len(rest) < BufSize
  <2>1. Len(rest) \in Nat /\ Len(hops[i]) \in Nat /\ BufSize \in Nat /\ Len(hops[i]) < BufSize
    BY <1>3, <1>4, LenProperties, FrameCodecAssumption
  <2> HIDE DEF rest
  <2> QED
    BY <1>4, <2>1 DEF rest
<1>6. missed' \in BOOLEAN /\ down' \in Seq(Chars) /\ Whole(down')
  BY <1>2, <1>4, Delivered DEF TypeInv, TypeOK, Streams
<1>7. /\ hops' \in Seq(Seq(Chars))
      /\ \A j \in DOMAIN hops' : Whole(hops'[j]) /\ hops'[j] # << >> /\ Len(hops'[j]) < BufSize
  <2>1. CASE chunk = hops[i]
    <3>1. hops' = RemoveAt(hops, i)
      BY <1>2, <2>1
    <3>2. /\ hops' \in Seq(Seq(Chars)) /\ DOMAIN hops' = 1 .. Len(hops) - 1
          /\ \A j \in 1 .. Len(hops) - 1 : hops'[j] = hops[IF j < i THEN j ELSE j + 1]
      <4> DEFINE r == RemoveAt(hops, i)
      <4>1. /\ r \in Seq(Seq(Chars)) /\ DOMAIN r = 1 .. Len(hops) - 1
            /\ \A j \in 1 .. Len(hops) - 1 : r[j] = hops[IF j < i THEN j ELSE j + 1]
        <5>1. hops \in Seq(Seq(Chars))
          BY <1>3
        <5> QED
          BY <5>1, RemoveAtProperties
      <4>2. hops' = r
        BY <3>1
      <4> HIDE DEF r
      <4> QED
        BY <4>1, <4>2
    <3>3. \A j \in 1 .. Len(hops) - 1 : (IF j < i THEN j ELSE j + 1) \in DOMAIN hops
      BY <1>3
    <3> QED
      BY <1>3, <3>2, <3>3
  <2>2. CASE chunk # hops[i]
    <3>1. hops' = [hops EXCEPT ![i] = rest]
      BY <1>2, <2>2
    <3> HIDE DEF rest
    <3>2. hops' \in Seq(Seq(Chars)) /\ DOMAIN hops' = DOMAIN hops
      BY <1>3, <1>4, <3>1, ExceptSeq
    <3>3. \A j \in DOMAIN hops : hops'[j] = IF j = i THEN rest ELSE hops[j]
      BY <3>1
    <3> QED
      BY <1>3, <1>4, <1>5, <2>2, <3>2, <3>3
  <2> QED
    BY <2>1, <2>2
<1> QED
  BY <1>2, <1>4, <1>6, <1>7 DEF TypeInv, TypeOK, Streams, senderVars, listenerVars

\* The reply to an ANNOUNCE: an ADVERTISE frame for every host line.
Reply == [i \in DOMAIN Hosts |-> FrameText([type |-> "ADVERTISE", ip |-> Hosts[i]])]
Replies(announces) == [i \in DOMAIN announces |-> FlattenSeq(Reply)]

\* The answers to the listener's announcements are whole lines.
LEMMA ReplyTypes ==
    ASSUME NEW announces \in Seq(Seq(Chars))
    PROVE  /\ Reply \in Seq(Seq(Chars)) /\ \A i \in DOMAIN Reply : Whole(Reply[i])
           /\ FlattenSeq(Reply) \in Seq(Chars) /\ Whole(FlattenSeq(Reply))
           /\ Replies(announces) \in Seq(Seq(Chars))
           /\ FlattenSeq(Replies(announces)) \in Seq(Chars) /\ Whole(FlattenSeq(Replies(announces)))
<1>1. Len(Hosts) \in Nat /\ DOMAIN Hosts = 1 .. Len(Hosts)
  BY FileRelayAssumption, LenProperties
<1>2. \A i \in DOMAIN Hosts : /\ FrameText([type |-> "ADVERTISE", ip |-> Hosts[i]]) \in Seq(Chars)
                              /\ Whole(FrameText([type |-> "ADVERTISE", ip |-> Hosts[i]]))
  <2> TAKE i \in DOMAIN Hosts
  <2> DEFINE ip == Hosts[i]
             f  == FrameText([type |-> "ADVERTISE", ip |-> ip])
  <2>1. ip \in Seq(Chars) /\ "ADVERTISE" \in Chars /\ "ADVERTISE" \in Types \ {"DATA"} /\ "|" \in Chars /\ "LF" \in Chars
    BY Characters DEF Types
  <2> HIDE DEF ip
  <2>2. f \in Seq(Chars) /\ f[Len(f)] = "LF"
    BY <2>1, OtherFrame
  <2> QED
    BY <2>2 DEF Whole, ip
<1>3. Reply \in Seq(Seq(Chars)) /\ \A i \in DOMAIN Reply : Whole(Reply[i])
  <2>1. [i \in 1 .. Len(Hosts) |-> FrameText([type |-> "ADVERTISE", ip |-> Hosts[i]])] \in Seq(Seq(Chars))
    BY <1>1, <1>2
  <2> QED
    BY <1>1, <1>2, <2>1 DEF Reply
<1>4. FlattenSeq(Reply) \in Seq(Chars) /\ Whole(FlattenSeq(Reply))
  BY <1>3, FlattenWhole
<1>5. Len(announces) \in Nat /\ DOMAIN announces = 1 .. Len(announces)
  BY LenProperties
<1>6. Replies(announces) \in Seq(Seq(Chars)) /\ \A i \in DOMAIN Replies(announces) : Whole(Replies(announces)[i])
  <2>1. [i \in 1 .. Len(announces) |-> FlattenSeq(Reply)] \in Seq(Seq(Chars))
    BY <1>4, <1>5
  <2> QED
    BY <1>4, <1>5, <2>1 DEF Replies
<1>7. FlattenSeq(Replies(announces)) \in Seq(Chars) /\ Whole(FlattenSeq(Replies(announces)))
  BY <1>6, FlattenWhole
<1> QED
  BY <1>3, <1>4, <1>6, <1>7

\* The step of the router that reads the listener, for one chunk.
LEMMA ReadListenerStep ==
    ASSUME TypeInv, ReadListener
    PROVE  \E chunk \in Chunks(hello) :
               LET announces == OfType(Dispatched(chunk), "ANNOUNCE")
               IN  /\ hello' = Rest(hello, chunk)
                   /\ cuts' = cuts + Cut(chunk)
                   /\ table' = table \cup ({Decode(announces[i]).ip : i \in DOMAIN announces} \cap ToSet(Hosts))
                   /\ down' = down \o FlattenSeq(Replies(announces))
                   /\ UNCHANGED <<source, host, far, senderVars, up, hops, listenerVars, missed>>
BY DEF ReadListener, Replies, Reply

\* Neither the listener nor the router that reads it breaks the types.
LEMMA ListenerTypes ==
    ASSUME TypeInv, ReadListener \/ Listen \/ Hear
    PROVE  TypeInv'
<1>1. CASE ReadListener
  <2>1. PICK chunk \in Chunks(hello) :
            LET announces == OfType(Dispatched(chunk), "ANNOUNCE")
            IN  /\ hello' = Rest(hello, chunk)
                /\ cuts' = cuts + Cut(chunk)
                /\ table' = table \cup ({Decode(announces[i]).ip : i \in DOMAIN announces} \cap ToSet(Hosts))
                /\ down' = down \o FlattenSeq(Replies(announces))
                /\ UNCHANGED <<source, host, far, senderVars, up, hops, listenerVars, missed>>
    BY <1>1, ReadListenerStep
  <2> DEFINE announces == OfType(Dispatched(chunk), "ANNOUNCE")
  <2>2. hello \in Seq(Chars) /\ down \in Seq(Chars) /\ Whole(down)
    BY DEF TypeInv, Streams
  <2>3. hello' \in Seq(Chars) /\ cuts' \in 0 .. MaxCuts /\ Dispatched(chunk) \in Seq(Seq(Chars))
    BY <2>1, <2>2, ChunkTypes
  <2>4. announces \in Seq(Seq(Chars))
    BY <2>3, OfTypeTexts
  <2>5. table' \subseteq ToSet(Hosts)
    BY <2>1 DEF TypeInv, TypeOK
  <2> HIDE DEF announces
  <2>6. down' = down \o FlattenSeq(Replies(announces))
    BY <2>1 DEF announces
  <2>7. down' \in Seq(Chars) /\ Whole(down')
    BY <2>2, <2>4, <2>6, ReplyTypes, Joined, JoinedWhole
  <2>8. UNCHANGED <<source, host, far, senderVars, up, hops, listenerVars, missed>>
    BY <2>1
  <2> QED
    BY <2>3, <2>5, <2>7, <2>8 DEF TypeInv, TypeOK, Streams, senderVars, listenerVars
<1>2. CASE Listen
  <2>1. host \in Addresses
    BY Characters DEF TypeInv, TypeOK
  <2>2. host \in Seq(Chars) /\ "ANNOUNCE" \in Chars /\ "ANNOUNCE" \in Types \ {"DATA"} /\ "|" \in Chars /\ "LF" \in Chars
    BY <2>1, Characters DEF Types
  <2>3. FrameText([type |-> "ANNOUNCE", ip |-> host]) \in Seq(Chars)
    BY <2>2, OtherFrame
  <2> QED
    BY <1>2, <2>3 DEF Listen, TypeInv, TypeOK, Streams, senderVars
<1>3. CASE Hear
  <2>1. PICK chunk \in Chunks(down) :
            /\ down' = Rest(down, chunk)
            /\ cuts' = cuts + Cut(chunk)
            /\ \E saved \in PartsOf(Messages(chunk)) :
                  /\ output' = output \o saved
                  /\ missed' = (missed \/ Len(saved) < Len(Messages(chunk)))
            /\ UNCHANGED <<source, host, far, senderVars, up, hops, listening, hello, table>>
    BY <1>3 DEF Hear
  <2>2. PICK saved \in PartsOf(Messages(chunk)) :
            output' = output \o saved /\ missed' = (missed \/ Len(saved) < Len(Messages(chunk)))
    BY <2>1
  <2>3. down \in Seq(Chars) /\ Whole(down) /\ output \in Seq(Seq(Chars))
        /\ \A i \in DOMAIN output : Len(output[i]) < BufSize
    BY DEF TypeInv, TypeOK, Streams
  <2>4. /\ down' \in Seq(Chars) /\ Whole(down') /\ cuts' \in 0 .. MaxCuts
        /\ chunk \in Seq(Chars) /\ Len(chunk) < BufSize
    BY <2>1, <2>3, ChunkTypes
  <2> DEFINE M == Messages(chunk)
  <2>5. M \in Seq(Seq(Chars)) /\ \A i \in DOMAIN M : Len(M[i]) < BufSize
    BY <2>4, MessageTypes
  <2>6. PICK D \in SUBSET DOMAIN M : saved = At(M, D)
    BY DEF PartsOf
  <2> HIDE DEF M
  <2>7. saved \in Seq(Seq(Chars)) /\ \A i \in DOMAIN saved : Len(saved[i]) < BufSize
    <3>1. /\ saved \in Seq(Seq(Chars))
          /\ \A i \in DOMAIN saved : Ascending(D)[i] \in D /\ saved[i] = M[Ascending(D)[i]]
      BY <2>5, <2>6, AtProperties
    <3> QED
      BY <2>5, <3>1
  <2>8. /\ output' \in Seq(Seq(Chars)) /\ Len(output) \in Nat /\ Len(saved) \in Nat
        /\ Len(output') = Len(output) + Len(saved)
        /\ \A i \in 1 .. Len(output) : output'[i] = output[i]
        /\ \A i \in 1 .. Len(saved) : output'[Len(output) + i] = saved[i]
    BY <2>2, <2>3, <2>7, Joined
  <2>9. DOMAIN output = 1 .. Len(output) /\ DOMAIN saved = 1 .. Len(saved) /\ DOMAIN output' = 1 .. Len(output) + Len(saved)
    BY <2>3, <2>7, <2>8, LenProperties
  <2>10. ASSUME NEW i \in DOMAIN output'
         PROVE  Len(output'[i]) < BufSize
    <3>1. CASE i <= Len(output)
      <4>1. i \in DOMAIN output /\ output'[i] = output[i]
        BY <2>8, <2>9, <3>1
      <4> QED
        BY <2>3, <4>1
    <3>2. CASE ~ (i <= Len(output))
      <4>1. i - Len(output) \in 1 .. Len(saved) /\ Len(output) + (i - Len(output)) = i
        BY <2>8, <2>9, <3>2
      <4>2. output'[i] = saved[i - Len(output)] /\ i - Len(output) \in DOMAIN saved
        BY <2>8, <2>9, <4>1
      <4> QED
        BY <2>7, <4>2
    <3> QED
      BY <3>1, <3>2
  <2>11. missed' \in BOOLEAN
    BY <2>2 DEF TypeInv, TypeOK
  <2> QED
    BY <2>1, <2>4, <2>8, <2>10, <2>11 DEF TypeInv, TypeOK, Streams, senderVars
<1> QED
  BY <1>1, <1>2, <1>3

\* No step does.
LEMMA NextTypes == TypeInv /\ [Next]_vars => TypeInv'
<1> SUFFICES ASSUME TypeInv, [Next]_vars
             PROVE  TypeInv'
  OBVIOUS
<1>1. CASE Next
  BY <1>1, SenderTypes, ReadSenderTypes, ReadNeighborTypes, ListenerTypes DEF Next
<1>2. CASE UNCHANGED vars
  BY <1>2 DEF vars, senderVars, listenerVars, TypeInv, TypeOK, Streams
<1> QED
  BY <1>1, <1>2

\* The variables keep their types; in particular nothing that was sent, is on
\* its way to another router or was written to the file exceeds a buffer, and no
\* frame that a router passes on is empty.
THEOREM TypeCorrect == Spec => []TypeOK
<1>1. Spec => []TypeInv
  BY InitTypes, NextTypes, PTL DEF Spec
<1>2. TypeInv => TypeOK
  BY DEF TypeInv
<1> QED
  BY <1>1, <1>2, PTL

-----------------------------------------------------------------------------
(* Where the frames of a stream come from.                                  *)

LEMMA ApartParts ==
    ASSUME NEW K, NEW L, NEW free, Apart(K, L, free), NEW K1 \in SUBSET K, NEW L1 \in SUBSET L
    PROVE  Apart(K1, L1, free)
BY DEF Apart

\* A stream in which no frame begins carries none.
LEMMA CarriesNothing ==
    ASSUME NEW stream, NEW K, NEW frames, NEW free, Heads(stream) = {}
    PROVE  Carries(stream, K, frames, free)
<1> DEFINE o == [p \in {} |-> 0]
<1>1. o \in [Heads(stream) -> K]
  OBVIOUS
<1>2. CarriedBy(o, stream, frames, free)
  BY DEF CarriedBy
<1> QED
  BY <1>1, <1>2 DEF Carries

\* Frames may be added, and origins.
LEMMA CarriesMore ==
    ASSUME NEW stream, NEW K, NEW L, K \subseteq L, NEW frames, NEW more, NEW free,
           \A k \in K : more[k] = frames[k], Carries(stream, K, frames, free)
    PROVE  Carries(stream, L, more, free)
<1>1. PICK o \in [Heads(stream) -> K] : CarriedBy(o, stream, frames, free)
  BY DEF Carries
<1>2. o \in [Heads(stream) -> L] /\ \A p \in Heads(stream) : more[o[p]] = frames[o[p]]
  OBVIOUS
<1>3. CarriedBy(o, stream, more, free)
  BY <1>1, <1>2 DEF CarriedBy
<1> QED
  BY <1>2, <1>3 DEF Carries

\* The frames of two streams put together.
LEMMA CarriesJoined ==
    ASSUME NEW S, NEW a \in Seq(S), NEW b \in Seq(S), Whole(a),
           NEW K, NEW L, NEW frames, NEW free,
           Carries(a, K, frames, free), Carries(b, L, frames, free), Apart(K, L, free)
    PROVE  Carries(a \o b, K \cup L, frames, free)
<1> DEFINE c == a \o b
           n == Len(a)
<1>1. PICK oa \in [Heads(a) -> K] : CarriedBy(oa, a, frames, free)
  BY DEF Carries
<1>2. PICK ob \in [Heads(b) -> L] : CarriedBy(ob, b, frames, free)
  BY DEF Carries
<1>3. /\ n \in Nat /\ Len(b) \in Nat /\ Len(c) = n + Len(b)
      /\ \A i \in 1 .. n : c[i] = a[i]
      /\ \A i \in 1 .. Len(b) : c[n + i] = b[i]
  BY Joined
<1>4. n > 0 => c[n] = "LF"
  <2> SUFFICES ASSUME n > 0
               PROVE  c[n] = "LF"
    OBVIOUS
  <2>1. a # << >> /\ n \in 1 .. n
    BY <1>3, EmptySeq
  <2> QED
    BY <1>3, <2>1 DEF Whole
<1> HIDE DEF c
<1> DEFINE o == [p \in Heads(c) |-> IF p <= n THEN oa[p] ELSE ob[p - n]]
<1>5. ASSUME NEW p \in Heads(c)
      PROVE  /\ p <= n => p \in Heads(a) /\ p \in 1 .. n /\ o[p] = oa[p] /\ oa[p] \in K
             /\ ~ (p <= n) => /\ p - n \in Heads(b) /\ p - n \in 1 .. Len(b) /\ n + (p - n) = p
                              /\ o[p] = ob[p - n] /\ ob[p - n] \in L
  <2>1. p \in 1 .. n + Len(b) /\ c[p] = "DATA"
    BY <1>3 DEF Heads
  <2>2. CASE p <= n
    <3>1. p \in 1 .. n /\ a[p] = "DATA"
      BY <1>3, <2>1, <2>2
    <3>2. p \in Heads(a)
      BY <3>1 DEF Heads
    <3> QED
      BY <2>2, <3>1, <3>2
  <2>3. CASE ~ (p <= n)
    <3>1. p - n \in 1 .. Len(b) /\ n + (p - n) = p
      BY <1>3, <2>1, <2>3
    <3>2. b[p - n] = "DATA"
      BY <1>3, <2>1, <3>1
    <3>3. p - n \in Heads(b)
      BY <3>1, <3>2 DEF Heads
    <3> QED
      BY <2>3, <3>1, <3>3
  <2> QED
    BY <2>2, <2>3
<1>6. o \in [Heads(c) -> K \cup L]
  BY <1>5
<1> HIDE DEF o
<1>7. ASSUME NEW p \in Heads(c)
      PROVE  p = 1 \/ c[p - 1] = "LF"
  <2>1. p \in 1 .. n + Len(b)
    BY <1>3 DEF Heads
  <2>2. CASE p <= n
    <3>1. p = 1 \/ a[p - 1] = "LF"
      BY <1>1, <1>5, <2>2 DEF CarriedBy
    <3>2. p # 1 => p - 1 \in 1 .. n
      BY <1>3, <2>1, <2>2
    <3> QED
      BY <1>3, <3>1, <3>2
  <2>3. CASE ~ (p <= n)
    <3>1. p - n = 1 \/ b[p - n - 1] = "LF"
      BY <1>2, <1>5, <2>3 DEF CarriedBy
    <3>2. CASE p - n = 1
      <4>1. p - 1 = n
        BY <1>3, <2>1, <3>2
      <4> QED
        BY <1>3, <1>4, <2>1, <4>1
    <3>3. CASE p - n # 1
      <4>1. p - n - 1 \in 1 .. Len(b) /\ n + (p - n - 1) = p - 1
        BY <1>3, <2>1, <2>3, <3>3
      <4> QED
        BY <1>3, <3>1, <3>3, <4>1
    <3> QED
      BY <3>2, <3>3
  <2> QED
    BY <2>2, <2>3
<1>8. ASSUME NEW p \in Heads(c), NEW q \in p .. Len(c), \A r \in p .. q : c[r] # "LF"
      PROVE  q - p + 1 <= Len(frames[o[p]]) /\ c[q] = frames[o[p]][q - p + 1]
  <2>1. p \in 1 .. n + Len(b)
    BY <1>3 DEF Heads
  <2>2. CASE p <= n
    <3>1. q <= n
      <4>1. SUFFICES ASSUME ~ (q <= n)
                     PROVE  FALSE
        OBVIOUS
      <4>2. n \in p .. q /\ n > 0
        BY <1>3, <2>1, <2>2, <4>1
      <4> QED
        BY <1>4, <1>8, <4>2
    <3>2. q \in p .. n /\ \A r \in p .. q : r \in 1 .. n
      BY <1>3, <2>1, <2>2, <3>1
    <3>3. \A r \in p .. q : a[r] # "LF"
      BY <1>3, <1>8, <3>2
    <3>4. Follows(a, p, frames[oa[p]])
      BY <1>1, <1>5, <2>2 DEF CarriedBy
    <3>5. q - p + 1 <= Len(frames[oa[p]]) /\ a[q] = frames[oa[p]][q - p + 1]
      BY <3>2, <3>3, <3>4 DEF Follows
    <3>6. q \in 1 .. n
      BY <2>1, <3>2
    <3> QED
      BY <1>3, <1>5, <2>2, <3>5, <3>6
  <2>3. CASE ~ (p <= n)
    <3> DEFINE u == p - n
               v == q - n
    <3>1. u \in 1 .. Len(b) /\ v \in u .. Len(b) /\ n + v = q /\ v - u + 1 = q - p + 1 /\ v \in 1 .. Len(b)
      BY <1>3, <2>1, <2>3
    <3>2. \A r \in u .. v : n + r \in p .. q /\ r \in 1 .. Len(b)
      BY <1>3, <2>1, <2>3
    <3>3. u \in Heads(b) /\ o[p] = ob[u]
      BY <1>5, <2>3
    <3> HIDE DEF u, v
    <3>4. \A r \in u .. v : b[r] # "LF"
      BY <1>3, <1>8, <3>2
    <3>5. Follows(b, u, frames[ob[u]])
      BY <1>2, <3>3 DEF CarriedBy
    <3>6. v - u + 1 <= Len(frames[ob[u]]) /\ b[v] = frames[ob[u]][v - u + 1]
      BY <3>1, <3>4, <3>5 DEF Follows
    <3>7. c[q] = b[v]
      BY <1>3, <3>1
    <3> QED
      BY <3>1, <3>3, <3>6, <3>7
  <2> QED
    BY <2>2, <2>3
<1>9. ASSUME NEW p \in Heads(c), NEW q \in Heads(c), p < q
      PROVE  Precedes(o[p], o[q], free)
  <2>1. p \in Nat /\ q \in Nat
    BY <1>3 DEF Heads
  <2>2. CASE q <= n
    <3>1. p <= n
      BY <1>3, <1>9, <2>1, <2>2
    <3> QED
      BY <1>1, <1>5, <1>9, <2>2, <3>1 DEF CarriedBy
  <2>3. CASE p <= n /\ ~ (q <= n)
    BY <1>5, <2>3 DEF Apart
  <2>4. CASE ~ (p <= n)
    <3>1. ~ (q <= n) /\ p - n < q - n
      BY <1>3, <1>9, <2>1, <2>4
    <3> QED
      BY <1>2, <1>5, <2>4, <3>1 DEF CarriedBy
  <2> QED
    BY <2>2, <2>3, <2>4
<1>10. CarriedBy(o, c, frames, free)
  BY <1>7, <1>8, <1>9 DEF CarriedBy, Follows
<1> QED
  BY <1>6, <1>10 DEF Carries, c

\* The frames of a stream divide where the stream does: those that begin in the
\* chunk, and those that begin in the rest.
LEMMA CarriesSplit ==
    ASSUME NEW S, NEW stream \in Seq(S), NEW k \in 0 .. Len(stream),
           NEW K, NEW frames, NEW free, Carries(stream, K, frames, free)
    PROVE  \E K1 \in SUBSET K, K2 \in SUBSET K :
               /\ Carries(SubSeq(stream, 1, k), K1, frames, free)
               /\ Carries(Rest(stream, SubSeq(stream, 1, k)), K2, frames, free)
               /\ Apart(K1, K2, free)
<1> DEFINE chunk == SubSeq(stream, 1, k)
           rest  == Rest(stream, chunk)
           n     == Len(stream)
<1>1. PICK o \in [Heads(stream) -> K] : CarriedBy(o, stream, frames, free)
  BY DEF Carries
<1>2. /\ Len(chunk) = k /\ n \in Nat /\ \A i \in 1 .. k : chunk[i] = stream[i]
      /\ Len(rest) = n - k /\ \A i \in 1 .. n - k : rest[i] = stream[k + i]
  BY Split
<1>3. k \in Nat /\ k <= n
  BY <1>2
<1> HIDE DEF chunk, rest, n
<1> DEFINE K1 == {o[p] : p \in {p \in Heads(stream) : p <= k}}
           K2 == {o[p] : p \in {p \in Heads(stream) : ~ (p <= k)}}
           o1 == [p \in Heads(chunk) |-> o[p]]
           o2 == [p \in Heads(rest) |-> o[k + p]]
<1>4. K1 \in SUBSET K /\ K2 \in SUBSET K
  OBVIOUS
<1>5. Heads(stream) \subseteq 1 .. n
  BY DEF Heads, n
<1>6. Apart(K1, K2, free)
  <2>1. ASSUME NEW p \in Heads(stream), NEW q \in Heads(stream), p <= k, ~ (q <= k)
        PROVE  Precedes(o[p], o[q], free)
    <3>1. p < q
      BY <1>2, <1>3, <1>5, <2>1
    <3> QED
      BY <1>1, <3>1 DEF CarriedBy
  <2> QED
    BY <2>1 DEF Apart
<1>7. ASSUME NEW p \in Heads(chunk)
      PROVE  p \in Heads(stream) /\ p \in 1 .. k /\ o1[p] = o[p] /\ o[p] \in K1
  <2>1. p \in 1 .. k /\ chunk[p] = "DATA"
    BY <1>2 DEF Heads
  <2>2. p \in 1 .. n /\ stream[p] = "DATA" /\ p <= k
    BY <1>2, <1>3, <2>1
  <2>3. p \in Heads(stream)
    BY <2>2 DEF Heads, n
  <2> QED
    BY <2>1, <2>2, <2>3
<1>8. ASSUME NEW p \in Heads(rest)
      PROVE  k + p \in Heads(stream) /\ p \in 1 .. n - k /\ o2[p] = o[k + p] /\ o[k + p] \in K2
  <2>1. p \in 1 .. n - k /\ rest[p] = "DATA"
    BY <1>2 DEF Heads
  <2>2. k + p \in 1 .. n /\ ~ (k + p <= k)
    BY <1>2, <1>3, <2>1
  <2>3. stream[k + p] = "DATA"
    BY <1>2, <2>1
  <2>4. k + p \in Heads(stream)
    BY <2>2, <2>3 DEF Heads, n
  <2> QED
    BY <2>1, <2>2, <2>4
<1>9. o1 \in [Heads(chunk) -> K1] /\ o2 \in [Heads(rest) -> K2]
  BY <1>7, <1>8
<1> HIDE DEF o1, o2, K1, K2
<1>10. CarriedBy(o1, chunk, frames, free)
  <2>1. ASSUME NEW p \in Heads(chunk)
        PROVE  p = 1 \/ chunk[p - 1] = "LF"
    <3>1. p = 1 \/ stream[p - 1] = "LF"
      BY <1>1, <1>7 DEF CarriedBy
    <3>2. p # 1 => p - 1 \in 1 .. k
      BY <1>3, <1>7
    <3> QED
      BY <1>2, <3>1, <3>2
  <2>2. ASSUME NEW p \in Heads(chunk), NEW q \in p .. Len(chunk), \A r \in p .. q : chunk[r] # "LF"
        PROVE  q - p + 1 <= Len(frames[o1[p]]) /\ chunk[q] = frames[o1[p]][q - p + 1]
    <3>1. p \in 1 .. k
      BY <1>7
    <3>2. q \in p .. n /\ q \in 1 .. k /\ \A r \in p .. q : r \in 1 .. k
      BY <1>2, <1>3, <3>1
    <3>3. \A r \in p .. q : stream[r] # "LF"
      BY <1>2, <2>2, <3>2
    <3>4. Follows(stream, p, frames[o[p]])
      BY <1>1, <1>7 DEF CarriedBy
    <3>5. q - p + 1 <= Len(frames[o[p]]) /\ stream[q] = frames[o[p]][q - p + 1]
      BY <3>2, <3>3, <3>4 DEF Follows, n
    <3> QED
      BY <1>2, <1>7, <3>2, <3>5
  <2>3. \A p, q \in Heads(chunk) : p < q => Precedes(o1[p], o1[q], free)
    BY <1>1, <1>7 DEF CarriedBy
  <2> QED
    BY <2>1, <2>2, <2>3 DEF CarriedBy, Follows
<1>11. CarriedBy(o2, rest, frames, free)
  <2>1. ASSUME NEW p \in Heads(rest)
        PROVE  p = 1 \/ rest[p - 1] = "LF"
    <3>1. k + p = 1 \/ stream[k + p - 1] = "LF"
      BY <1>1, <1>8 DEF CarriedBy
    <3>2. p # 1 => p - 1 \in 1 .. n - k /\ k + (p - 1) = k + p - 1 /\ k + p # 1
      BY <1>2, <1>3, <1>8
    <3> QED
      BY <1>2, <3>1, <3>2
  <2>2. ASSUME NEW p \in Heads(rest), NEW q \in p .. Len(rest), \A r \in p .. q : rest[r] # "LF"
        PROVE  q - p + 1 <= Len(frames[o2[p]]) /\ rest[q] = frames[o2[p]][q - p + 1]
    <3>1. p \in 1 .. n - k
      BY <1>8
    <3>2. /\ q \in 1 .. n - k /\ k + q \in k + p .. n /\ (k + q) - (k + p) + 1 = q - p + 1
          /\ \A r \in k + p .. k + q : r - k \in p .. q /\ r - k \in 1 .. n - k /\ k + (r - k) = r
      BY <1>2, <1>3, <3>1
    <3>3. \A r \in k + p .. k + q : stream[r] # "LF"
      BY <1>2, <2>2, <3>2
    <3>4. Follows(stream, k + p, frames[o[k + p]])
      BY <1>1, <1>8 DEF CarriedBy
    <3>5. (k + q) - (k + p) + 1 <= Len(frames[o[k + p]]) /\ stream[k + q] = frames[o[k + p]][(k + q) - (k + p) + 1]
      BY <3>2, <3>3, <3>4 DEF Follows, n
    <3> QED
      BY <1>2, <1>8, <3>2, <3>5
  <2>3. ASSUME NEW p \in Heads(rest), NEW q \in Heads(rest), p < q
        PROVE  Precedes(o2[p], o2[q], free)
    <3>1. k + p < k + q
      BY <1>2, <1>3, <1>8, <2>3
    <3> QED
      BY <1>1, <1>8, <3>1 DEF CarriedBy
  <2> QED
    BY <2>1, <2>2, <2>3 DEF CarriedBy, Follows
<1>12. Carries(chunk, K1, frames, free) /\ Carries(rest, K2, frames, free)
  BY <1>9, <1>10, <1>11 DEF Carries
<1> QED
  BY <1>4, <1>6, <1>12 DEF chunk, rest

\* One frame, or the beginning of one and a line end.
LEMMA CarriesOne ==
    ASSUME NEW stream, \A p \in Heads(stream) : p = 1, Len(stream) \in Nat,
           NEW frames, NEW free, NEW k,
           \A q \in 1 .. Len(stream) :
               (\A r \in 1 .. q : stream[r] # "LF") => q <= Len(frames[k]) /\ stream[q] = frames[k][q]
    PROVE  Carries(stream, {k}, frames, free)
<1> DEFINE o == [p \in Heads(stream) |-> k]
<1>1. o \in [Heads(stream) -> {k}] /\ \A p \in Heads(stream) : o[p] = k
  OBVIOUS
<1> HIDE DEF o
<1>2. \A p \in Heads(stream) : Follows(stream, p, frames[o[p]])
  BY <1>1 DEF Follows
<1>3. \A p, q \in Heads(stream) : ~ (p < q)
  OBVIOUS
<1>4. CarriedBy(o, stream, frames, free)
  BY <1>2, <1>3 DEF CarriedBy
<1> QED
  BY <1>1, <1>4 DEF Carries

\* A text that is decoded as DATA, and has no line end LF in it, begins with the
\* type word wherever each type word starts a line.
LEMMA DataStarts ==
    ASSUME NEW S, NEW text \in Seq(S), Decode(text).type = "DATA",
           \A q \in 1 .. Len(text) : text[q] = "DATA" => q = 1
    PROVE  Len(text) \in Nat \ {0} /\ text[1] = "DATA"
<1> DEFINE line == LineOf(text)
<1>1. line # << >> /\ line[1] = "DATA"
  BY DecodedShape DEF Types
<1>2. PICK m \in 1 .. Len(text) + 1, n \in 0 .. Len(text) : line = SubSeq(text, m, n)
  BY LineOfShape
<1>3. Len(text) \in Nat
  BY LenProperties
<1>4. /\ line \in Seq(S) /\ Len(line) = IF m <= n THEN n - m + 1 ELSE 0
      /\ \A i \in 1 .. Len(line) : line[i] = text[m + i - 1]
  BY <1>2, <1>3, SubSeqShape
<1> HIDE DEF line
<1>5. Len(line) \in Nat \ {0}
  BY <1>1, <1>4, EmptySeq
<1>6. m <= n /\ m \in 1 .. Len(text) /\ text[m] = "DATA"
  BY <1>1, <1>3, <1>4, <1>5
<1>7. m = 1
  BY <1>6
<1> QED
  BY <1>3, <1>6, <1>7

\* The frames taken from a chunk are beginnings of those that begin in it, each
\* of a frame of its own.
LEMMA FramesOfChunk ==
    ASSUME NEW chunk \in Seq(Chars), NEW texts \in Seq(Seq(Chars)), InLines(texts, chunk),
           \A j \in DOMAIN texts : Decode(texts[j]).type = "DATA",
           NEW frames, NEW K \in SUBSET DOMAIN frames, NEW free, Carries(chunk, K, frames, free)
    PROVE  Sourced(texts, K, PartOfFrame(frames), free)
<1>1. PICK a \in [DOMAIN texts -> Nat \ {0}] : PlacedAt(a, texts, chunk)
  BY DEF InLines
<1>2. PICK o \in [Heads(chunk) -> K] : CarriedBy(o, chunk, frames, free)
  BY DEF Carries
<1>3. Len(chunk) \in Nat
  BY LenProperties
<1>4. ASSUME NEW j \in DOMAIN texts
      PROVE  a[j] \in Heads(chunk) /\ <<texts[j], o[a[j]]>> \in PartOfFrame(frames)
  <2> DEFINE t == texts[j]
             b == a[j]
  <2>1. t \in Seq(Chars) /\ Len(t) \in Nat
    BY ElementOfSeq, LenProperties
  <2>2. /\ b \in Nat \ {0} /\ b + Len(t) - 1 <= Len(chunk)
        /\ \A q \in 1 .. Len(t) : t[q] = chunk[b + q - 1] /\ t[q] # "LF"
        /\ Decode(t).type = "DATA"
    BY <1>1 DEF PlacedAt
  <2> HIDE DEF t, b
  <2>3. ASSUME NEW q \in 1 .. Len(t), t[q] = "DATA"
        PROVE  q = 1 /\ b \in Heads(chunk)
    <3> DEFINE p == b + q - 1
    <3>1. p \in 1 .. Len(chunk) /\ chunk[p] = "DATA" /\ (q = 1 => p = b)
      BY <1>3, <2>1, <2>2, <2>3
    <3>2. CASE q = 1
      BY <3>1, <3>2 DEF Heads
    <3>3. CASE q # 1
      <4>1. q - 1 \in 1 .. Len(t) /\ b + (q - 1) - 1 = p - 1 /\ p # 1
        BY <2>1, <2>2, <3>3
      <4> HIDE DEF p
      <4>2. p \in Heads(chunk)
        BY <3>1 DEF Heads
      <4>3. chunk[p - 1] = "LF"
        BY <1>2, <4>1, <4>2 DEF CarriedBy
      <4>4. t[q - 1] = chunk[b + (q - 1) - 1] /\ t[q - 1] # "LF"
        BY <2>2, <4>1
      <4> QED
        BY <4>1, <4>3, <4>4
    <3> QED
      BY <3>2, <3>3
  <2>4. Len(t) \in Nat \ {0} /\ t[1] = "DATA"
    BY <2>1, <2>2, <2>3, DataStarts
  <2>5. b \in Heads(chunk)
    BY <2>3, <2>4
  <2>6. Follows(chunk, b, frames[o[b]]) /\ o[b] \in DOMAIN frames
    BY <1>2, <2>5 DEF CarriedBy
  <2>7. ASSUME NEW q \in 1 .. Len(t)
        PROVE  q <= Len(frames[o[b]]) /\ t[q] = frames[o[b]][q]
    <3> DEFINE c == b + q - 1
    <3>1. c \in b .. Len(chunk) /\ c - b + 1 = q
      BY <1>3, <2>1, <2>2
    <3>2. \A r \in b .. c : r - b + 1 \in 1 .. Len(t) /\ b + (r - b + 1) - 1 = r
      BY <2>1, <2>2
    <3> HIDE DEF c
    <3>3. \A r \in b .. c : chunk[r] # "LF"
      BY <2>2, <3>2
    <3>4. c - b + 1 <= Len(frames[o[b]]) /\ chunk[c] = frames[o[b]][c - b + 1]
      BY <2>6, <3>1, <3>3 DEF Follows
    <3> QED
      BY <2>2, <3>1, <3>4 DEF c
  <2>8. Len(t) <= Len(frames[o[b]])
    BY <2>4, <2>7
  <2>9. Begins(t, frames[o[b]])
    BY <2>7, <2>8 DEF Begins
  <2>10. <<t, o[b]>> \in PartOfFrame(frames)
    BY <2>1, <2>2, <2>3, <2>6, <2>9 DEF PartOfFrame
  <2> QED
    BY <2>5, <2>10 DEF t, b
<1> DEFINE s == [j \in DOMAIN texts |-> o[a[j]]]
<1>5. s \in [DOMAIN texts -> K]
  BY <1>4
<1>6. \A i, j \in DOMAIN texts : i < j => Precedes(s[i], s[j], free)
  BY <1>1, <1>2, <1>4 DEF PlacedAt, CarriedBy
<1>7. SourcedBy(s, texts, PartOfFrame(frames), free)
  BY <1>4, <1>6 DEF SourcedBy
<1> QED
  BY <1>5, <1>7 DEF Sourced

\* Some of the texts, in their order, have some of the origins.
LEMMA SourcedAt ==
    ASSUME NEW S, NEW texts \in Seq(S), NEW D \in SUBSET DOMAIN texts,
           NEW K, NEW R, NEW free, Sourced(texts, K, R, free)
    PROVE  Sourced(At(texts, D), K, R, free)
<1>1. PICK o \in [DOMAIN texts -> K] : SourcedBy(o, texts, R, free)
  BY DEF Sourced
<1>2. /\ \A i \in DOMAIN At(texts, D) : Ascending(D)[i] \in D /\ At(texts, D)[i] = texts[Ascending(D)[i]]
      /\ \A i, j \in DOMAIN At(texts, D) : i < j => Ascending(D)[i] < Ascending(D)[j]
  BY AtProperties
<1> DEFINE u == At(texts, D)
           s == [i \in DOMAIN u |-> o[Ascending(D)[i]]]
<1> HIDE DEF u
<1>3. \A i \in DOMAIN u : Ascending(D)[i] \in DOMAIN texts /\ u[i] = texts[Ascending(D)[i]]
  BY <1>2 DEF u
<1>4. s \in [DOMAIN u -> K]
  BY <1>3
<1>5. SourcedBy(s, u, R, free)
  BY <1>1, <1>2, <1>3 DEF SourcedBy, u
<1> QED
  BY <1>4, <1>5 DEF Sourced, u

\* More origins; and texts related to more of them.
LEMMA SourcedMore ==
    ASSUME NEW texts, NEW K, NEW L, K \subseteq L, NEW R, NEW Q, NEW free,
           \A i \in DOMAIN texts, k \in K : <<texts[i], k>> \in R => <<texts[i], k>> \in Q,
           Sourced(texts, K, R, free)
    PROVE  Sourced(texts, L, Q, free)
BY DEF Sourced, SourcedBy

\* Texts put after others, when the origins are apart.
LEMMA SourcedJoined ==
    ASSUME NEW S, NEW a \in Seq(S), NEW b \in Seq(S), NEW K, NEW L, NEW R, NEW free,
           Sourced(a, K, R, free), Sourced(b, L, R, free), Apart(K, L, free)
    PROVE  Sourced(a \o b, K \cup L, R, free)
<1> DEFINE c == a \o b
           n == Len(a)
<1>1. PICK oa \in [DOMAIN a -> K] : SourcedBy(oa, a, R, free)
  BY DEF Sourced
<1>2. PICK ob \in [DOMAIN b -> L] : SourcedBy(ob, b, R, free)
  BY DEF Sourced
<1>3. /\ c \in Seq(S) /\ n \in Nat /\ Len(b) \in Nat /\ Len(c) = n + Len(b)
      /\ \A i \in 1 .. n : c[i] = a[i]
      /\ \A i \in 1 .. Len(b) : c[n + i] = b[i]
  BY Joined
<1>4. DOMAIN a = 1 .. n /\ DOMAIN b = 1 .. Len(b)
  BY LenProperties
<1> HIDE DEF c
<1>5. DOMAIN c = 1 .. n + Len(b)
  BY <1>3, LenProperties
<1> HIDE DEF n
<1> DEFINE o == [i \in DOMAIN c |-> IF i <= n THEN oa[i] ELSE ob[i - n]]
<1>6. ASSUME NEW i \in DOMAIN c
      PROVE  /\ i \in Nat
             /\ i <= n => i \in DOMAIN a /\ c[i] = a[i] /\ o[i] = oa[i] /\ oa[i] \in K
             /\ ~ (i <= n) => /\ i - n \in DOMAIN b /\ c[i] = b[i - n]
                              /\ o[i] = ob[i - n] /\ ob[i - n] \in L
  <2>1. i \in Nat /\ (i <= n => i \in 1 .. n) /\ (~ (i <= n) => i - n \in 1 .. Len(b) /\ n + (i - n) = i)
    BY <1>3, <1>5
  <2> QED
    BY <1>3, <1>4, <2>1
<1>7. o \in [DOMAIN c -> K \cup L]
  BY <1>6
<1> HIDE DEF o
<1>8. \A i \in DOMAIN c : <<c[i], o[i]>> \in R
  BY <1>1, <1>2, <1>6 DEF SourcedBy
<1>9. ASSUME NEW i \in DOMAIN c, NEW j \in DOMAIN c, i < j
      PROVE  Precedes(o[i], o[j], free)
  <2>1. CASE j <= n
    <3>1. i <= n
      BY <1>3, <1>6, <1>9, <2>1
    <3> QED
      BY <1>1, <1>6, <1>9, <2>1, <3>1 DEF SourcedBy
  <2>2. CASE i <= n /\ ~ (j <= n)
    BY <1>6, <2>2 DEF Apart
  <2>3. CASE ~ (i <= n)
    <3>1. ~ (j <= n) /\ i - n < j - n
      BY <1>3, <1>6, <1>9, <2>3
    <3> QED
      BY <1>2, <1>6, <2>3, <3>1 DEF SourcedBy
  <2> QED
    BY <2>1, <2>2, <2>3
<1>10. SourcedBy(o, c, R, free)
  BY <1>8, <1>9 DEF SourcedBy
<1> QED
  BY <1>7, <1>10 DEF Sourced, c

\* What is passed on of one frame carries it.
LEMMA CarriesForwardedText ==
    ASSUME NEW frames, NEW free, NEW t, NEW k, <<t, k>> \in PartOfFrame(frames)
    PROVE  Forwarded(t) \in Seq(Chars) /\ Carries(Forwarded(t), {k}, frames, free)
<1>1. t \in Seq(Chars) /\ Forwarded(t) \in Seq(Chars)
  BY Characters, ForwardedText DEF PartOfFrame
<1>2. /\ Len(t) <= Len(frames[k]) /\ Len(t) \in Nat
      /\ \A q \in 1 .. Len(t) : t[q] = frames[k][q] /\ t[q] # "LF" /\ (q # 1 => t[q] # "DATA")
  BY <1>1, LenProperties DEF PartOfFrame, Begins
<1>3. CASE Len(t) + 1 < BufSize
  <2>1. Forwarded(t) = Append(t, "LF")
    BY <1>3 DEF Forwarded
  <2>2. /\ Len(Append(t, "LF")) = Len(t) + 1
        /\ \A q \in 1 .. Len(t) : Append(t, "LF")[q] = t[q]
        /\ Append(t, "LF")[Len(t) + 1] = "LF"
    BY <1>1, Characters, AppendProperties
  <2>3. \A p \in Heads(Append(t, "LF")) : p = 1
    <3>1. ASSUME NEW p \in Heads(Append(t, "LF"))
          PROVE  p = 1
      <4>1. p \in 1 .. Len(t) + 1 /\ Append(t, "LF")[p] = "DATA"
        BY <2>2 DEF Heads
      <4>2. p # Len(t) + 1
        BY <2>2, <4>1
      <4>3. p \in 1 .. Len(t)
        <5>1. Len(t) \in Nat
          BY <1>2
        <5> QED
          BY <4>1, <4>2, <5>1
      <4> QED
        BY <1>2, <2>2, <4>1, <4>3
    <3> QED
      BY <3>1
  <2>4. ASSUME NEW q \in 1 .. Len(Append(t, "LF")), \A r \in 1 .. q : Append(t, "LF")[r] # "LF"
        PROVE  q <= Len(frames[k]) /\ Append(t, "LF")[q] = frames[k][q]
    <3>1. q \in 1 .. q /\ q \in 1 .. Len(t) + 1
      BY <2>2
    <3>2. q # Len(t) + 1
      BY <2>2, <2>4, <3>1
    <3>3. q \in 1 .. Len(t)
      BY <1>2, <3>1, <3>2
    <3>4. Append(t, "LF")[q] = frames[k][q]
      BY <1>2, <2>2, <3>3
    <3>5. q <= Len(frames[k])
      <4>1. Len(t) \in Nat /\ q <= Len(t) /\ Len(t) <= Len(frames[k])
        BY <1>2, <3>3
      <4> QED
        BY <4>1
    <3> QED
      BY <3>4, <3>5
  <2>5. Len(Append(t, "LF")) \in Nat
    BY <1>2, <2>2
  <2>6. Carries(Append(t, "LF"), {k}, frames, free)
    BY <2>3, <2>4, <2>5, CarriesOne
  <2> QED
    BY <1>1, <2>1, <2>6
<1>4. CASE ~ (Len(t) + 1 < BufSize)
  <2>1. Forwarded(t) = << >>
    BY <1>4 DEF Forwarded
  <2>2. Heads(<< >>) = {}
    BY DEF Heads
  <2> QED
    BY <1>1, <2>1, <2>2, CarriesNothing
<1> QED
  BY <1>1, <1>3, <1>4

\* What is passed on of frames carries those frames.
LEMMA CarriesForwarded ==
    ASSUME NEW texts \in Seq(Seq(Chars)), NEW frames, NEW K \in SUBSET DOMAIN frames, NEW free,
           Sourced(texts, K, PartOfFrame(frames), free)
    PROVE  Carries(FlattenSeq(AllForwarded(texts)), K, frames, free)
<1> DEFINE seqs == AllForwarded(texts)
           N    == Len(seqs)
<1>1. PICK o \in [DOMAIN texts -> K] : SourcedBy(o, texts, PartOfFrame(frames), free)
  BY DEF Sourced
<1>2. /\ seqs \in Seq(Seq(Chars)) /\ DOMAIN seqs = DOMAIN texts
      /\ \A i \in DOMAIN texts : /\ texts[i] \in Seq(Chars)
                                 /\ seqs[i] = Forwarded(texts[i]) /\ Whole(seqs[i])
  BY Characters, AllForwardedTexts
<1> HIDE DEF seqs
<1>3. N \in Nat /\ DOMAIN texts = 1 .. N
  BY <1>2, LenProperties
<1>4. ASSUME NEW i \in DOMAIN texts
      PROVE  seqs[i] \in Seq(Chars) /\ Carries(seqs[i], {o[i]}, frames, free)
  <2>1. <<texts[i], o[i]>> \in PartOfFrame(frames)
    BY <1>1 DEF SourcedBy
  <2> QED
    BY <1>2, <2>1, CarriesForwardedText
<1> DEFINE Ks(n) == {o[j] : j \in 1 .. n}
           P == {e \in (0 .. N) \X Seq(Chars) : Whole(e[2]) /\ Carries(e[2], Ks(e[1]), frames, free)}
<1>5. <<0, << >>>> \in P
  <2>1. Heads(<< >>) = {} /\ Whole(<< >>)
    BY DEF Heads, Whole
  <2>2. Carries(<< >>, Ks(0), frames, free)
    BY <2>1, CarriesNothing
  <2>3. 0 \in 0 .. N /\ << >> \in Seq(Chars)
    BY <1>3, EmptySeq
  <2> HIDE DEF Ks
  <2> QED
    BY <2>1, <2>2, <2>3
<1>6. ASSUME NEW i \in 1 .. Len(seqs), NEW s \in Seq(Chars), <<i - 1, s>> \in P
      PROVE  <<i, s \o seqs[i]>> \in P
  <2>1. Whole(s) /\ Carries(s, Ks(i - 1), frames, free)
    <3> HIDE DEF Ks
    <3> QED
      BY <1>6
  <2>2. i \in DOMAIN texts /\ i \in 1 .. N /\ i - 1 \in Nat
    BY <1>3
  <2>3. seqs[i] \in Seq(Chars) /\ Whole(seqs[i]) /\ Carries(seqs[i], {o[i]}, frames, free)
    BY <1>2, <1>4, <2>2
  <2>4. Apart(Ks(i - 1), {o[i]}, free)
    <3>1. ASSUME NEW j \in 1 .. i - 1
          PROVE  Precedes(o[j], o[i], free)
      <4>1. j \in 1 .. N /\ j < i
        BY <1>3, <2>2
      <4> QED
        BY <1>1, <1>3, <2>2, <4>1 DEF SourcedBy
    <3> QED
      BY <3>1 DEF Apart
  <2>5. Carries(s \o seqs[i], Ks(i - 1) \cup {o[i]}, frames, free)
    <3> HIDE DEF Ks
    <3> QED
      BY <2>1, <2>3, <2>4, CarriesJoined
  <2>6. Ks(i - 1) \cup {o[i]} = Ks(i)
    <3>1. 1 .. i = (1 .. i - 1) \cup {i}
      BY <2>2
    <3> QED
      BY <3>1
  <2>7. Whole(s \o seqs[i]) /\ s \o seqs[i] \in Seq(Chars)
    BY <2>1, <2>3, JoinedWhole, ConcatProperties
  <2>8. i \in 0 .. N
    BY <1>3, <2>2
  <2> HIDE DEF Ks
  <2> QED
    BY <2>5, <2>6, <2>7, <2>8
<1> HIDE DEF P
<1>7. <<Len(seqs), FlattenSeq(seqs)>> \in P
  BY <1>2, <1>5, <1>6, FlattenInduction
<1>8. Carries(FlattenSeq(seqs), Ks(N), frames, free)
  <2> HIDE DEF Ks
  <2> QED
    BY <1>7 DEF P
<1>9. Ks(N) \subseteq K
  BY <1>3
<1> HIDE DEF Ks
<1> QED
  BY <1>8, <1>9, CarriesMore DEF seqs

\* A frame of a text without type words begins nowhere but at its beginning.
LEMMA CarriesItself ==
    ASSUME PlainTexts, NEW s \in Sources, NEW ip \in Addresses, NEW x \in Seq(ToSet(s.text)),
           NEW frames, NEW k, frames[k] = FrameText(Data(ip, x)), NEW free
    PROVE  Carries(FrameText(Data(ip, x)), {k}, frames, free)
<1> DEFINE f == FrameText(Data(ip, x))
<1>1. x \in Seq(Chars) /\ ip \in Seq(Chars) /\ "DATA" \in Chars /\ "|" \in Chars /\ "LF" \in Chars
  BY Characters, FrameCharacters DEF Types
<1>2. /\ Len(f) = Len(ip) + Len(x) + 4
      /\ f[2] = "|" /\ f[Len(ip) + 3] = "|" /\ f[Len(f)] = "LF"
      /\ \A i \in 1 .. Len(ip) : f[i + 2] = ip[i]
      /\ \A i \in 1 .. Len(x) : f[Len(ip) + 3 + i] = x[i]
  BY <1>1, DataFrame
<1>3. Len(ip) \in Nat /\ Len(x) \in Nat
  BY <1>1, LenProperties
<1>4. \A i \in 1 .. Len(ip) : ip[i] # "DATA"
  BY AddressCharacters DEF Types
<1>5. \A i \in 1 .. Len(x) : x[i] # "DATA"
  <2>1. \A i \in 1 .. Len(x) : x[i] \in ToSet(s.text)
    BY ElementOfSeq
  <2> QED
    BY <2>1 DEF PlainTexts, Types
<1> HIDE DEF f
<1>6. ASSUME NEW p \in Heads(f)
      PROVE  p = 1
  <2>1. p \in 1 .. Len(ip) + Len(x) + 4 /\ f[p] = "DATA"
    BY <1>2 DEF Heads
  <2>2. p # 2 /\ p # Len(ip) + 3 /\ p # Len(ip) + Len(x) + 4
    BY <1>2, <2>1
  <2>3. \A i \in 1 .. Len(ip) : i + 2 # p
    BY <1>2, <1>4, <2>1
  <2>4. \A i \in 1 .. Len(x) : Len(ip) + 3 + i # p
    BY <1>2, <1>5, <2>1
  <2>5. CASE p - 2 \in 1 .. Len(ip)
    BY <1>3, <2>1, <2>3, <2>5
  <2>6. CASE p - Len(ip) - 3 \in 1 .. Len(x)
    <3>1. Len(ip) + 3 + (p - Len(ip) - 3) = p
      BY <1>3, <2>1
    <3> QED
      BY <2>4, <2>6, <3>1
  <2>7. p = 1 \/ p - 2 \in 1 .. Len(ip) \/ p - Len(ip) - 3 \in 1 .. Len(x)
    BY <1>3, <2>1, <2>2
  <2> QED
    BY <2>5, <2>6, <2>7
<1>7. Len(f) \in Nat
  BY <1>2, <1>3
<1>8. Carries(f, {k}, frames, free)
  <2>1. \A q \in 1 .. Len(f) :
            (\A r \in 1 .. q : f[r] # "LF") => q <= Len(frames[k]) /\ f[q] = frames[k][q]
    BY <1>7 DEF f
  <2> QED
    BY <1>6, <1>7, <2>1, CarriesOne
<1> QED
  BY <1>8 DEF f

\* What is left out of the order does not disturb it.
LEMMA InOrderLess ==
    ASSUME NEW Ko, NEW Kd, NEW Kh, NEW Ku, NEW free, InOrder(Ko, Kd, Kh, Ku, free), NEW Lu, Apart(Ko, Lu, free),
           Apart(Kd, Lu, free), \A i \in DOMAIN Kh : Apart(Kh[i], Lu, free)
    PROVE  InOrder(Ko, Kd, Kh, Ku \cup Lu, free)
BY DEF InOrder, Apart

\* Sending a frame.
LEMMA OriginsSend ==
    ASSUME PlainTexts, TypeInv, Origins,
           NEW text \in Seq(ToSet(source.text)), NEW frame, frame # << >>,
           frame = Encode(Data(source.dest, text)),
           up' = up \o frame, sent' = Append(sent, text),
           UNCHANGED <<source, far, hops, down, output>>
    PROVE  Origins'
<1>0. PICK n : n = Len(sent)
  OBVIOUS
<1>1. PICK Ko \in SUBSET DOMAIN sent, Kd \in SUBSET DOMAIN sent, Ku \in SUBSET DOMAIN sent,
           Kh \in [DOMAIN hops -> SUBSET DOMAIN sent] : Traced(Ko, Kd, Kh, Ku)
  BY DEF Origins
<1>2. /\ source \in Sources /\ source.dest \in Addresses /\ frame = FrameText(Data(source.dest, text))
      /\ frame \in Seq(Chars) /\ up \in Seq(Chars) /\ Whole(up)
  BY SentTypes DEF TypeInv, TypeOK, Streams
<1>3. /\ n \in Nat /\ DOMAIN sent = 1 .. n /\ DOMAIN sent' = 1 .. n + 1
      /\ \A k \in 1 .. n : sent'[k] = sent[k]
      /\ sent'[n + 1] = text
  <2>1. sent \in Seq(Seq(ToSet(source.text)))
    BY DEF TypeInv, Streams
  <2>2. text \in Seq(ToSet(source.text))
    OBVIOUS
  <2>3. /\ Append(sent, text) \in Seq(Seq(ToSet(source.text)))
        /\ Len(Append(sent, text)) = n + 1
        /\ \A k \in 1 .. n : Append(sent, text)[k] = sent[k]
        /\ Append(sent, text)[n + 1] = text
    BY <1>0, <2>1, <2>2, AppendProperties
  <2> QED
    BY <1>0, <2>1, <2>3, LenProperties
<1>4. \A k \in DOMAIN sent : k \in DOMAIN sent' /\ Frames'[k] = Frames[k] /\ sent'[k] = sent[k]
  BY <1>3 DEF Frames
<1>5. Frames'[n + 1] = frame
  BY <1>2, <1>3 DEF Frames
<1>6. Carries(frame, {n + 1}, Frames', far)
  <2>1. Frames'[n + 1] = FrameText(Data(source.dest, text))
    BY <1>2, <1>5
  <2>2. source \in Sources /\ source.dest \in Addresses
    BY <1>2
  <2>3. Carries(FrameText(Data(source.dest, text)), {n + 1}, Frames', far)
    BY <2>1, <2>2, CarriesItself
  <2> QED
    BY <1>2, <2>3
<1>7. /\ Carries(down, Kd, Frames', far) /\ Carries(up, Ku, Frames', far)
      /\ \A i \in DOMAIN hops : Carries(hops[i], Kh[i], Frames', far)
  <2>1. ASSUME NEW stream, NEW K \in SUBSET DOMAIN sent, Carries(stream, K, Frames, far)
        PROVE  Carries(stream, K, Frames', far)
    <3>1. \A k \in K : Frames'[k] = Frames[k]
      BY <1>4
    <3> QED
      BY <2>1, <3>1, CarriesMore
  <2> QED
    BY <1>1, <2>1 DEF Traced
<1>8. Sourced(output, Ko, PartOfText(sent'), far)
  <2>1. \A i \in DOMAIN output, k \in Ko :
            <<output[i], k>> \in PartOfText(sent) => <<output[i], k>> \in PartOfText(sent')
    BY <1>4 DEF PartOfText
  <2>2. Sourced(output, Ko, PartOfText(sent), far)
    BY <1>1 DEF Traced
  <2> QED
    BY <2>1, <2>2, SourcedMore
<1>9. \A K \in SUBSET DOMAIN sent : Apart(K, {n + 1}, far)
  BY <1>3 DEF Apart, Precedes
<1>10. InOrder(Ko, Kd, Kh, Ku \cup {n + 1}, far)
  BY <1>1, <1>9, InOrderLess DEF Traced
<1>11. Carries(up', Ku \cup {n + 1}, Frames', far)
  BY <1>2, <1>6, <1>7, <1>9, CarriesJoined
<1>12. Traced(Ko, Kd, Kh, Ku \cup {n + 1})'
  BY <1>7, <1>8, <1>10, <1>11 DEF Traced
<1>13. /\ Ko \in SUBSET DOMAIN sent' /\ Kd \in SUBSET DOMAIN sent' /\ Ku \cup {n + 1} \in SUBSET DOMAIN sent'
       /\ Kh \in [DOMAIN hops' -> SUBSET DOMAIN sent']
  BY <1>3
<1> QED
  BY <1>12, <1>13 DEF Origins

\* The frames in a chunk, and those in the rest of its stream.
LEMMA ChunkOrigins ==
    ASSUME TypeInv, NEW stream \in Seq(Chars), NEW chunk \in Chunks(stream),
           NEW K \in SUBSET DOMAIN sent, Carries(stream, K, Frames, far)
    PROVE  \E K1, K2 \in SUBSET K :
               /\ Carries(Rest(stream, chunk), K2, Frames, far) /\ Apart(K1, K2, far)
               /\ Sourced(OfType(Dispatched(chunk), "DATA"), K1, PartOfFrame(Frames), far)
               /\ Sourced(OfType(Lines(chunk), "DATA"), K1, PartOfFrame(Frames), far)
<1>1. PICK n \in 1 .. Len(stream) : chunk = SubSeq(stream, 1, n)
  BY ChunkShape DEF TypeInv, TypeOK
<1>2. Len(stream) \in Nat /\ n \in 0 .. Len(stream)
  BY <1>1, LenProperties
<1>3. PICK K1 \in SUBSET K, K2 \in SUBSET K :
          /\ Carries(chunk, K1, Frames, far)
          /\ Carries(Rest(stream, chunk), K2, Frames, far)
          /\ Apart(K1, K2, far)
  <2>1. \E L1 \in SUBSET K, L2 \in SUBSET K :
            /\ Carries(SubSeq(stream, 1, n), L1, Frames, far)
            /\ Carries(Rest(stream, SubSeq(stream, 1, n)), L2, Frames, far)
            /\ Apart(L1, L2, far)
    BY <1>2, CarriesSplit
  <2> QED
    BY <1>1, <2>1
<1>4. chunk \in Seq(Chars)
  BY ChunkTypes
<1>5. ASSUME NEW texts \in Seq(Seq(Chars)), InLines(texts, chunk)
      PROVE  Sourced(OfType(texts, "DATA"), K1, PartOfFrame(Frames), far)
  <2> DEFINE D == {i \in DOMAIN texts : Decode(texts[i]).type = "DATA"}
             u == OfType(texts, "DATA")
  <2>1. D \in SUBSET DOMAIN texts
    OBVIOUS
  <2>2. u \in Seq(Seq(Chars)) /\ InLines(u, chunk)
    <3> HIDE DEF D
    <3>1. At(texts, D) \in Seq(Seq(Chars)) /\ InLines(At(texts, D), chunk)
      BY <1>5, <2>1, AtInLines
    <3> QED
      BY <3>1 DEF OfType, D
  <2>3. \A j \in DOMAIN u : Decode(u[j]).type = "DATA"
    BY OfTypeTexts
  <2>4. K1 \in SUBSET DOMAIN Frames
    BY DEF Frames
  <2> HIDE DEF u
  <2>5. Sourced(u, K1, PartOfFrame(Frames), far)
    BY <1>3, <1>4, <2>2, <2>3, <2>4, FramesOfChunk
  <2> QED
    BY <2>5 DEF u
<1>6. Dispatched(chunk) \in Seq(Seq(Chars)) /\ InLines(Dispatched(chunk), chunk)
  BY <1>4, DispatchedInLines
<1>7. Lines(chunk) \in Seq(Seq(Chars)) /\ InLines(Lines(chunk), chunk)
  BY <1>4, LinesArePlaced DEF InLines
<1> QED
  BY <1>3, <1>5, <1>6, <1>7

\* What the listener's router passes on, on the listener's connection.
LEMMA DeliverOrigins ==
    ASSUME TypeInv, NEW texts \in Seq(Seq(Chars)), DeliverToHost(texts),
           NEW Kd, NEW K \in SUBSET DOMAIN sent, Apart(Kd, K, far),
           Carries(down, Kd, Frames, far), Sourced(OfType(texts, "DATA"), K, PartOfFrame(Frames), far)
    PROVE  Carries(down', Kd \cup K, Frames, far)
<1> DEFINE u == OfType(texts, "DATA")
<1>1. down \in Seq(Chars) /\ Whole(down) /\ missed \in BOOLEAN
  BY DEF TypeInv, TypeOK, Streams
<1>2. PICK D \in SUBSET DOMAIN u :
          /\ At(u, D) \in Seq(Seq(Chars))
          /\ FlattenSeq(AllForwarded(At(u, D))) \in Seq(Chars)
          /\ down' = down \o FlattenSeq(AllForwarded(At(u, D)))
  BY <1>1, Delivered
<1>3. u \in Seq(Seq(Chars))
  BY OfTypeTexts
<1> HIDE DEF u
<1>4. Sourced(At(u, D), K, PartOfFrame(Frames), far)
  BY <1>3, SourcedAt DEF u
<1>5. K \in SUBSET DOMAIN Frames
  BY DEF Frames
<1>6. Carries(FlattenSeq(AllForwarded(At(u, D))), K, Frames, far)
  BY <1>2, <1>4, <1>5, CarriesForwarded
<1> QED
  BY <1>1, <1>2, <1>6, CarriesJoined

\* The data of the frames of a chunk.
LEMMA MessageOrigins ==
    ASSUME TypeInv, NEW chunk \in Seq(Chars), Len(chunk) < BufSize, NEW K \in SUBSET DOMAIN sent,
           Sourced(OfType(Lines(chunk), "DATA"), K, PartOfFrame(Frames), far)
    PROVE  Sourced(Messages(chunk), K, PartOfText(sent), far)
<1> DEFINE u == OfType(Lines(chunk), "DATA")
           m == Messages(chunk)
<1>1. PICK o \in [DOMAIN u -> K] : SourcedBy(o, u, PartOfFrame(Frames), far)
  BY DEF Sourced
<1>2. /\ DOMAIN m = DOMAIN u
      /\ \A i \in DOMAIN m : m[i] = Decode(u[i]).data
  BY MessageTypes
<1>3. u \in Seq(Seq(Chars)) /\ \A i \in DOMAIN u : Decode(u[i]).type = "DATA"
  <2>1. Lines(chunk) \in Seq(Seq(Chars))
    BY LinesArePlaced
  <2> QED
    BY <2>1, OfTypeTexts
<1> HIDE DEF u, m
<1>4. ASSUME NEW i \in DOMAIN m
      PROVE  <<m[i], o[i]>> \in PartOfText(sent)
  <2> DEFINE k == o[i]
             t == u[i]
             x == sent[k]
             ip == source.dest
  <2>1. k \in DOMAIN sent /\ i \in DOMAIN u
    BY <1>2
  <2>2. ip \in Addresses /\ x \in Seq(Chars)
    <3>1. sent # << >>
      BY <2>1
    <3>2. sent \in Seq(Seq(ToSet(source.text))) /\ source \in Sources /\ source.dest \in Addresses
      BY <3>1 DEF TypeInv, TypeOK, Streams
    <3>3. x \in Seq(ToSet(source.text))
      BY <2>1, <3>2, ElementOfSeq
    <3> QED
      BY <3>2, <3>3, FrameCharacters
  <2>3. <<t, k>> \in PartOfFrame(Frames)
    BY <1>1, <2>1 DEF SourcedBy
  <2>4. /\ t \in Seq(Chars) /\ Begins(t, Frames[k])
        /\ \A q \in 1 .. Len(t) : t[q] # "LF" /\ (q # 1 => t[q] # "DATA")
    BY <2>3 DEF PartOfFrame
  <2>5. Frames[k] = FrameText(Data(ip, x))
    BY <2>1 DEF Frames
  <2>6. Decode(t).type = "DATA" /\ m[i] = Decode(t).data
    BY <1>2, <1>3, <2>1
  <2>7. ip \in Seq(Chars) /\ "DATA" \in Chars /\ "|" \in Chars /\ "LF" \in Chars
    BY <2>2, Characters DEF Types
  <2> HIDE DEF t, x, ip
  <2>8. Decode(t).data \in Seq(Chars) /\ Begins(Decode(t).data, x)
    BY <2>2, <2>4, <2>5, <2>6, <2>7, DecodedData
  <2> QED
    BY <2>1, <2>6, <2>8 DEF PartOfText, x
<1>5. SourcedBy(o, m, PartOfText(sent), far)
  BY <1>1, <1>2, <1>4 DEF SourcedBy
<1> QED
  BY <1>1, <1>2, <1>5 DEF Sourced, m

\* The sender's router, when it is the listener's as well.
LEMMA OriginsReadSenderNear ==
    ASSUME TypeInv, Origins, ReadSender, ~ far
    PROVE  Origins'
<1>1. PICK Ko \in SUBSET DOMAIN sent, Kd \in SUBSET DOMAIN sent, Ku \in SUBSET DOMAIN sent,
           Kh \in [DOMAIN hops -> SUBSET DOMAIN sent] : Traced(Ko, Kd, Kh, Ku)
  BY DEF Origins
<1>2. hops = << >>
  BY DEF Origins
<1>3. PICK chunk \in Chunks(up) : /\ up' = Rest(up, chunk)
                                  /\ DeliverToHost(Dispatched(chunk))
                                  /\ UNCHANGED <<source, far, sent, hops, output>>
  BY DEF ReadSender, senderVars, listenerVars
<1>4. up \in Seq(Chars)
  BY DEF TypeInv, Streams
<1>5. Carries(up, Ku, Frames, far) /\ Carries(down, Kd, Frames, far)
  BY <1>1 DEF Traced
<1>6. PICK K1 \in SUBSET Ku, K2 \in SUBSET Ku :
          /\ Carries(Rest(up, chunk), K2, Frames, far) /\ Apart(K1, K2, far)
          /\ Sourced(OfType(Dispatched(chunk), "DATA"), K1, PartOfFrame(Frames), far)
  BY <1>3, <1>4, <1>5, ChunkOrigins
<1>7. Apart(Ko, Kd, far) /\ Apart(Ko, Ku, far) /\ Apart(Kd, Ku, far)
  BY <1>1 DEF Traced, InOrder
<1>8. Carries(down', Kd \cup K1, Frames, far)
  <2>1. Dispatched(chunk) \in Seq(Seq(Chars))
    BY <1>3, <1>4, ChunkTypes
  <2>2. K1 \in SUBSET DOMAIN sent
    BY <1>6
  <2>3. Apart(Kd, K1, far)
    BY <1>7 DEF Apart
  <2> QED
    BY <1>3, <1>5, <1>6, <2>1, <2>2, <2>3, DeliverOrigins
<1>9. DOMAIN hops = {} /\ DOMAIN Kh = {}
  BY <1>2
<1>10. InOrder(Ko, Kd \cup K1, Kh, K2, far)
  BY <1>6, <1>7, <1>9 DEF InOrder, Apart
<1>11. Frames' = Frames
  BY <1>3 DEF Frames
<1>12. Traced(Ko, Kd \cup K1, Kh, K2)'
  BY <1>1, <1>3, <1>6, <1>8, <1>9, <1>10, <1>11 DEF Traced
<1>13. Kd \cup K1 \in SUBSET DOMAIN sent /\ K2 \in SUBSET DOMAIN sent
  OBVIOUS
<1> QED
  BY <1>2, <1>3, <1>12, <1>13 DEF Origins

\* The sender's router, when the listener has another one: each frame has a
\* connection of its own.
LEMMA OriginsReadSenderFar ==
    ASSUME TypeInv, Origins, ReadSender, far
    PROVE  Origins'
<1>1. PICK Ko \in SUBSET DOMAIN sent, Kd \in SUBSET DOMAIN sent, Ku \in SUBSET DOMAIN sent,
           Kh \in [DOMAIN hops -> SUBSET DOMAIN sent] : Traced(Ko, Kd, Kh, Ku)
  BY DEF Origins
<1>2. PICK chunk \in Chunks(up) : /\ up' = Rest(up, chunk)
                                  /\ DeliverToNeighbor(Dispatched(chunk))
                                  /\ UNCHANGED <<source, far, sent, down, output>>
  BY DEF ReadSender, senderVars, listenerVars
<1>3. up \in Seq(Chars) /\ hops \in Seq(Seq(Chars))
  BY DEF TypeInv, Streams
<1>4. Carries(up, Ku, Frames, far)
  BY <1>1 DEF Traced
<1> DEFINE u == OfType(Dispatched(chunk), "DATA")
<1>5. PICK K1 \in SUBSET Ku, K2 \in SUBSET Ku :
          /\ Carries(Rest(up, chunk), K2, Frames, far) /\ Apart(K1, K2, far)
          /\ Sourced(u, K1, PartOfFrame(Frames), far)
  BY <1>2, <1>3, <1>4, ChunkOrigins
<1>6. PICK D \in SUBSET DOMAIN u : hops' = hops \o AllForwarded(At(u, D))
  BY <1>2 DEF DeliverToNeighbor, PartsOf
<1>7. u \in Seq(Seq(Chars))
  <2>1. Dispatched(chunk) \in Seq(Seq(Chars))
    BY <1>2, <1>3, ChunkTypes
  <2> QED
    BY <2>1, OfTypeTexts
<1> HIDE DEF u
<1> DEFINE v == At(u, D)
           w == AllForwarded(v)
           n == Len(hops)
<1>8. v \in Seq(Seq(Chars)) /\ Sourced(v, K1, PartOfFrame(Frames), far)
  BY <1>5, <1>7, AtProperties, SourcedAt
<1>9. w \in Seq(Seq(Chars)) /\ DOMAIN w = DOMAIN v /\ \A i \in DOMAIN v : w[i] = Forwarded(v[i])
  BY <1>8, Characters, AllForwardedTexts
<1> HIDE DEF v, w
<1>10. PICK o \in [DOMAIN v -> K1] : SourcedBy(o, v, PartOfFrame(Frames), far)
  BY <1>8 DEF Sourced
<1>11. \A i \in DOMAIN v : Carries(w[i], {o[i]}, Frames, far)
  <2> TAKE i \in DOMAIN v
  <2>1. <<v[i], o[i]>> \in PartOfFrame(Frames)
    BY <1>10 DEF SourcedBy
  <2> QED
    BY <1>9, <2>1, CarriesForwardedText
<1>12. PICK c : c = hops \o w
  OBVIOUS
<1>13. /\ c \in Seq(Seq(Chars)) /\ n \in Nat /\ Len(w) \in Nat /\ Len(c) = n + Len(w)
       /\ \A i \in 1 .. n : c[i] = hops[i]
       /\ \A i \in 1 .. Len(w) : c[n + i] = w[i]
  BY <1>3, <1>9, <1>12, Joined
<1>14. DOMAIN hops = 1 .. n /\ DOMAIN w = 1 .. Len(w) /\ DOMAIN c = 1 .. n + Len(w)
  BY <1>3, <1>9, <1>13, LenProperties
<1>15. PICK l : l = n
  OBVIOUS
<1> HIDE DEF n
<1> DEFINE Lh == [i \in DOMAIN c |-> IF i <= l THEN Kh[i] ELSE {o[i - l]}]
<1>16. ASSUME NEW i \in DOMAIN c
       PROVE  /\ i \in Nat
              /\ i <= l => i \in DOMAIN hops /\ c[i] = hops[i] /\ Lh[i] = Kh[i]
              /\ ~ (i <= l) => /\ i - l \in DOMAIN v /\ c[i] = w[i - l]
                               /\ Lh[i] = {o[i - l]} /\ o[i - l] \in K1
  <2>1. /\ i \in Nat /\ (i <= l => i \in 1 .. n)
        /\ ~ (i <= l) => i - l \in 1 .. Len(w) /\ n + (i - l) = i
    BY <1>13, <1>14, <1>15
  <2> QED
    BY <1>9, <1>13, <1>14, <2>1
<1>17. Lh \in [DOMAIN c -> SUBSET DOMAIN sent]
  <2>1. \A i \in DOMAIN c : Lh[i] \in SUBSET DOMAIN sent
    <3> TAKE i \in DOMAIN c
    <3> HIDE DEF Lh
    <3>1. CASE i <= l
      BY <1>16, <3>1
    <3>2. CASE ~ (i <= l)
      BY <1>16, <3>2
    <3> QED
      BY <3>1, <3>2
  <2> QED
    BY <2>1
<1>18. DOMAIN Lh = DOMAIN c
  OBVIOUS
<1> HIDE DEF Lh
<1>19. \A i \in DOMAIN c : Carries(c[i], Lh[i], Frames, far)
  <2> TAKE i \in DOMAIN c
  <2>1. CASE i <= l
    BY <1>1, <1>16, <2>1 DEF Traced
  <2>2. CASE ~ (i <= l)
    BY <1>11, <1>16, <2>2
  <2> QED
    BY <2>1, <2>2
<1>20. InOrder(Ko, Kd, Lh, K2, far)
  <2>1. InOrder(Ko, Kd, Kh, Ku, far) /\ DOMAIN Kh = DOMAIN hops
    BY <1>1 DEF Traced
  <2>2. ASSUME NEW i \in DOMAIN Lh
        PROVE  Apart(Ko, Lh[i], far) /\ Apart(Kd, Lh[i], far) /\ Apart(Lh[i], K2, far)
    <3>1. CASE i <= l
      BY <1>5, <1>16, <1>18, <2>1, <3>1 DEF InOrder, Apart
    <3>2. CASE ~ (i <= l)
      <4>1. Lh[i] \in SUBSET K1
        BY <1>16, <1>18, <3>2
      <4>2. Apart(Ko, Ku, far) /\ Apart(Kd, Ku, far)
        BY <2>1 DEF InOrder
      <4> QED
        BY <1>5, <4>1, <4>2 DEF Apart
    <3> QED
      BY <3>1, <3>2
  <2>3. ASSUME NEW i \in DOMAIN Lh, NEW j \in DOMAIN Lh, i < j
        PROVE  Apart(Lh[i], Lh[j], far) /\ Apart(Lh[j], Lh[i], far)
    <3>1. CASE j <= l
      <4>1. i <= l
        BY <1>13, <1>15, <1>16, <1>18, <2>3, <3>1
      <4>2. Lh[i] = Kh[i] /\ Lh[j] = Kh[j] /\ i \in DOMAIN Kh /\ j \in DOMAIN Kh
        BY <1>16, <1>18, <2>1, <3>1, <4>1
      <4>3. i # j
        BY <1>16, <1>18, <2>3
      <4>4. Apart(Kh[i], Kh[j], far) /\ Apart(Kh[j], Kh[i], far)
        BY <2>1, <4>2, <4>3 DEF InOrder
      <4> QED
        BY <4>2, <4>4
    <3>2. CASE i <= l /\ ~ (j <= l)
      BY <1>5, <1>16, <1>18, <2>1, <3>2 DEF InOrder, Apart, Precedes
    <3>3. CASE ~ (i <= l)
      <4>1. ~ (j <= l) /\ i - l < j - l
        BY <1>13, <1>15, <1>16, <1>18, <2>3, <3>3
      <4>2. Precedes(o[i - l], o[j - l], far)
        BY <1>10, <1>16, <1>18, <3>3, <4>1 DEF SourcedBy
      <4> QED
        BY <1>16, <1>18, <3>3, <4>1, <4>2 DEF Apart, Precedes
    <3> QED
      BY <3>1, <3>2, <3>3
  <2>4. \A i, j \in DOMAIN Lh : i # j => i < j \/ j < i
    BY <1>16, <1>18
  <2>5. Apart(Ko, Kd, far) /\ Apart(Ko, K2, far) /\ Apart(Kd, K2, far)
    BY <1>5, <2>1 DEF InOrder, Apart
  <2> QED
    BY <2>2, <2>3, <2>4, <2>5 DEF InOrder
<1>21. Frames' = Frames
  BY <1>2 DEF Frames
<1>22. hops' = c
  BY <1>6, <1>12 DEF v, w
<1>23. PICK L : L = Lh
  OBVIOUS
<1>24. Traced(Ko, Kd, L, K2)'
  BY <1>1, <1>2, <1>5, <1>19, <1>20, <1>21, <1>22, <1>23 DEF Traced
<1>25. L \in [DOMAIN hops' -> SUBSET DOMAIN sent'] /\ K2 \in SUBSET DOMAIN sent'
  BY <1>2, <1>5, <1>17, <1>22, <1>23
<1>26. far' = far /\ sent' = sent
  BY <1>2
<1> QED
  BY <1>24, <1>25, <1>26 DEF Origins

\* A frame, or the beginning of one, that is read from a connection between the
\* routers goes to the listener's; the rest may stay, or the connection end.
LEMMA InOrderMoved ==
    ASSUME NEW Ko, NEW Kd, NEW Kh, NEW Ku, NEW free, InOrder(Ko, Kd, Kh, Ku, free),
           NEW i \in DOMAIN Kh, NEW K1 \in SUBSET Kh[i], NEW K2 \in SUBSET Kh[i], Apart(K1, K2, free),
           NEW Lh, NEW e \in [DOMAIN Lh -> DOMAIN Kh],
           \A j, k \in DOMAIN Lh : j # k => e[j] # e[k],
           \A j \in DOMAIN Lh : Lh[j] \subseteq Kh[e[j]] /\ (e[j] = i => Lh[j] \subseteq K2)
    PROVE  InOrder(Ko, Kd \cup K1, Lh, Ku, free)
<1>1. Apart(Ko, Kd \cup K1, free) /\ Apart(Ko, Ku, free) /\ Apart(Kd \cup K1, Ku, free)
  BY DEF InOrder, Apart
<1>2. ASSUME NEW j \in DOMAIN Lh
      PROVE  Apart(Ko, Lh[j], free) /\ Apart(Kd \cup K1, Lh[j], free) /\ Apart(Lh[j], Ku, free)
  <2>1. e[j] \in DOMAIN Kh /\ Lh[j] \subseteq Kh[e[j]]
    OBVIOUS
  <2>2. Apart(Ko, Kh[e[j]], free) /\ Apart(Kd, Kh[e[j]], free) /\ Apart(Kh[e[j]], Ku, free)
    BY <2>1 DEF InOrder
  <2>3. Apart(K1, Lh[j], free)
    <3>1. CASE e[j] = i
      BY <3>1 DEF Apart
    <3>2. CASE e[j] # i
      <4>1. Apart(Kh[i], Kh[e[j]], free)
        BY <2>1, <3>2 DEF InOrder
      <4> QED
        BY <2>1, <4>1 DEF Apart
    <3> QED
      BY <3>1, <3>2
  <2> QED
    BY <2>1, <2>2, <2>3 DEF Apart
<1>3. ASSUME NEW j \in DOMAIN Lh, NEW k \in DOMAIN Lh, j # k
      PROVE  Apart(Lh[j], Lh[k], free)
  <2>1. /\ e[j] \in DOMAIN Kh /\ Lh[j] \subseteq Kh[e[j]]
        /\ e[k] \in DOMAIN Kh /\ Lh[k] \subseteq Kh[e[k]] /\ e[j] # e[k]
    BY <1>3
  <2>2. Apart(Kh[e[j]], Kh[e[k]], free)
    BY <2>1 DEF InOrder
  <2> QED
    BY <2>1, <2>2 DEF Apart
<1> QED
  BY <1>1, <1>2, <1>3 DEF InOrder

\* The listener's router reads a connection of the other router.
LEMMA OriginsReadNeighbor ==
    ASSUME TypeInv, Origins, ReadNeighbor
    PROVE  Origins'
<1>1. PICK Ko \in SUBSET DOMAIN sent, Kd \in SUBSET DOMAIN sent, Ku \in SUBSET DOMAIN sent,
           Kh \in [DOMAIN hops -> SUBSET DOMAIN sent] : Traced(Ko, Kd, Kh, Ku)
  BY DEF Origins
<1> DEFINE Step(i, chunk) ==
               /\ hops' = IF chunk = hops[i] THEN RemoveAt(hops, i) ELSE [hops EXCEPT ![i] = Rest(@, chunk)]
               /\ DeliverToHost(Dispatched(chunk))
               /\ UNCHANGED <<source, far, sent, up, output>>
<1>0. PICK i \in DOMAIN hops : \E chunk \in Chunks(hops[i]) : Step(i, chunk)
  BY DEF ReadNeighbor, senderVars, listenerVars
<1>2. PICK chunk \in Chunks(hops[i]) : Step(i, chunk)
  BY <1>0
<1>3. hops \in Seq(Seq(Chars))
  BY DEF TypeInv, Streams
<1>4. hops[i] \in Seq(Chars) /\ hops # << >>
  BY <1>2, <1>3, ElementOfSeq
<1>5. far
  BY <1>4 DEF Origins
<1>6. /\ Carries(hops[i], Kh[i], Frames, far) /\ Carries(down, Kd, Frames, far)
      /\ InOrder(Ko, Kd, Kh, Ku, far) /\ i \in DOMAIN Kh /\ DOMAIN Kh = DOMAIN hops
      /\ Kh[i] \in SUBSET DOMAIN sent
  BY <1>1, <1>2 DEF Traced
<1>7. PICK K1 \in SUBSET Kh[i], K2 \in SUBSET Kh[i] :
          /\ Carries(Rest(hops[i], chunk), K2, Frames, far) /\ Apart(K1, K2, far)
          /\ Sourced(OfType(Dispatched(chunk), "DATA"), K1, PartOfFrame(Frames), far)
  BY <1>2, <1>4, <1>6, ChunkOrigins
<1>8. Carries(down', Kd \cup K1, Frames, far)
  <2>1. Dispatched(chunk) \in Seq(Seq(Chars))
    BY <1>2, <1>4, ChunkTypes
  <2>2. K1 \in SUBSET DOMAIN sent
    BY <1>6, <1>7
  <2>3. Apart(Kd, K1, far)
    BY <1>6, <1>7 DEF InOrder, Apart
  <2> QED
    BY <1>2, <1>6, <1>7, <2>1, <2>2, <2>3, DeliverOrigins
<1>9. \E Lh \in [DOMAIN hops' -> SUBSET DOMAIN sent] :
          /\ \A j \in DOMAIN hops' : Carries(hops'[j], Lh[j], Frames, far)
          /\ InOrder(Ko, Kd \cup K1, Lh, Ku, far)
  <2>1. CASE chunk = hops[i]
    <3> DEFINE h == RemoveAt(hops, i)
    <3>1. /\ DOMAIN h = 1 .. Len(hops) - 1 /\ Len(hops) \in Nat /\ DOMAIN hops = 1 .. Len(hops)
          /\ \A j \in 1 .. Len(hops) - 1 : h[j] = hops[IF j < i THEN j ELSE j + 1]
      BY <1>2, <1>3, RemoveAtProperties
    <3> HIDE DEF h
    <3> DEFINE e  == [j \in DOMAIN h |-> IF j < i THEN j ELSE j + 1]
               Lh == [j \in DOMAIN h |-> Kh[e[j]]]
    <3>2. \A j \in DOMAIN h : e[j] \in DOMAIN hops /\ e[j] # i /\ h[j] = hops[e[j]]
      <4>1. i \in 1 .. Len(hops)
        BY <1>2, <3>1
      <4> QED
        BY <3>1, <4>1
    <3>3. \A j, k \in DOMAIN h : j # k => e[j] # e[k]
      <4>1. i \in Nat
        BY <1>2, <3>1
      <4> QED
        BY <3>1, <4>1
    <3>4. e \in [DOMAIN h -> DOMAIN Kh]
      BY <1>6, <3>2
    <3> HIDE DEF e
    <3>5. DOMAIN Lh = DOMAIN h /\ \A j \in DOMAIN h : Lh[j] = Kh[e[j]] /\ Lh[j] \in SUBSET DOMAIN sent
      BY <1>6, <3>4
    <3>6. Lh \in [DOMAIN h -> SUBSET DOMAIN sent]
      BY <3>5
    <3> HIDE DEF Lh
    <3>7. InOrder(Ko, Kd \cup K1, Lh, Ku, far)
      <4>1. \A j \in DOMAIN Lh : Lh[j] \subseteq Kh[e[j]] /\ (e[j] = i => Lh[j] \subseteq K2)
        BY <3>2, <3>5
      <4>2. \A j, k \in DOMAIN Lh : j # k => e[j] # e[k]
        BY <3>3, <3>5
      <4>3. e \in [DOMAIN Lh -> DOMAIN Kh]
        BY <3>4, <3>5
      <4>4. i \in DOMAIN Kh /\ K1 \in SUBSET Kh[i] /\ K2 \in SUBSET Kh[i]
        BY <1>6, <1>7
      <4>5. InOrder(Ko, Kd, Kh, Ku, far) /\ Apart(K1, K2, far)
        BY <1>6, <1>7
      <4> QED
        BY <4>1, <4>2, <4>3, <4>4, <4>5, InOrderMoved
    <3>8. \A j \in DOMAIN h : Carries(h[j], Lh[j], Frames, far)
      BY <1>1, <3>2, <3>5 DEF Traced
    <3>9. hops' = h
      BY <1>2, <2>1 DEF h
    <3> QED
      BY <3>6, <3>7, <3>8, <3>9
  <2>2. CASE chunk # hops[i]
    <3> DEFINE h  == [hops EXCEPT ![i] = Rest(hops[i], chunk)]
               e  == [j \in DOMAIN hops |-> j]
               Lh == [Kh EXCEPT ![i] = K2]
    <3>1. DOMAIN h = DOMAIN hops /\ h[i] = Rest(hops[i], chunk) /\ \A j \in DOMAIN hops : j # i => h[j] = hops[j]
      BY <1>2
    <3>2. DOMAIN Lh = DOMAIN hops /\ Lh[i] = K2 /\ \A j \in DOMAIN hops : j # i => Lh[j] = Kh[j]
      BY <1>6
    <3>3. Lh \in [DOMAIN hops -> SUBSET DOMAIN sent]
      BY <1>6, <1>7
    <3>4. e \in [DOMAIN hops -> DOMAIN hops] /\ \A j \in DOMAIN hops : e[j] = j
      OBVIOUS
    <3> HIDE DEF h, e, Lh
    <3>5. InOrder(Ko, Kd \cup K1, Lh, Ku, far)
      <4>1. \A j \in DOMAIN Lh : Lh[j] \subseteq Kh[e[j]] /\ (e[j] = i => Lh[j] \subseteq K2)
        BY <1>7, <3>2, <3>4
      <4>2. \A j, k \in DOMAIN Lh : j # k => e[j] # e[k]
        BY <3>2, <3>4
      <4>3. e \in [DOMAIN Lh -> DOMAIN Kh]
        BY <1>6, <3>2, <3>4
      <4>4. i \in DOMAIN Kh /\ K1 \in SUBSET Kh[i] /\ K2 \in SUBSET Kh[i]
        BY <1>6, <1>7
      <4>5. InOrder(Ko, Kd, Kh, Ku, far) /\ Apart(K1, K2, far)
        BY <1>6, <1>7
      <4> QED
        BY <4>1, <4>2, <4>3, <4>4, <4>5, InOrderMoved
    <3>6. \A j \in DOMAIN hops : Carries(h[j], Lh[j], Frames, far)
      BY <1>1, <1>7, <3>1, <3>2 DEF Traced
    <3>7. hops' = h
      BY <1>2, <2>2 DEF h
    <3> QED
      BY <3>1, <3>3, <3>5, <3>6, <3>7
  <2> QED
    BY <2>1, <2>2
<1>10. PICK Lh \in [DOMAIN hops' -> SUBSET DOMAIN sent] :
           /\ \A j \in DOMAIN hops' : Carries(hops'[j], Lh[j], Frames, far)
           /\ InOrder(Ko, Kd \cup K1, Lh, Ku, far)
  BY <1>9
<1>11. Frames' = Frames
  BY <1>2 DEF Frames
<1>12. Traced(Ko, Kd \cup K1, Lh, Ku)'
  BY <1>1, <1>2, <1>8, <1>10, <1>11 DEF Traced
<1>13. Kd \cup K1 \in SUBSET DOMAIN sent
  BY <1>6, <1>7
<1> QED
  BY <1>2, <1>5, <1>10, <1>12, <1>13 DEF Origins

\* No frame begins in what is put together of two streams where none does ...
LEMMA HeadsJoined ==
    ASSUME NEW S, NEW s \in Seq(S), NEW b \in Seq(S), Heads(s) = {}, Heads(b) = {}
    PROVE  Heads(s \o b) = {}
<1> DEFINE c == s \o b
<1>1. /\ c \in Seq(S) /\ Len(s) \in Nat /\ Len(b) \in Nat /\ Len(c) = Len(s) + Len(b)
      /\ \A j \in 1 .. Len(s) : c[j] = s[j]
      /\ \A j \in 1 .. Len(b) : c[Len(s) + j] = b[j]
  BY Joined
<1>2. (\A j \in 1 .. Len(s) : s[j] # "DATA") /\ (\A j \in 1 .. Len(b) : b[j] # "DATA")
  BY DEF Heads
<1> HIDE DEF c
<1>3. ASSUME NEW p \in 1 .. Len(c)
      PROVE  c[p] # "DATA"
  <2>1. CASE p <= Len(s)
    <3>1. p \in 1 .. Len(s)
      BY <1>1, <2>1
    <3> QED
      BY <1>1, <1>2, <3>1
  <2>2. CASE ~ (p <= Len(s))
    <3>1. p - Len(s) \in 1 .. Len(b) /\ Len(s) + (p - Len(s)) = p
      BY <1>1, <2>2
    <3> QED
      BY <1>1, <1>2, <3>1
  <2> QED
    BY <2>1, <2>2
<1> QED
  BY <1>3 DEF Heads, c

\* ... or of several.
LEMMA FlattenHeadless ==
    ASSUME NEW S, NEW seqs \in Seq(Seq(S)), \A i \in DOMAIN seqs : Heads(seqs[i]) = {}
    PROVE  Heads(FlattenSeq(seqs)) = {}
<1> DEFINE P == {e \in Nat \X Seq(S) : Heads(e[2]) = {}}
<1>1. <<0, << >>>> \in P
  <2>1. Heads(<< >>) = {}
    BY DEF Heads
  <2>2. << >> \in Seq(S)
    BY EmptySeq
  <2> QED
    BY <2>1, <2>2
<1>2. ASSUME NEW i \in 1 .. Len(seqs), NEW s \in Seq(S), <<i - 1, s>> \in P
      PROVE  <<i, s \o seqs[i]>> \in P
  <2>1. seqs[i] \in Seq(S) /\ Heads(seqs[i]) = {} /\ Heads(s) = {}
    BY <1>2, LenProperties, ElementOfSeq
  <2> DEFINE c == s \o seqs[i]
  <2>2. c \in Seq(S) /\ Heads(c) = {}
    BY <2>1, HeadsJoined, ConcatProperties
  <2> HIDE DEF c
  <2>3. <<i, c>> \in P
    BY <2>2
  <2> QED
    BY <2>3 DEF c
<1> HIDE DEF P
<1>3. <<Len(seqs), FlattenSeq(seqs)>> \in P
  BY <1>1, <1>2, FlattenInduction
<1> QED
  BY <1>3 DEF P

\* There is no DATA frame in a reply.
LEMMA RepliesHeadless ==
    ASSUME NEW announces \in Seq(Seq(Chars))
    PROVE  Heads(FlattenSeq(Replies(announces))) = {}
<1>1. Reply \in Seq(Seq(Chars)) /\ Replies(announces) \in Seq(Seq(Chars))
  BY ReplyTypes
<1>2. ASSUME NEW j \in DOMAIN Reply
      PROVE  Heads(Reply[j]) = {}
  <2> DEFINE ip == Hosts[j]
             f  == FrameText([type |-> "ADVERTISE", ip |-> ip])
  <2>1. j \in DOMAIN Hosts /\ Reply[j] = f
    BY DEF Reply
  <2>2. ip \in Addresses /\ ip \in Seq(Chars) /\ "ADVERTISE" \in Chars /\ "|" \in Chars /\ "LF" \in Chars
    BY <2>1, Characters DEF Types
  <2>3. "ADVERTISE" \in Types \ {"DATA"}
    BY DEF Types
  <2> HIDE DEF ip
  <2>4. /\ Len(f) = Len(ip) + 3 /\ f[1] = "ADVERTISE" /\ f[2] = "|" /\ f[Len(f)] = "LF"
        /\ \A i \in 1 .. Len(ip) : f[i + 2] = ip[i]
    BY <2>2, <2>3, OtherFrame
  <2>5. Len(ip) \in Nat /\ \A i \in 1 .. Len(ip) : ip[i] # "DATA"
    BY <2>2, AddressCharacters DEF Types
  <2> HIDE DEF f
  <2>6. ASSUME NEW p \in 1 .. Len(f), f[p] = "DATA"
        PROVE  FALSE
    <3>1. p \in 1 .. Len(ip) + 3 /\ p # 1 /\ p # 2 /\ p # Len(ip) + 3
      BY <2>4, <2>6
    <3>2. p - 2 \in 1 .. Len(ip) /\ (p - 2) + 2 = p
      BY <2>5, <3>1
    <3> QED
      BY <2>4, <2>5, <2>6, <3>2
  <2> QED
    BY <2>1, <2>6 DEF Heads
<1>3. Heads(FlattenSeq(Reply)) = {}
  BY <1>1, <1>2, FlattenHeadless
<1>4. \A i \in DOMAIN Replies(announces) : Heads(Replies(announces)[i]) = {}
  BY <1>3 DEF Replies
<1> QED
  BY <1>1, <1>4, FlattenHeadless

\* The listener's router reads the listener's connection.
LEMMA OriginsReadListener ==
    ASSUME TypeInv, Origins, ReadListener
    PROVE  Origins'
<1>1. PICK Ko \in SUBSET DOMAIN sent, Kd \in SUBSET DOMAIN sent, Ku \in SUBSET DOMAIN sent,
           Kh \in [DOMAIN hops -> SUBSET DOMAIN sent] : Traced(Ko, Kd, Kh, Ku)
  BY DEF Origins
<1>2. PICK chunk \in Chunks(hello) :
          /\ down' = down \o FlattenSeq(Replies(OfType(Dispatched(chunk), "ANNOUNCE")))
          /\ UNCHANGED <<source, far, sent, up, hops, output>>
  BY ReadListenerStep DEF senderVars, listenerVars
<1> DEFINE replies == FlattenSeq(Replies(OfType(Dispatched(chunk), "ANNOUNCE")))
<1>3. down \in Seq(Chars) /\ Whole(down) /\ hello \in Seq(Chars)
  BY DEF TypeInv, Streams
<1>4. OfType(Dispatched(chunk), "ANNOUNCE") \in Seq(Seq(Chars))
  <2>1. Dispatched(chunk) \in Seq(Seq(Chars))
    BY <1>2, <1>3, ChunkTypes
  <2> QED
    BY <2>1, OfTypeTexts
<1>5. replies \in Seq(Chars) /\ Heads(replies) = {}
  BY <1>4, ReplyTypes, RepliesHeadless
<1> HIDE DEF replies
<1>6. Carries(down \o replies, Kd \cup {}, Frames, far)
  <2>1. Carries(replies, {}, Frames, far)
    BY <1>5, CarriesNothing
  <2>2. Carries(down, Kd, Frames, far)
    BY <1>1 DEF Traced
  <2>3. Apart(Kd, {}, far)
    BY DEF Apart
  <2> QED
    BY <1>3, <1>5, <2>1, <2>2, <2>3, CarriesJoined
<1>7. Carries(down', Kd, Frames, far)
  <2>1. Kd \cup {} = Kd
    OBVIOUS
  <2> QED
    BY <1>2, <1>6, <2>1 DEF replies
<1>8. Frames' = Frames
  BY <1>2 DEF Frames
<1>9. Traced(Ko, Kd, Kh, Ku)'
  BY <1>1, <1>2, <1>7, <1>8 DEF Traced
<1> QED
  BY <1>1, <1>2, <1>9 DEF Origins

\* The listener reads its connection.
LEMMA OriginsHear ==
    ASSUME TypeInv, Origins, Hear
    PROVE  Origins'
<1>1. PICK Ko \in SUBSET DOMAIN sent, Kd \in SUBSET DOMAIN sent, Ku \in SUBSET DOMAIN sent,
           Kh \in [DOMAIN hops -> SUBSET DOMAIN sent] : Traced(Ko, Kd, Kh, Ku)
  BY DEF Origins
<1>2. PICK chunk \in Chunks(down) :
          /\ down' = Rest(down, chunk)
          /\ \E saved \in PartsOf(Messages(chunk)) : output' = output \o saved
          /\ UNCHANGED <<source, far, sent, up, hops>>
  BY DEF Hear, senderVars
<1>3. down \in Seq(Chars) /\ output \in Seq(Seq(Chars))
  BY DEF TypeInv, Streams
<1>4. chunk \in Seq(Chars) /\ Len(chunk) < BufSize
  BY <1>2, <1>3, ChunkTypes
<1>5. /\ Carries(down, Kd, Frames, far) /\ Sourced(output, Ko, PartOfText(sent), far)
      /\ InOrder(Ko, Kd, Kh, Ku, far)
  BY <1>1 DEF Traced
<1>6. PICK K1 \in SUBSET Kd, K2 \in SUBSET Kd :
          /\ Carries(Rest(down, chunk), K2, Frames, far) /\ Apart(K1, K2, far)
          /\ Sourced(OfType(Lines(chunk), "DATA"), K1, PartOfFrame(Frames), far)
  BY <1>2, <1>3, <1>5, ChunkOrigins
<1>7. PICK D \in SUBSET DOMAIN Messages(chunk) : output' = output \o At(Messages(chunk), D)
  BY <1>2 DEF PartsOf
<1> DEFINE saved == At(Messages(chunk), D)
<1>8. saved \in Seq(Seq(Chars)) /\ Sourced(saved, K1, PartOfText(sent), far)
  <2>1. Messages(chunk) \in Seq(Seq(Chars))
    BY <1>4, MessageTypes
  <2>2. K1 \in SUBSET DOMAIN sent
    BY <1>6
  <2>3. Sourced(Messages(chunk), K1, PartOfText(sent), far)
    BY <1>4, <1>6, <2>2, MessageOrigins
  <2> QED
    BY <2>1, <2>3, AtProperties, SourcedAt
<1> HIDE DEF saved
<1>9. InOrder(Ko \cup K1, K2, Kh, Ku, far)
  BY <1>5, <1>6 DEF InOrder, Apart
<1>10. Sourced(output', Ko \cup K1, PartOfText(sent), far)
  <2>1. Apart(Ko, K1, far)
    BY <1>5, <1>6 DEF InOrder, Apart
  <2> QED
    BY <1>3, <1>5, <1>7, <1>8, <2>1, SourcedJoined DEF saved
<1>11. Frames' = Frames
  BY <1>2 DEF Frames
<1>12. Traced(Ko \cup K1, K2, Kh, Ku)'
  BY <1>1, <1>2, <1>6, <1>9, <1>10, <1>11 DEF Traced
<1>13. Ko \cup K1 \in SUBSET DOMAIN sent /\ K2 \in SUBSET DOMAIN sent
  BY <1>6
<1> QED
  BY <1>1, <1>2, <1>12, <1>13 DEF Origins

\* What does not concern the frames.
LEMMA OriginsKept ==
    ASSUME Origins, UNCHANGED <<source, far, sent, up, hops, down, output>>
    PROVE  Origins'
<1>1. PICK Ko \in SUBSET DOMAIN sent, Kd \in SUBSET DOMAIN sent, Ku \in SUBSET DOMAIN sent,
           Kh \in [DOMAIN hops -> SUBSET DOMAIN sent] : Traced(Ko, Kd, Kh, Ku)
  BY DEF Origins
<1>2. Frames' = Frames
  BY DEF Frames
<1>3. Traced(Ko, Kd, Kh, Ku)'
  BY <1>1, <1>2 DEF Traced
<1> QED
  BY <1>1, <1>3 DEF Origins

\* The sender.
LEMMA OriginsSender ==
    ASSUME PlainTexts, TypeInv, Origins, Connect \/ SendMessage \/ SendLine \/ EndOfFile
    PROVE  Origins'
<1>1. CASE Connect
  <2>1. UNCHANGED <<source, far, sent, up, hops, down, output>>
    BY <1>1 DEF Connect, listenerVars
  <2> QED
    BY <2>1, OriginsKept
<1>2. ASSUME NEW text \in Seq(ToSet(source.text)), NEW then, SendFrame(text, then),
             UNCHANGED <<source, far, hops, down, output>>
      PROVE  Origins'
  <2> DEFINE frame == Encode(Data(source.dest, text))
  <2>1. CASE frame = << >>
    BY <1>2, <2>1, OriginsKept DEF SendFrame
  <2>2. CASE frame # << >>
    <3>1. up' = up \o frame /\ sent' = Append(sent, text)
      BY <1>2, <2>2 DEF SendFrame
    <3> HIDE DEF frame
    <3> QED
      BY <1>2, <2>2, <3>1, OriginsSend DEF frame
  <2> QED
    BY <2>1, <2>2
<1>3. source \in Sources /\ source.text \in Seq(ToSet(source.text))
  BY Characters DEF TypeInv, TypeOK
<1>4. CASE SendMessage
  <2>1. SendFrame(source.text, "ok") /\ UNCHANGED <<source, far, hops, down, output>>
    BY <1>4 DEF SendMessage, listenerVars
  <2> QED
    BY <1>2, <1>3, <2>1
<1>5. CASE SendLine
  <2> DEFINE text == WithoutEnd(Before(SubSeq(unread, 1, Fgets), "NUL"))
  <2>1. SendFrame(text, "sending") /\ UNCHANGED <<source, far, hops, down, output>>
    BY <1>5 DEF SendLine, listenerVars
  <2>2. text \in Seq(ToSet(source.text))
    BY LineTypes
  <2> HIDE DEF text
  <2> QED
    BY <1>2, <2>1, <2>2
<1>6. CASE EndOfFile
  <2> DEFINE frame == IF sent = << >> THEN Encode(Data(source.dest, << >>)) ELSE << >>
  <2>1. /\ up' = up \o frame
        /\ sent' = IF frame = << >> THEN sent ELSE << << >> >>
        /\ UNCHANGED <<source, far, hops, down, output>>
    BY <1>6 DEF EndOfFile, listenerVars
  <2>2. CASE frame = << >>
    <3>1. up \in Seq(Chars)
      BY DEF TypeInv, Streams
    <3>2. up' = up /\ sent' = sent
      BY <2>1, <2>2, <3>1, ConcatEmptySeq
    <3> QED
      BY <2>1, <3>2, OriginsKept
  <2>3. CASE frame # << >>
    <3>1. sent = << >> /\ frame = Encode(Data(source.dest, << >>))
      BY <2>3
    <3>2. SendFrame(<< >>, "ok")
      <4>1. sent' = Append(sent, << >>) /\ result' = "ok"
        BY <1>6, <2>1, <2>3, <3>1 DEF EndOfFile
      <4> HIDE DEF frame
      <4> QED
        BY <2>1, <2>3, <3>1, <4>1 DEF SendFrame
    <3> DEFINE text == << >>
    <3>3. text \in Seq(ToSet(source.text)) /\ SendFrame(text, "ok")
      BY <3>2
    <3> HIDE DEF text
    <3> QED
      BY <1>2, <2>1, <3>3
  <2> QED
    BY <2>2, <2>3
<1> QED
  BY <1>1, <1>4, <1>5, <1>6

\* At the start there is no frame anywhere ...
LEMMA InitOrigins == Init => Origins
<1> SUFFICES ASSUME Init
             PROVE  Origins
  OBVIOUS
<1>1. /\ hops = << >> /\ down = << >> /\ up = << >> /\ output = << >> /\ sent = << >>
      /\ DOMAIN sent = {} /\ DOMAIN hops = {} /\ DOMAIN output = {}
  BY DEF Init
<1> DEFINE none == [i \in {} |-> {}]
<1>2. none \in [DOMAIN hops -> SUBSET DOMAIN sent] /\ DOMAIN none = {}
  BY <1>1
<1> HIDE DEF none
<1>3. Heads(down) = {} /\ Heads(up) = {}
  BY <1>1 DEF Heads
<1>4. Carries(down, {}, Frames, far) /\ Carries(up, {}, Frames, far)
  BY <1>3, CarriesNothing
<1>5. Sourced(output, {}, PartOfText(sent), far)
  <2> DEFINE o == [i \in {} |-> 0]
  <2>1. o \in [DOMAIN output -> {}]
    BY <1>1
  <2>2. SourcedBy(o, output, PartOfText(sent), far)
    BY <1>1 DEF SourcedBy
  <2> QED
    BY <2>1, <2>2 DEF Sourced
<1>6. InOrder({}, {}, none, {}, far)
  BY <1>2 DEF InOrder, Apart
<1>7. Traced({}, {}, none, {})
  BY <1>1, <1>4, <1>5, <1>6 DEF Traced
<1> QED
  BY <1>1, <1>2, <1>7 DEF Origins

\* ... and each step keeps every frame in one place, if no text looks like one.
LEMMA NextOrigins ==
    ASSUME PlainTexts
    PROVE  TypeInv /\ Origins /\ [Next]_vars => Origins'
<1> SUFFICES ASSUME TypeInv, Origins, [Next]_vars
             PROVE  Origins'
  OBVIOUS
<1>1. CASE Connect \/ SendMessage \/ SendLine \/ EndOfFile
  BY <1>1, OriginsSender
<1>2. CASE ReadSender
  BY <1>2, OriginsReadSenderNear, OriginsReadSenderFar
<1>3. CASE ReadNeighbor
  BY <1>3, OriginsReadNeighbor
<1>4. CASE ReadListener
  BY <1>4, OriginsReadListener
<1>5. CASE Listen
  <2>1. UNCHANGED <<source, far, sent, up, hops, down, output>>
    BY <1>5 DEF Listen, senderVars
  <2> QED
    BY <2>1, OriginsKept
<1>6. CASE Hear
  BY <1>6, OriginsHear
<1>7. CASE UNCHANGED vars
  <2>1. UNCHANGED <<source, far, sent, up, hops, down, output>>
    BY <1>7 DEF vars, senderVars, listenerVars
  <2> QED
    BY <2>1, OriginsKept
<1> QED
  BY <1>1, <1>2, <1>3, <1>4, <1>5, <1>6, <1>7 DEF Next

\* The lines of the file come from different frames; in their order, within one
\* router.
LEMMA OriginsFaithful == TypeInv /\ Origins => Faithful
<1> SUFFICES ASSUME TypeInv, Origins
             PROVE  Faithful
  OBVIOUS
<1>1. PICK o \in [DOMAIN output -> DOMAIN sent] : SourcedBy(o, output, PartOfText(sent), far)
  <2>1. PICK Ko \in SUBSET DOMAIN sent : Sourced(output, Ko, PartOfText(sent), far)
    BY DEF Origins, Traced
  <2>2. PICK o \in [DOMAIN output -> Ko] : SourcedBy(o, output, PartOfText(sent), far)
    BY <2>1 DEF Sourced
  <2>3. o \in [DOMAIN output -> DOMAIN sent]
    OBVIOUS
  <2> QED
    BY <2>2, <2>3
<1>2. output \in Seq(Seq(Chars)) /\ DOMAIN output = 1 .. Len(output)
  BY LenProperties DEF TypeInv, Streams
<1>3. \A i, j \in DOMAIN output : i # j => i < j \/ j < i
  BY <1>2
<1>4. \A i, j \in DOMAIN output : i < j => o[i] # o[j] /\ (far \/ o[i] < o[j])
  BY <1>1 DEF SourcedBy, Precedes
<1>5. o \in Injection(DOMAIN output, DOMAIN sent)
  <2>1. \A i, j \in DOMAIN output : o[i] = o[j] => i = j
    BY <1>3, <1>4
  <2>2. o \in [DOMAIN output -> DOMAIN sent]
    OBVIOUS
  <2> QED
    BY <2>1, <2>2 DEF Injection, IsInjective
<1>6. ASSUME NEW i \in DOMAIN output
      PROVE  IsPrefix(output[i], sent[o[i]])
  <2>1. output[i] \in Seq(Chars) /\ o[i] \in DOMAIN sent /\ Begins(output[i], sent[o[i]])
    BY <1>1 DEF SourcedBy, PartOfText
  <2>2. sent[o[i]] \in Seq(Chars)
    <3>1. source \in Sources /\ sent \in Seq(Seq(ToSet(source.text)))
      BY DEF TypeInv, TypeOK, Streams
    <3>2. ToSet(source.text) \subseteq Chars
      BY <3>1, Characters
    <3>3. sent \in Seq(Seq(Chars))
      BY <3>1, <3>2, SeqOfSeqMonotonic
    <3> QED
      BY <2>1, <3>3, ElementOfSeq
  <2> QED
    BY <2>1, <2>2, BeginningIsPrefix
<1> QED
  BY <1>4, <1>5, <1>6 DEF Faithful

\* When no text has a type word in it: wherever TCP cuts the streams, whatever
\* connection fails and whatever is dropped, each line of the listener's file is the beginning
\* of a text that was sent, no two lines come from the same, and within one
\* router they keep the order of sending.
THEOREM FramesStayFaithful ==
    ASSUME PlainTexts
    PROVE  Spec => []Faithful
<1>1. Init => TypeInv /\ Origins
  BY InitTypes, InitOrigins
<1>2. TypeInv /\ Origins /\ [Next]_vars => (TypeInv /\ Origins)'
  BY NextTypes, NextOrigins
<1>3. TypeInv /\ Origins => Faithful
  BY OriginsFaithful
<1> QED
  BY <1>1, <1>2, <1>3, PTL DEF Spec

-----------------------------------------------------------------------------
(* For which host.                                                          *)

\* What the loop of `listening` takes from a chunk with a line end are its lines,
\* less one CR each.
LEMMA DispatchedLines ==
    ASSUME NEW S, NEW chunk \in Seq(S), NEW k \in 1 .. Len(chunk), chunk[k] = "LF",
           NEW type, NEW i \in DOMAIN OfType(Dispatched(chunk), type)
    PROVE  /\ Decode(OfType(Dispatched(chunk), type)[i]).type = type
           /\ \E j \in DOMAIN Lines(chunk) :
                  OfType(Dispatched(chunk), type)[i] = WithoutCR(Lines(chunk)[j])
<1> DEFINE texts == Dispatched(chunk)
           lines == [j \in DOMAIN Lines(chunk) |-> WithoutCR(Lines(chunk)[j])]
           D     == {j \in DOMAIN lines : lines[j] # << >>}
<1>1. Lines(chunk) \in Seq(Seq(S)) /\ Lines(chunk) # << >> /\ texts \in Seq(Seq(S))
  BY LinesArePlaced, DispatchedInLines
<1>2. lines \in Seq(Seq(S)) /\ DOMAIN lines = DOMAIN Lines(chunk) /\ lines # << >>
  <2>1. Len(Lines(chunk)) \in Nat /\ DOMAIN Lines(chunk) = 1 .. Len(Lines(chunk)) /\ Len(Lines(chunk)) # 0
    BY <1>1, LenProperties, EmptySeq
  <2>2. \A j \in DOMAIN Lines(chunk) : WithoutCR(Lines(chunk)[j]) \in Seq(S)
    BY <1>1, ElementOfSeq, LineWithoutCR
  <2>3. lines \in Seq(Seq(S)) /\ Len(lines) = Len(Lines(chunk))
    BY <2>1, <2>2
  <2> QED
    BY <2>1, <2>3
<1>3. texts = At(lines, D)
  BY <1>2 DEF Dispatched
<1>4. D \in SUBSET DOMAIN lines
  OBVIOUS
<1> HIDE DEF lines, D, texts
<1>5. \A n \in DOMAIN texts : \E j \in DOMAIN lines : texts[n] = lines[j]
  <2>1. \A n \in DOMAIN At(lines, D) :
            Ascending(D)[n] \in D /\ At(lines, D)[n] = lines[Ascending(D)[n]]
    BY <1>2, <1>4, AtProperties
  <2> QED
    BY <1>3, <1>4, <2>1
<1>6. PICK n \in DOMAIN texts : OfType(texts, type)[i] = texts[n]
  <2>1. i \in DOMAIN OfType(texts, type)
    BY DEF texts
  <2> QED
    BY <1>1, <2>1, OfTypeTexts
<1>7. Decode(OfType(texts, type)[i]).type = type
  <2>1. i \in DOMAIN OfType(texts, type)
    BY DEF texts
  <2> QED
    BY <1>1, <2>1, OfTypeTexts
<1>8. PICK j \in DOMAIN lines : texts[n] = lines[j]
  BY <1>5
<1>9. lines[j] = WithoutCR(Lines(chunk)[j]) /\ j \in DOMAIN Lines(chunk)
  BY <1>2, <1>8 DEF lines
<1> QED
  BY <1>6, <1>7, <1>8, <1>9 DEF texts

\* A whole ANNOUNCE frame, in one chunk, announces its address.
LEMMA Announced ==
    ASSUME NEW ip \in Addresses, NEW chunk,
           chunk = FrameText([type |-> "ANNOUNCE", ip |-> ip]),
           NEW i \in DOMAIN OfType(Dispatched(chunk), "ANNOUNCE")
    PROVE  Decode(OfType(Dispatched(chunk), "ANNOUNCE")[i]).ip = ip
<1>1. ip \in Seq(Chars) /\ "ANNOUNCE" \in Chars /\ "|" \in Chars /\ "LF" \in Chars /\ "ANNOUNCE" \in Types \ {"DATA"}
  BY Characters DEF Types
<1>2. /\ chunk \in Seq(Chars) /\ Len(chunk) = Len(ip) + 3
      /\ chunk[1] = "ANNOUNCE" /\ chunk[2] = "|" /\ chunk[Len(chunk)] = "LF"
      /\ \A j \in 1 .. Len(ip) : chunk[j + 2] = ip[j]
  BY <1>1, OtherFrame
<1>3. Len(ip) \in Nat /\ \A j \in 1 .. Len(ip) : ip[j] # "LF" /\ ip[j] # "CR"
  BY AddressCharacters DEF Kept, LineEnds
<1>4. ASSUME NEW p \in 1 .. Len(ip) + 3, p # Len(ip) + 3
      PROVE  chunk[p] # "LF" /\ (p = Len(ip) + 2 => chunk[p] # "CR")
  <2>1. CASE p = 1 \/ p = 2
    <3>1. chunk[p] = "ANNOUNCE" \/ chunk[p] = "|"
      BY <1>2, <2>1
    <3> QED
      BY <3>1
  <2>2. CASE ~ (p = 1 \/ p = 2)
    <3>1. p - 2 \in 1 .. Len(ip) /\ (p - 2) + 2 = p
      BY <1>3, <1>4, <2>2
    <3> QED
      BY <1>2, <1>3, <3>1
  <2> QED
    BY <2>1, <2>2
<1> DEFINE t == OfType(Dispatched(chunk), "ANNOUNCE")[i]
<1>5. Len(chunk) \in 1 .. Len(chunk)
  BY <1>2, <1>3
<1>6. Decode(t).type = "ANNOUNCE" /\ \E j \in DOMAIN Lines(chunk) : t = WithoutCR(Lines(chunk)[j])
  BY <1>2, <1>5, DispatchedLines
<1> HIDE DEF t
<1>7. PICK j \in DOMAIN Lines(chunk) : t = WithoutCR(Lines(chunk)[j])
  BY <1>6
<1>8. PICK a \in [DOMAIN Lines(chunk) -> Nat \ {0}] :
          /\ PlacedAt(a, Lines(chunk), chunk)
          /\ \A m \in DOMAIN Lines(chunk) : /\ a[m] + Len(Lines(chunk)[m]) \in 1 .. Len(chunk)
                                            /\ chunk[a[m] + Len(Lines(chunk)[m])] = "LF"
  BY <1>2, LinesArePlaced
<1> DEFINE l == Lines(chunk)[j]
           b == a[j]
           n == Len(l)
<1>9. l \in Seq(Chars) /\ n \in Nat
  BY <1>2, <1>7, LinesArePlaced, ElementOfSeq, LenProperties
<1>10. /\ b \in Nat \ {0} /\ b + n \in 1 .. Len(chunk) /\ chunk[b + n] = "LF"
       /\ \A q \in 1 .. n : l[q] = chunk[b + q - 1]
       /\ b = 1 \/ chunk[b - 1] = "LF"
  BY <1>7, <1>8 DEF PlacedAt
<1>11. t = WithoutCR(l)
  BY <1>7
<1> HIDE DEF l, b, n
<1>12. b + n = Len(ip) + 3
  BY <1>2, <1>4, <1>10
<1>13. b = 1
  <2>1. CASE b # 1
    <3>1. b - 1 \in 1 .. Len(ip) + 3 /\ b - 1 # Len(ip) + 3
      BY <1>3, <1>9, <1>10, <1>12, <2>1
    <3> QED
      BY <1>4, <1>10, <2>1, <3>1
  <2> QED
    BY <2>1
<1>14. n = Len(ip) + 2
  BY <1>3, <1>9, <1>12, <1>13
<1>15. \A q \in 1 .. Len(ip) + 2 : l[q] = chunk[q]
  <2>1. \A q \in 1 .. n : 1 + q - 1 = q
    BY <1>9
  <2> QED
    BY <1>10, <1>13, <1>14, <2>1
<1>16. t = l
  <2>1. Len(ip) + 2 \in 1 .. Len(ip) + 2 /\ Len(ip) + 2 \in 1 .. Len(ip) + 3 /\ Len(ip) + 2 # Len(ip) + 3
    BY <1>3
  <2>2. l[Len(l)] # "CR"
    BY <1>4, <1>14, <1>15, <2>1 DEF n
  <2>3. l # << >>
    BY <1>3, <1>14 DEF n
  <2> QED
    BY <1>9, <1>11, <2>2, <2>3, LineWithoutCR
<1>17. /\ l[1] = "ANNOUNCE" /\ l[2] = "|"
       /\ \A q \in 1 .. Len(ip) : l[q + 2] = ip[q]
  <2>1. 1 \in 1 .. Len(ip) + 2 /\ 2 \in 1 .. Len(ip) + 2 /\ \A q \in 1 .. Len(ip) : q + 2 \in 1 .. Len(ip) + 2
    BY <1>3
  <2> QED
    BY <1>2, <1>15, <2>1
<1>18. Decode(l).type \in Types /\ Len(l) = Len(ip) + 2
  BY <1>6, <1>14, <1>16 DEF Types, n
<1>19. Decode(l).ip = ip
  BY <1>1, <1>9, <1>17, <1>18, DecodedAnnounce
<1> QED
  BY <1>16, <1>19 DEF t

\* A recv that ends within a line is counted, and no other makes cuts grow.
LEMMA UncutChunk ==
    ASSUME TypeInv, NEW stream \in Seq(Chars), NEW chunk \in Chunks(stream), cuts + Cut(chunk) = 0
    PROVE  cuts = 0 /\ Last(chunk) = "LF"
BY ChunkShape DEF TypeInv, TypeOK

\* The line of an ANNOUNCE that is dispatched lies in the chunk, from an
\* ANNOUNCE on.
LEMMA AnnounceInChunk ==
    ASSUME NEW chunk \in Seq(Chars), NEW i \in DOMAIN OfType(Dispatched(chunk), "ANNOUNCE")
    PROVE  LET line == LineOf(OfType(Dispatched(chunk), "ANNOUNCE")[i])
           IN  /\ line \in Seq(Chars)
               /\ \E p \in 1 .. Len(chunk) :
                     /\ chunk[p] = "ANNOUNCE" /\ p + Len(line) - 1 <= Len(chunk)
                     /\ \A q \in 1 .. Len(line) : line[q] = chunk[p + q - 1] /\ line[q] # "LF"
<1> DEFINE texts == Dispatched(chunk)
           t     == OfType(texts, "ANNOUNCE")[i]
           line  == LineOf(t)
<1>1. texts \in Seq(Seq(Chars)) /\ InLines(texts, chunk) /\ Len(chunk) \in Nat
  BY DispatchedInLines, LenProperties
<1>2. t \in Seq(Chars) /\ Decode(t).type = "ANNOUNCE" /\ \E j \in DOMAIN texts : t = texts[j]
  BY <1>1, OfTypeTexts
<1> HIDE DEF t, texts
<1>3. PICK j \in DOMAIN texts : t = texts[j]
  BY <1>2
<1>4. PICK a \in [DOMAIN texts -> Nat \ {0}] : PlacedAt(a, texts, chunk)
  BY <1>1 DEF InLines
<1>5. /\ a[j] \in Nat \ {0} /\ a[j] + Len(t) - 1 <= Len(chunk) /\ Len(t) \in Nat
      /\ \A q \in 1 .. Len(t) : t[q] = chunk[a[j] + q - 1] /\ t[q] # "LF"
  BY <1>2, <1>3, <1>4, LenProperties DEF PlacedAt
<1>6. PICK m \in 1 .. Len(t) + 1, n \in 0 .. Len(t) : line = SubSeq(t, m, n)
  BY <1>2, LineOfShape
<1>7. /\ line \in Seq(Chars) /\ Len(line) = IF m <= n THEN n - m + 1 ELSE 0
      /\ \A q \in 1 .. Len(line) : line[q] = t[m + q - 1]
  BY <1>2, <1>5, <1>6, SubSeqShape
<1>8. line # << >> /\ line[1] = "ANNOUNCE"
  BY <1>2, DecodedShape DEF Types
<1> HIDE DEF line
<1>9. Len(line) = n - m + 1 /\ m <= n
  BY <1>5, <1>7, <1>8, EmptySeq
<1>10. ASSUME NEW q \in 1 .. Len(line)
       PROVE  line[q] = chunk[(a[j] + m - 1) + q - 1] /\ line[q] # "LF"
  <2>1. m + q - 1 \in 1 .. Len(t) /\ a[j] + (m + q - 1) - 1 = (a[j] + m - 1) + q - 1
    BY <1>5, <1>9
  <2> QED
    BY <1>5, <1>7, <2>1
<1>11. a[j] + m - 1 \in 1 .. Len(chunk) /\ (a[j] + m - 1) + Len(line) - 1 <= Len(chunk)
  <2>1. \A b \in Nat \ {0}, l \in Nat :
            b + Len(t) - 1 <= Len(chunk) /\ l = n - m + 1 =>
                b + m - 1 \in 1 .. Len(chunk) /\ (b + m - 1) + l - 1 <= Len(chunk)
    BY <1>1, <1>5, <1>9
  <2>2. Len(line) \in Nat
    BY <1>7, LenProperties
  <2> QED
    BY <1>5, <1>9, <2>1, <2>2
<1>12. chunk[a[j] + m - 1] = "ANNOUNCE"
  <2>1. 1 \in 1 .. Len(line) /\ (a[j] + m - 1) + 1 - 1 = a[j] + m - 1
    BY <1>5, <1>9
  <2> QED
    BY <1>8, <1>10, <2>1
<1> QED
  BY <1>7, <1>10, <1>11, <1>12 DEF line, t, texts

\* Wherever a recv cuts an announcement, the address that is read is one that
\* the announced address begins with.
LEMMA BeginningAnnounced ==
    ASSUME NEW ip \in Addresses, NEW chunk \in Seq(Chars),
           Begins(chunk, FrameText([type |-> "ANNOUNCE", ip |-> ip])),
           NEW i \in DOMAIN OfType(Dispatched(chunk), "ANNOUNCE")
    PROVE  /\ Decode(OfType(Dispatched(chunk), "ANNOUNCE")[i]).ip \in Addresses
           /\ IsPrefix(Decode(OfType(Dispatched(chunk), "ANNOUNCE")[i]).ip, ip)
<1> DEFINE f    == FrameText([type |-> "ANNOUNCE", ip |-> ip])
           t    == OfType(Dispatched(chunk), "ANNOUNCE")[i]
           line == LineOf(t)
           rest == After(line, "|")
           n    == Len(line)
<1>1. ip \in Seq(Chars) /\ "ANNOUNCE" \in Chars /\ "|" \in Chars /\ "LF" \in Chars /\ "ANNOUNCE" \in Types \ {"DATA"}
  BY Characters DEF Types
<1>2. /\ Len(f) = Len(ip) + 3 /\ f[1] = "ANNOUNCE" /\ f[2] = "|" /\ f[Len(f)] = "LF"
      /\ \A j \in 1 .. Len(ip) : f[j + 2] = ip[j]
  BY <1>1, OtherFrame
<1>3. Len(ip) \in Nat /\ \A j \in 1 .. Len(ip) : ip[j] # "ANNOUNCE"
  BY AddressCharacters DEF Types
<1>4. Len(chunk) \in Nat /\ Len(chunk) <= Len(f) /\ \A j \in 1 .. Len(chunk) : chunk[j] = f[j]
  BY LenProperties DEF Begins
<1>5. /\ line \in Seq(Chars)
      /\ \E p \in 1 .. Len(chunk) :
            /\ chunk[p] = "ANNOUNCE" /\ p + n - 1 <= Len(chunk)
            /\ \A q \in 1 .. n : line[q] = chunk[p + q - 1] /\ line[q] # "LF"
  BY AnnounceInChunk
<1>6. t \in Seq(Chars) /\ Decode(t).type = "ANNOUNCE"
  BY DispatchedInLines, OfTypeTexts
<1> HIDE DEF t, f
<1>7. /\ \E k \in 1 .. n : line[k] = "|"
      /\ line[1] = "ANNOUNCE"
      /\ \A k \in 1 .. Len(rest) : rest[k] # "|"
      /\ Decode(t).ip = Before(rest, "|") /\ Decode(t).ip \in Addresses
  BY <1>6, DecodedShape DEF Types
<1> HIDE DEF line
<1>8. PICK p \in 1 .. Len(chunk) :
          /\ chunk[p] = "ANNOUNCE" /\ p + n - 1 <= Len(chunk)
          /\ \A q \in 1 .. n : line[q] = chunk[p + q - 1] /\ line[q] # "LF"
  BY <1>5
<1>9. p = 1
  <2>1. f[p] = "ANNOUNCE" /\ p \in 1 .. Len(ip) + 3
    BY <1>2, <1>3, <1>4, <1>8
  <2>2. CASE p - 2 \in 1 .. Len(ip)
    <3>1. (p - 2) + 2 = p
      BY <2>1
    <3> QED
      BY <1>2, <1>3, <2>1, <2>2, <3>1
  <2>3. p = 1 \/ p = 2 \/ p - 2 \in 1 .. Len(ip) \/ p = Len(f)
    BY <1>2, <1>3, <2>1
  <2> QED
    BY <1>2, <2>1, <2>2, <2>3
<1>10. n \in Nat /\ n <= Len(chunk) /\ \A q \in 1 .. n : line[q] = f[q] /\ f[q] # "LF"
  <2>1. n \in Nat
    BY <1>5, LenProperties
  <2>2. n <= Len(chunk)
    BY <1>4, <1>8, <1>9, <2>1
  <2>3. \A q \in 1 .. n : 1 + q - 1 = q /\ q \in 1 .. Len(chunk)
    BY <1>4, <2>1, <2>2
  <2> QED
    BY <1>4, <1>8, <1>9, <2>1, <2>2, <2>3
<1>11. n <= Len(ip) + 2
  <2> SUFFICES ASSUME n > Len(ip) + 2
               PROVE  FALSE
    BY <1>3, <1>10
  <2>1. Len(f) \in 1 .. n
    BY <1>2, <1>3, <1>4, <1>10
  <2> QED
    BY <1>2, <1>10, <2>1
<1>12. n >= 2
  <2>1. PICK k \in 1 .. n : line[k] = "|"
    BY <1>7
  <2>2. k # 1
    BY <1>7, <2>1
  <2> QED
    BY <1>10, <2>1, <2>2
<1>13. rest = SubSeq(line, 3, n)
  <2>1. 2 \in 1 .. n /\ line[2] = "|" /\ \A j \in 1 .. 2 - 1 : line[j] # "|"
    BY <1>2, <1>7, <1>10, <1>12
  <2>2. After(line, "|") = SubSeq(line, 2 + 1, n)
    BY <1>5, <2>1, FirstPlace
  <2> QED
    BY <2>2
<1>14. /\ rest \in Seq(Chars) /\ Len(rest) = n - 2
       /\ \A j \in 1 .. Len(rest) : rest[j] = line[3 + j - 1]
  <2> DEFINE u == SubSeq(line, 3, n)
  <2>1. 3 \in Nat \ {0} /\ n \in Int /\ n <= Len(line)
    BY <1>10
  <2>2. /\ u \in Seq(Chars) /\ Len(u) = IF 3 <= n THEN n - 3 + 1 ELSE 0
        /\ \A j \in 1 .. Len(u) : u[j] = line[3 + j - 1]
    BY <1>5, <2>1, SubSeqShape
  <2> HIDE DEF u
  <2>3. Len(u) = n - 2
    <3>1. \A m \in Nat : m >= 2 => (IF 3 <= m THEN m - 3 + 1 ELSE 0) = m - 2
      OBVIOUS
    <3>2. n \in Nat
      BY <1>10
    <3> QED
      BY <1>12, <2>2, <3>1, <3>2
  <2>4. rest = u
    BY <1>13 DEF u
  <2> QED
    BY <2>2, <2>3, <2>4
<1> HIDE DEF rest
<1>15. \A j \in 1 .. Len(rest) : rest[j] = ip[j]
  <2> TAKE j \in 1 .. Len(rest)
  <2>1. 3 + j - 1 = j + 2 /\ j + 2 \in 1 .. n /\ j \in 1 .. Len(ip)
    BY <1>3, <1>10, <1>11, <1>14
  <2> QED
    BY <1>2, <1>10, <1>14, <2>1
<1>16. Begins(rest, ip)
  BY <1>3, <1>10, <1>11, <1>14, <1>15 DEF Begins
<1>17. Before(rest, "|") = rest
  BY <1>7, <1>14, NoPlace
<1>18. IsPrefix(rest, ip)
  BY <1>1, <1>14, <1>16, BeginningIsPrefix
<1> QED
  BY <1>7, <1>17, <1>18 DEF t

\* What the listener's router delivers is for an address of its table.
LEMMA DeliveredToHost ==
    ASSUME TypeInv, NEW texts \in Seq(Seq(Chars)), DeliverToHost(texts),
           NEW K \in SUBSET DOMAIN sent, Sourced(OfType(texts, "DATA"), K, PartOfFrame(Frames), far),
           NEW A, table \subseteq A, Heads(down) # {} => source.dest \in A
    PROVE  Heads(down') # {} => source.dest \in A
<1> DEFINE u == OfType(texts, "DATA")
<1>1. down \in Seq(Chars) /\ Whole(down) /\ missed \in BOOLEAN
  BY DEF TypeInv, TypeOK, Streams
<1>2. PICK D \in SUBSET DOMAIN u :
          /\ At(u, D) \in Seq(Seq(Chars))
          /\ \A i \in D : Decode(u[i]).ip \in table
          /\ down' = down \o FlattenSeq(AllForwarded(At(u, D)))
  BY <1>1, Delivered
<1>3. CASE D = {}
  <2>1. At(u, D) = << >>
    <3>1. Cardinality(D) = 0
      BY <1>3, FS_EmptySet
    <3>2. Len(At(u, D)) = Cardinality(D)
      BY OfTypeTexts, AtProperties
    <3> HIDE DEF u
    <3> QED
      BY <1>2, <3>1, <3>2, EmptySeq
  <2>2. AllForwarded(<< >>) = << >>
    BY DEF AllForwarded
  <2>3. FlattenSeq(<< >>) = << >>
    BY DEF FlattenSeq
  <2>4. down' = down
    BY <1>1, <1>2, <2>1, <2>2, <2>3, ConcatEmptySeq
  <2> QED
    BY <2>4
<1>4. CASE D # {}
  <2>1. PICK i \in D : TRUE
    BY <1>4
  <2>2. PICK o \in [DOMAIN u -> K] : SourcedBy(o, u, PartOfFrame(Frames), far)
    BY DEF Sourced
  <2>3. i \in DOMAIN u /\ Decode(u[i]).ip \in table /\ Decode(u[i]).type = "DATA"
    BY <1>2, <2>1, OfTypeTexts
  <2> DEFINE k == o[i]
             t == u[i]
             x == sent[k]
             ip == source.dest
  <2>4. k \in DOMAIN sent
    BY <2>2, <2>3
  <2>5. ip \in Addresses /\ x \in Seq(Chars) /\ ip \in Seq(Chars)
        /\ "DATA" \in Chars /\ "|" \in Chars /\ "LF" \in Chars
    <3>1. sent # << >>
      BY <2>4
    <3>2. sent \in Seq(Seq(ToSet(source.text))) /\ source \in Sources /\ source.dest \in Addresses
      BY <3>1 DEF TypeInv, TypeOK, Streams
    <3>3. x \in Seq(ToSet(source.text))
      BY <2>4, <3>2, ElementOfSeq
    <3> QED
      BY <3>2, <3>3, FrameCharacters, Characters DEF Types
  <2>6. <<t, k>> \in PartOfFrame(Frames)
    BY <2>2, <2>3 DEF SourcedBy
  <2>7. /\ t \in Seq(Chars) /\ Begins(t, Frames[k])
        /\ \A q \in 1 .. Len(t) : t[q] # "LF" /\ (q # 1 => t[q] # "DATA")
    BY <2>6 DEF PartOfFrame
  <2>8. Frames[k] = FrameText(Data(ip, x))
    BY <2>4 DEF Frames
  <2>9. Decode(t).type = "DATA" /\ Decode(t).ip \in A
    BY <2>3
  <2> HIDE DEF t, x, ip
  <2>10. Decode(t).ip = ip
    BY <2>5, <2>7, <2>8, <2>9, DecodedData
  <2> QED
    BY <2>9, <2>10 DEF ip
<1> QED
  BY <1>3, <1>4

\* The routers read frames.
LEMMA HostFrames ==
    ASSUME TypeInv, Origins, OneHost, ReadSender \/ ReadNeighbor
    PROVE  OneHost'
<1>1. PICK Ko \in SUBSET DOMAIN sent, Kd \in SUBSET DOMAIN sent, Ku \in SUBSET DOMAIN sent,
           Kh \in [DOMAIN hops -> SUBSET DOMAIN sent] : Traced(Ko, Kd, Kh, Ku)
  BY DEF Origins
<1>2. ASSUME NEW stream \in Seq(Chars), NEW chunk \in Chunks(stream),
             NEW K \in SUBSET DOMAIN sent, Carries(stream, K, Frames, far),
             cuts' = cuts + Cut(chunk),
             DeliverToHost(Dispatched(chunk)) \/ UNCHANGED down,
             UNCHANGED <<source, host, hello, table, output>>
      PROVE  OneHost'
  <2>1. cuts' = 0 => cuts = 0
    BY <1>2, UncutChunk
  <2>2. PICK K1 \in SUBSET K : Sourced(OfType(Dispatched(chunk), "DATA"), K1, PartOfFrame(Frames), far)
    BY <1>2, ChunkOrigins
  <2>3. Dispatched(chunk) \in Seq(Seq(Chars)) /\ K1 \in SUBSET DOMAIN sent
    BY <1>2, ChunkTypes
  <2>4. ASSUME NEW A, Only(A)
        PROVE  table' \subseteq A /\ (Heads(down') # {} \/ output' # << >> => source'.dest \in A)
    <3>1. CASE DeliverToHost(Dispatched(chunk))
      <4>1. Heads(down') # {} => source.dest \in A
        BY <2>2, <2>3, <2>4, <3>1, DeliveredToHost DEF Only
      <4> QED
        BY <1>2, <2>4, <4>1 DEF Only
    <3>2. CASE UNCHANGED down
      BY <1>2, <2>4, <3>2 DEF Only
    <3> QED
      BY <1>2, <3>1, <3>2
  <2>5. Only(Beginnings)' /\ (Only({host}) => Only({host})')
    BY <1>2, <2>4 DEF OneHost, Only, Beginnings
  <2> QED
    BY <1>2, <2>1, <2>5 DEF OneHost, Announcement
<1>3. CASE ReadSender
  <2>1. PICK chunk \in Chunks(up) :
            /\ cuts' = cuts + Cut(chunk)
            /\ DeliverToHost(Dispatched(chunk)) \/ UNCHANGED down
            /\ UNCHANGED <<source, host, hello, table, output>>
    BY <1>3 DEF ReadSender, listenerVars
  <2>2. up \in Seq(Chars)
    BY DEF TypeInv, Streams
  <2>3. Carries(up, Ku, Frames, far)
    BY <1>1 DEF Traced
  <2> QED
    BY <1>2, <2>1, <2>2, <2>3
<1>4. CASE ReadNeighbor
  <2> DEFINE Step(i, chunk) ==
                 /\ cuts' = cuts + Cut(chunk)
                 /\ DeliverToHost(Dispatched(chunk))
                 /\ UNCHANGED <<source, host, hello, table, output>>
  <2>1. PICK i \in DOMAIN hops : \E chunk \in Chunks(hops[i]) : Step(i, chunk)
    BY <1>4 DEF ReadNeighbor, listenerVars
  <2>2. PICK chunk \in Chunks(hops[i]) : Step(i, chunk)
    BY <2>1
  <2>3. hops[i] \in Seq(Chars)
    <3>1. hops \in Seq(Seq(Chars))
      BY DEF TypeInv, Streams
    <3> QED
      BY <2>1, <3>1, ElementOfSeq
  <2>4. Carries(hops[i], Kh[i], Frames, far) /\ Kh[i] \in SUBSET DOMAIN sent
    BY <1>1, <2>1 DEF Traced
  <2> QED
    BY <1>2, <2>2, <2>3, <2>4
<1> QED
  BY <1>3, <1>4

\* The listener's router reads what the listener announces.
LEMMA HostAnnounced ==
    ASSUME TypeInv, OneHost, ReadListener
    PROVE  OneHost'
<1> DEFINE f == Announcement
<1>1. PICK chunk \in Chunks(hello) :
          LET announces == OfType(Dispatched(chunk), "ANNOUNCE")
          IN  /\ hello' = Rest(hello, chunk)
              /\ cuts' = cuts + Cut(chunk)
              /\ table' = table \cup ({Decode(announces[i]).ip : i \in DOMAIN announces} \cap ToSet(Hosts))
              /\ down' = down \o FlattenSeq(Replies(announces))
              /\ UNCHANGED <<source, host, far, senderVars, up, hops, listenerVars, missed>>
  BY ReadListenerStep
<1> DEFINE announces == OfType(Dispatched(chunk), "ANNOUNCE")
           read      == {Decode(announces[i]).ip : i \in DOMAIN announces}
<1>2. hello \in Seq(Chars) /\ down \in Seq(Chars) /\ host \in Addresses
  BY Characters DEF TypeInv, TypeOK, Streams
<1>3. PICK k \in 1 .. Len(hello) : chunk = SubSeq(hello, 1, k)
  BY <1>1, <1>2, ChunkShape DEF TypeInv, TypeOK
<1>4. /\ chunk \in Seq(Chars) /\ Len(chunk) = k /\ Len(hello) \in Nat
      /\ \A i \in 1 .. k : chunk[i] = hello[i]
      /\ Rest(hello, chunk) \in Seq(Chars) /\ Len(Rest(hello, chunk)) = Len(hello) - k
      /\ \A i \in 1 .. Len(hello) - k : Rest(hello, chunk)[i] = hello[k + i]
  <2>1. k \in 0 .. Len(hello)
    BY <1>2, <1>3
  <2> QED
    BY <1>2, <1>3, <2>1, Split
<1>5. hello = f \/ \A p \in 1 .. Len(hello) : hello[p] # "ANNOUNCE"
  BY DEF OneHost
<1>6. /\ Len(f) = Len(host) + 3 /\ f[1] = "ANNOUNCE" /\ f[2] = "|" /\ f[Len(f)] = "LF"
      /\ \A i \in 1 .. Len(host) : f[i + 2] = host[i]
  <2>1. host \in Seq(Chars) /\ "ANNOUNCE" \in Chars /\ "|" \in Chars /\ "LF" \in Chars /\ "ANNOUNCE" \in Types \ {"DATA"}
    BY <1>2, Characters DEF Types
  <2> QED
    BY <2>1, OtherFrame DEF Announcement
<1>7. Len(host) \in Nat /\ \A i \in 1 .. Len(host) : host[i] # "LF" /\ host[i] # "ANNOUNCE"
  BY <1>2, AddressCharacters DEF Kept, LineEnds, Types
<1>8. ASSUME NEW p \in 1 .. Len(f)
      PROVE  /\ f[p] = "ANNOUNCE" => p = 1
             /\ f[p] = "LF" => p = Len(f)
  <2>1. CASE p - 2 \in 1 .. Len(host)
    <3>1. (p - 2) + 2 = p
      BY <1>6, <1>7
    <3> QED
      BY <1>6, <1>7, <2>1, <3>1
  <2>2. p = 1 \/ p = 2 \/ p - 2 \in 1 .. Len(host) \/ p = Len(f)
    BY <1>6, <1>7
  <2> QED
    BY <1>6, <2>1, <2>2
<1> HIDE DEF f
<1>9. hello' = f \/ \A p \in 1 .. Len(hello') : hello'[p] # "ANNOUNCE"
  <2> DEFINE rest == Rest(hello, chunk)
  <2>1. hello' = rest
    BY <1>1
  <2>2. ASSUME NEW p \in 1 .. Len(rest)
        PROVE  rest[p] # "ANNOUNCE"
    <3>1. p \in 1 .. Len(hello) - k /\ k + p \in 1 .. Len(hello) /\ k + p # 1
      BY <1>3, <1>4
    <3>2. rest[p] = hello[k + p]
      BY <1>4, <3>1
    <3> QED
      BY <1>5, <1>8, <3>1, <3>2
  <2> QED
    BY <2>1, <2>2
<1>10. read \subseteq Beginnings
  <2> SUFFICES ASSUME NEW i \in DOMAIN announces
               PROVE  Decode(announces[i]).ip \in Beginnings
    OBVIOUS
  <2>1. CASE hello = f
    <3>1. Begins(chunk, Announcement)
      BY <1>3, <1>4, <2>1 DEF Begins, f
    <3> QED
      BY <1>2, <1>4, <3>1, BeginningAnnounced DEF Beginnings, Announcement
  <2>2. CASE \A p \in 1 .. Len(hello) : hello[p] # "ANNOUNCE"
    <3>1. PICK p \in 1 .. Len(chunk) : chunk[p] = "ANNOUNCE"
      BY <1>4, AnnounceInChunk
    <3>2. p \in 1 .. k /\ p \in 1 .. Len(hello)
      BY <1>3, <1>4
    <3> QED
      BY <1>4, <2>2, <3>1, <3>2
  <2> QED
    BY <1>5, <2>1, <2>2
<1>11. ASSUME cuts' = 0
       PROVE  cuts = 0 /\ hello' = << >> /\ read \subseteq {host}
  <2>1. cuts = 0 /\ Last(chunk) = "LF"
    BY <1>1, <1>2, <1>11, UncutChunk
  <2>2. hello \in {<< >>, f}
    BY <2>1 DEF OneHost, f
  <2>3. hello = f
    <3>1. Len(hello) # 0
      BY <1>3, <1>4
    <3> QED
      BY <2>2, <3>1
  <2>4. k = Len(f)
    <3>1. Last(chunk) = chunk[k] /\ k \in 1 .. k /\ k \in 1 .. Len(f)
      BY <1>3, <1>4, <2>3 DEF Last
    <3> QED
      BY <1>4, <1>8, <2>1, <2>3, <3>1
  <2>5. chunk = f
    BY <1>2, <1>3, <2>3, <2>4, SubSeqFull
  <2>6. hello' = << >>
    <3>1. Len(Rest(hello, chunk)) = 0
      BY <1>4, <2>3, <2>4
    <3>2. hello' = Rest(hello, chunk)
      BY <1>1
    <3> QED
      BY <1>4, <3>1, <3>2, EmptySeq
  <2>7. \A i \in DOMAIN announces : Decode(announces[i]).ip = host
    BY <1>2, <2>5, Announced DEF f, Announcement
  <2> HIDE DEF announces
  <2> QED
    BY <2>1, <2>6, <2>7
<1>12. Heads(down') # {} => Heads(down) # {}
  <2>1. Dispatched(chunk) \in Seq(Seq(Chars))
    BY <1>4, DispatchedInLines
  <2>2. announces \in Seq(Seq(Chars))
    BY <2>1, OfTypeTexts
  <2>3. down' = down \o FlattenSeq(Replies(announces))
    BY <1>1
  <2> HIDE DEF announces
  <2>4. FlattenSeq(Replies(announces)) \in Seq(Chars) /\ Heads(FlattenSeq(Replies(announces))) = {}
    BY <2>2, ReplyTypes, RepliesHeadless
  <2> QED
    BY <1>2, <2>3, <2>4, HeadsJoined
<1>13. UNCHANGED <<source, host, output>> /\ table' \subseteq table \cup read
  BY <1>1 DEF listenerVars
<1> HIDE DEF read
<1>14. ASSUME NEW A, Only(A), read \subseteq A
       PROVE  table' \subseteq A /\ (Heads(down') # {} \/ output' # << >> => source'.dest \in A)
  BY <1>12, <1>13, <1>14 DEF Only
<1>15. Only(Beginnings)'
  BY <1>10, <1>13, <1>14 DEF OneHost, Only, Beginnings
<1>16. cuts' = 0 => hello' = << >> /\ Only({host})'
  BY <1>11, <1>13, <1>14 DEF OneHost, Only
<1> QED
  BY <1>9, <1>13, <1>15, <1>16 DEF OneHost, f, Announcement

\* The listener takes messages only from a stream with frames.
LEMMA HostHeard ==
    ASSUME TypeInv, Origins, OneHost, Hear
    PROVE  OneHost'
<1>1. PICK chunk \in Chunks(down) :
          /\ down' = Rest(down, chunk)
          /\ cuts' = cuts + Cut(chunk)
          /\ \E saved \in PartsOf(Messages(chunk)) : output' = output \o saved
          /\ UNCHANGED <<source, host, hello, table>>
  BY DEF Hear
<1>2. down \in Seq(Chars) /\ output \in Seq(Seq(Chars))
  BY DEF TypeInv, Streams
<1>3. cuts' = 0 => cuts = 0
  BY <1>1, <1>2, UncutChunk
<1>4. ASSUME Heads(down) = {}, output = << >>
      PROVE  Heads(down') = {} /\ output' = << >>
  <2>1. Carries(down, {}, Frames, far)
    BY <1>4, CarriesNothing
  <2>2. PICK K1 \in SUBSET {}, K2 \in SUBSET {} : Sourced(OfType(Lines(chunk), "DATA"), K1, PartOfFrame(Frames), far)
    <3>1. {} \in SUBSET DOMAIN sent
      OBVIOUS
    <3> QED
      BY <1>1, <1>2, <2>1, <3>1, ChunkOrigins
  <2>3. DOMAIN OfType(Lines(chunk), "DATA") = {}
    <3>1. PICK o \in [DOMAIN OfType(Lines(chunk), "DATA") -> K1] : TRUE
      BY <2>2 DEF Sourced
    <3> QED
      BY <3>1
  <2>4. chunk \in Seq(Chars) /\ Len(chunk) < BufSize
    BY <1>1, <1>2, ChunkTypes
  <2>5. Messages(chunk) \in Seq(Seq(Chars)) /\ DOMAIN Messages(chunk) = {}
    BY <2>3, <2>4, MessageTypes
  <2>6. PICK D \in SUBSET DOMAIN Messages(chunk) : output' = output \o At(Messages(chunk), D)
    BY <1>1 DEF PartsOf
  <2>7. At(Messages(chunk), D) = << >>
    <3>1. D = {} /\ Cardinality(D) = 0
      BY <2>5, FS_EmptySet
    <3>2. At(Messages(chunk), D) \in Seq(Seq(Chars)) /\ Len(At(Messages(chunk), D)) = Cardinality(D)
      BY <2>5, AtProperties
    <3> QED
      BY <3>1, <3>2, EmptySeq
  <2>8. output' = << >>
    BY <1>4, <2>6, <2>7
  <2>9. Heads(down') = {}
    <3>1. PICK k \in 1 .. Len(down) : chunk = SubSeq(down, 1, k)
      BY <1>1, <1>2, ChunkShape DEF TypeInv, TypeOK
    <3>2. k \in 0 .. Len(down) /\ Len(down) \in Nat /\ k \in Nat
      BY <1>2, <3>1, LenProperties
    <3>3. /\ Len(Rest(down, chunk)) = Len(down) - k
          /\ \A i \in 1 .. Len(down) - k : Rest(down, chunk)[i] = down[k + i]
      <4>1. down \in Seq(Chars) /\ k \in 0 .. Len(down)
        BY <1>2, <3>2
      <4>2. /\ Len(Rest(down, SubSeq(down, 1, k))) = Len(down) - k
            /\ \A i \in 1 .. Len(down) - k : Rest(down, SubSeq(down, 1, k))[i] = down[k + i]
        BY <4>1, Split
      <4> QED
        BY <3>1, <4>2
    <3> DEFINE rest == Rest(down, chunk)
    <3>4. down' = rest
      BY <1>1
    <3>5. Len(rest) = Len(down) - k /\ \A i \in 1 .. Len(down) - k : rest[i] = down[k + i]
      BY <3>3
    <3> HIDE DEF rest
    <3>6. ASSUME NEW p \in 1 .. Len(rest)
          PROVE  rest[p] # "DATA"
      <4>1. p \in 1 .. Len(down) - k /\ k + p \in 1 .. Len(down)
        BY <3>2, <3>5
      <4>2. down[k + p] # "DATA"
        BY <1>4, <4>1 DEF Heads
      <4> QED
        BY <3>5, <4>1, <4>2
    <3> QED
      BY <3>4, <3>6 DEF Heads
  <2> QED
    BY <2>8, <2>9
<1>5. ASSUME NEW A, Only(A)
      PROVE  table' \subseteq A /\ (Heads(down') # {} \/ output' # << >> => source'.dest \in A)
  BY <1>1, <1>4, <1>5 DEF Only
<1>6. Only(Beginnings)' /\ (Only({host}) => Only({host})')
  BY <1>1, <1>5 DEF OneHost, Only, Beginnings
<1> QED
  BY <1>1, <1>3, <1>6 DEF OneHost, Announcement

\* At the start nothing goes to the listener ...
LEMMA InitOneHost == Init => OneHost
<1> SUFFICES ASSUME Init
             PROVE  OneHost
  OBVIOUS
<1>1. hello = << >> /\ down = << >> /\ table = {} /\ output = << >>
  BY DEF Init
<1>2. Heads(down) = {}
  BY <1>1 DEF Heads
<1>3. \A p \in 1 .. Len(hello) : hello[p] # "ANNOUNCE"
  BY <1>1
<1>4. \A A : Only(A)
  BY <1>1, <1>2 DEF Only
<1> QED
  BY <1>1, <1>3, <1>4 DEF OneHost

\* ... and each step keeps what goes to it within its own address.
LEMMA NextOneHost == TypeInv /\ Origins /\ OneHost /\ [Next]_vars => OneHost'
<1> SUFFICES ASSUME TypeInv, Origins, OneHost, [Next]_vars
             PROVE  OneHost'
  OBVIOUS
<1>1. ASSUME UNCHANGED <<source, host, hello, table, down, output, cuts>>
      PROVE  OneHost'
  BY <1>1 DEF OneHost, Only, Beginnings, Announcement
<1>2. CASE Connect \/ SendMessage \/ SendLine \/ EndOfFile
  BY <1>1, <1>2 DEF Connect, SendMessage, SendLine, EndOfFile, listenerVars
<1>3. CASE ReadSender \/ ReadNeighbor
  BY <1>3, HostFrames
<1>4. CASE ReadListener
  BY <1>4, HostAnnounced
<1>5. CASE Listen
  BY <1>5 DEF Listen, OneHost, Only, Beginnings, Announcement
<1>6. CASE Hear
  BY <1>6, HostHeard
<1>7. CASE UNCHANGED vars
  BY <1>1, <1>7 DEF vars, listenerVars
<1> QED
  BY <1>2, <1>3, <1>4, <1>5, <1>6, <1>7 DEF Next

\* When no text has a type word in it: whatever is sent, the file of the
\* listener holds something only if it was sent to the listener's address, or,
\* once a recv has ended within a line, to one that its address begins with.
THEOREM FileIsForThisHost ==
    ASSUME PlainTexts
    PROVE  Spec => []ForThisHost
<1>1. Init => TypeInv /\ Origins /\ OneHost
  BY InitTypes, InitOrigins, InitOneHost
<1>2. TypeInv /\ Origins /\ OneHost /\ [Next]_vars => (TypeInv /\ Origins /\ OneHost)'
  BY NextTypes, NextOrigins, NextOneHost
<1>3. TypeInv /\ OneHost => ForThisHost
  BY DEF TypeInv, TypeOK, OneHost, Only, Beginnings, ForThisHost
<1> QED
  BY <1>1, <1>2, <1>3, PTL DEF Spec
=============================================================================
