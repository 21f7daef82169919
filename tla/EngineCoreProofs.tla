-------------------------- MODULE EngineCoreProofs --------------------------
(***************************************************************************)
(* What the methods of EngineCore preserve, proved once for the modules    *)
(* that drive an engine.  The state machine is run to a fixed point by     *)
(* Advance, a recursive function; AdvanceStays turns a fact about one Step *)
(* into a fact about Advance, with the fact given as a set of engines (the *)
(* induction theorems of the library take an operator, which the provers   *)
(* cannot instantiate).                                                    *)
(***************************************************************************)
EXTENDS EngineCore, SequenceTheorems, WellFoundedInduction, TLAPS

-----------------------------------------------------------------------------
(* Induction on the natural numbers, for sets. *)

\* A non-empty set of naturals has a least element.
LEMMA LeastNat ==
  ASSUME NEW T \in SUBSET Nat, T # {}
  PROVE  \E m \in T : \A y \in T : m <= y
<1>1. PICK m \in T : \A y \in T : ~ (<<y, m>> \in OpToRel(<, Nat))
  BY WFMin, NatLessThanWellFounded
<1>2. \A y \in T : <<y, m>> \notin OpToRel(<, Nat) => m <= y
  <2>1. TAKE y \in T
  <2>2. HAVE <<y, m>> \notin OpToRel(<, Nat)
  <2>3. ~ (y < m)
    BY <2>2, Zenon DEF OpToRel
  <2> QED
    BY <2>3
<1> QED
  BY <1>1, <1>2

\* A set of naturals that holds 0 and every successor of its members is Nat.
LEMMA SetInduction ==
  ASSUME NEW T \in SUBSET Nat, 0 \in T, \A n \in T : n + 1 \in T
  PROVE  T = Nat
<1>1. SUFFICES ASSUME Nat \ T # {} PROVE FALSE
  OBVIOUS
<1>2. PICK m \in Nat \ T : \A y \in Nat \ T : m <= y
  BY <1>1, LeastNat
<1>3. m # 0 /\ m - 1 \in Nat
  BY <1>2
<1>4. m - 1 \in T
  BY <1>2, <1>3
<1> QED
  BY <1>2, <1>3, <1>4

-----------------------------------------------------------------------------
(* Sequences of bytes, cut and put together. *)

LEMMA TakeFields ==
  ASSUME NEW S, NEW s \in Seq(S), NEW k \in 0 .. Len(s)
  PROVE  /\ SubSeq(s, 1, k) \in Seq(S) /\ Len(SubSeq(s, 1, k)) = k
         /\ \A i \in 1 .. k : SubSeq(s, 1, k)[i] = s[i]
<1>1. Len(s) \in Nat /\ k \in Int /\ 1 \in Int
  BY LenProperties
<1>2. \A i \in 1 .. k : s[i] \in S
  BY <1>1, ElementOfSeq
<1>3. /\ SubSeq(s, 1, k) \in Seq(S)
      /\ Len(SubSeq(s, 1, k)) = IF 1 <= k THEN k - 1 + 1 ELSE 0
      /\ \A i \in 1 .. k - 1 + 1 : SubSeq(s, 1, k)[i] = s[1 + i - 1]
  BY <1>1, <1>2, SubSeqProperties
<1> QED
  BY <1>1, <1>3

LEMMA DropFields ==
  ASSUME NEW S, NEW s \in Seq(S), NEW k \in 0 .. Len(s)
  PROVE  /\ SubSeq(s, k + 1, Len(s)) \in Seq(S)
         /\ Len(SubSeq(s, k + 1, Len(s))) = Len(s) - k
         /\ \A i \in 1 .. Len(s) - k : SubSeq(s, k + 1, Len(s))[i] = s[i + k]
<1>1. Len(s) \in Nat /\ k + 1 \in Int /\ k \in Int
  BY LenProperties
<1>2. \A i \in k + 1 .. Len(s) : s[i] \in S
  BY <1>1, ElementOfSeq
<1>3. /\ SubSeq(s, k + 1, Len(s)) \in Seq(S)
      /\ Len(SubSeq(s, k + 1, Len(s))) =
           IF k + 1 <= Len(s) THEN Len(s) - (k + 1) + 1 ELSE 0
      /\ \A i \in 1 .. Len(s) - (k + 1) + 1 :
           SubSeq(s, k + 1, Len(s))[i] = s[(k + 1) + i - 1]
  BY <1>1, <1>2, SubSeqProperties
<1>4. Len(s) - (k + 1) + 1 = Len(s) - k
  BY <1>1
<1> DEFINE d == SubSeq(s, k + 1, Len(s))
<1> HIDE DEF d
<1>5. ASSUME NEW i \in 1 .. Len(s) - k PROVE d[i] = s[i + k]
  <2>1. i \in 1 .. Len(s) - (k + 1) + 1 /\ (k + 1) + i - 1 = i + k
    BY <1>1, <1>4
  <2>2. d[i] = s[(k + 1) + i - 1]
    BY <1>3, <2>1 DEF d
  <2> QED
    BY <2>1, <2>2
<1>6. Len(d) = Len(s) - k
  <2>1. Len(d) = IF k + 1 <= Len(s) THEN Len(s) - (k + 1) + 1 ELSE 0
    BY <1>3 DEF d
  <2> QED
    BY <1>1, <2>1
<1>7. d \in Seq(S)
  BY <1>3 DEF d
<1> QED
  BY <1>5, <1>6, <1>7 DEF d

\* What is dropped from the front of s is dropped from the front of s \o w.
LEMMA DropOfConcat ==
  ASSUME NEW S, NEW s \in Seq(S), NEW w \in Seq(S), NEW k \in 0 .. Len(s)
  PROVE  SubSeq(s, k + 1, Len(s)) \o w = SubSeq(s \o w, k + 1, Len(s \o w))
<1> DEFINE d == SubSeq(s, k + 1, Len(s))
           r == s \o w
           x == SubSeq(r, k + 1, Len(r))
<1>1. Len(s) \in Nat /\ Len(w) \in Nat
  BY LenProperties
<1>2. /\ r \in Seq(S) /\ Len(r) = Len(s) + Len(w)
      /\ \A i \in 1 .. Len(s) + Len(w) : r[i] = IF i <= Len(s) THEN s[i] ELSE w[i - Len(s)]
  BY ConcatProperties
<1>3. d \in Seq(S) /\ Len(d) = Len(s) - k /\ \A i \in 1 .. Len(s) - k : d[i] = s[i + k]
  BY DropFields
<1> HIDE DEF r, d
<1>4. k \in 0 .. Len(r)
  BY <1>1, <1>2
<1>5. x \in Seq(S) /\ Len(x) = Len(r) - k /\ \A i \in 1 .. Len(r) - k : x[i] = r[i + k]
  BY <1>2, <1>4, DropFields
<1>6. /\ d \o w \in Seq(S) /\ Len(d \o w) = Len(d) + Len(w)
      /\ \A i \in 1 .. Len(d) + Len(w) :
           (d \o w)[i] = IF i <= Len(d) THEN d[i] ELSE w[i - Len(d)]
  BY <1>3, ConcatProperties
<1> HIDE DEF x
<1>7. Len(d \o w) = Len(x)
  BY <1>1, <1>2, <1>3, <1>5, <1>6
<1>8. ASSUME NEW i \in 1 .. Len(d \o w) PROVE (d \o w)[i] = x[i]
  <2>1. i \in 1 .. Len(d) + Len(w) /\ i \in 1 .. Len(r) - k /\ i + k \in 1 .. Len(s) + Len(w)
    BY <1>1, <1>2, <1>3, <1>5, <1>6, <1>7
  <2>2. x[i] = IF i + k <= Len(s) THEN s[i + k] ELSE w[i + k - Len(s)]
    BY <1>2, <1>5, <2>1
  <2>3. (d \o w)[i] = IF i <= Len(d) THEN d[i] ELSE w[i - Len(d)]
    BY <1>6, <2>1
  <2>4. CASE i <= Len(d)
    BY <1>1, <1>3, <2>1, <2>2, <2>3, <2>4
  <2>5. CASE ~ (i <= Len(d))
    <3>1. ~ (i + k <= Len(s)) /\ i + k - Len(s) = i - Len(d)
      BY <1>1, <1>3, <2>1, <2>5
    <3> QED
      BY <2>2, <2>3, <2>5, <3>1
  <2> QED
    BY <2>4, <2>5
<1>9. d \o w = x
  <2> HIDE <1>7
  <2> QED
    BY <1>5, <1>6, <1>7, <1>8, SeqEqual
<1> QED
  BY <1>9 DEF x, r, d

\* What is taken of s is taken of s \o z.
LEMMA TakeOfConcat ==
  ASSUME NEW S, NEW s \in Seq(S), NEW z \in Seq(S), NEW n \in 0 .. Len(s)
  PROVE  SubSeq(s \o z, 1, n) = SubSeq(s, 1, n)
<1> DEFINE w == s \o z
           a == SubSeq(w, 1, n)
           b == SubSeq(s, 1, n)
<1>1. /\ w \in Seq(S) /\ Len(s) \in Nat /\ Len(z) \in Nat /\ Len(w) = Len(s) + Len(z)
      /\ \A i \in 1 .. Len(s) + Len(z) : w[i] = IF i <= Len(s) THEN s[i] ELSE z[i - Len(s)]
  BY ConcatProperties, LenProperties
<1> HIDE DEF w
<1>2. b \in Seq(S) /\ Len(b) = n /\ \A i \in 1 .. n : b[i] = s[i]
  BY TakeFields
<1>3. n \in 0 .. Len(w)
  BY <1>1
<1>4. a \in Seq(S) /\ Len(a) = n /\ \A i \in 1 .. n : a[i] = w[i]
  BY <1>1, <1>3, TakeFields
<1> HIDE DEF a, b
<1>5. ASSUME NEW i \in 1 .. Len(a) PROVE a[i] = b[i]
  <2>1. i \in 1 .. n /\ i \in 1 .. Len(s) + Len(z) /\ i <= Len(s)
    BY <1>1, <1>4
  <2> QED
    BY <1>1, <1>2, <1>4, <2>1
<1>6. a = b
  <2>1. Len(a) = Len(b)
    BY <1>2, <1>4
  <2> QED
    BY <1>2, <1>4, <1>5, <2>1, SeqEqual
<1> QED
  BY <1>6 DEF a, b, w

\* What is taken of s \o z past s is taken of z.
LEMMA TakePastConcat ==
  ASSUME NEW S, NEW s \in Seq(S), NEW z \in Seq(S), NEW n \in 0 .. Len(z)
  PROVE  /\ SubSeq(s \o z, 1, Len(s) + n) = s \o SubSeq(z, 1, n)
         /\ SubSeq(s \o z, Len(s) + n + 1, Len(s \o z)) = SubSeq(z, n + 1, Len(z))
<1> DEFINE w == s \o z
           k == Len(s) + n
           a == SubSeq(w, 1, k)
           b == SubSeq(z, 1, n)
           c == SubSeq(w, k + 1, Len(w))
           d == SubSeq(z, n + 1, Len(z))
<1>1. /\ w \in Seq(S) /\ Len(s) \in Nat /\ Len(z) \in Nat /\ Len(w) = Len(s) + Len(z)
      /\ \A i \in 1 .. Len(s) + Len(z) : w[i] = IF i <= Len(s) THEN s[i] ELSE z[i - Len(s)]
  BY ConcatProperties, LenProperties
<1> HIDE DEF w
<1>2. b \in Seq(S) /\ Len(b) = n /\ \A i \in 1 .. n : b[i] = z[i]
  BY TakeFields
<1>3. d \in Seq(S) /\ Len(d) = Len(z) - n /\ \A i \in 1 .. Len(z) - n : d[i] = z[i + n]
  BY DropFields
<1>4. k \in 0 .. Len(w) /\ k = Len(s) + n /\ k \in Nat /\ n \in Nat
  BY <1>1
<1> HIDE DEF k
<1>5. a \in Seq(S) /\ Len(a) = k /\ \A i \in 1 .. k : a[i] = w[i]
  BY <1>1, <1>4, TakeFields
<1>6. c \in Seq(S) /\ Len(c) = Len(w) - k /\ \A i \in 1 .. Len(w) - k : c[i] = w[i + k]
  BY <1>1, <1>4, DropFields
<1> HIDE DEF a, b, c, d
<1>7. /\ s \o b \in Seq(S) /\ Len(s \o b) = Len(s) + Len(b)
      /\ \A i \in 1 .. Len(s) + Len(b) : (s \o b)[i] = IF i <= Len(s) THEN s[i] ELSE b[i - Len(s)]
  BY <1>2, ConcatProperties
<1>8. a = s \o b
  <2>1. Len(a) = Len(s \o b)
    BY <1>1, <1>2, <1>4, <1>5, <1>7
  <2>2. ASSUME NEW i \in 1 .. Len(a) PROVE a[i] = (s \o b)[i]
    <3>1. i \in 1 .. k /\ i \in 1 .. Len(s) + Len(z) /\ i \in 1 .. Len(s) + Len(b)
      BY <1>1, <1>2, <1>4, <1>5
    <3>2. a[i] = IF i <= Len(s) THEN s[i] ELSE z[i - Len(s)]
      BY <1>1, <1>5, <3>1
    <3>3. (s \o b)[i] = IF i <= Len(s) THEN s[i] ELSE b[i - Len(s)]
      BY <1>7, <3>1
    <3>4. ~ (i <= Len(s)) => b[i - Len(s)] = z[i - Len(s)]
      <4>1. ~ (i <= Len(s)) => i - Len(s) \in 1 .. n
        BY <1>1, <1>4, <3>1
      <4> QED
        BY <1>2, <4>1
    <3> QED
      BY <3>2, <3>3, <3>4
  <2> QED
    BY <1>5, <1>7, <2>1, <2>2, SeqEqual
<1>9. c = d
  <2>1. Len(c) = Len(d)
    BY <1>1, <1>3, <1>4, <1>6
  <2>2. ASSUME NEW i \in 1 .. Len(c) PROVE c[i] = d[i]
    <3>1. /\ i \in 1 .. Len(w) - k /\ i + k \in 1 .. Len(s) + Len(z) /\ i \in 1 .. Len(z) - n
          /\ ~ (i + k <= Len(s)) /\ (i + k) - Len(s) = i + n
      BY <1>1, <1>3, <1>4, <1>6
    <3>2. c[i] = w[i + k] /\ d[i] = z[i + n]
      BY <1>3, <1>6, <3>1
    <3>3. w[i + k] = z[(i + k) - Len(s)]
      <4> DEFINE j == i + k
      <4>1. j \in 1 .. Len(s) + Len(z) /\ ~ (j <= Len(s))
        BY <3>1
      <4> HIDE DEF j
      <4>2. w[j] = z[j - Len(s)]
        BY <1>1, <4>1
      <4> QED
        BY <4>2, Zenon DEF j
    <3> QED
      BY <3>1, <3>2, <3>3
  <2> QED
    BY <1>3, <1>6, <2>1, <2>2, SeqEqual
<1> QED
  BY <1>8, <1>9 DEF a, b, c, d, w, k

LEMMA Together ==
  ASSUME NEW S, NEW s \in Seq(S), NEW a \in Seq(S), NEW b \in Seq(S)
  PROVE  (s \o a) \o b = s \o (a \o b)
BY ConcatAssociative

\* A piece that moves from the front of w to the end of s changes nothing.
LEMMA Regroup ==
  ASSUME NEW S, NEW s \in Seq(S), NEW w \in Seq(S), NEW k \in 1 .. Len(w)
  PROVE  (s \o SubSeq(w, 1, k)) \o SubSeq(w, k + 1, Len(w)) = s \o w
<1>1. Len(w) \in Nat
  BY LenProperties
<1>2. k \in 0 .. Len(w) /\ 1 \in 1 .. Len(w) + 1 /\ k \in 1 - 1 .. Len(w) /\ Len(w) \in k .. Len(w)
  BY <1>1
<1>3. SubSeq(w, 1, k) \in Seq(S) /\ SubSeq(w, k + 1, Len(w)) \in Seq(S)
  BY <1>2, TakeFields, DropFields
<1> DEFINE a == SubSeq(w, 1, k)
           b == SubSeq(w, k + 1, Len(w))
<1>4. a \o b = SubSeq(w, 1, Len(w))
  BY <1>2, ConcatAdjacentSubSeq
<1>5. SubSeq(w, 1, Len(w)) = w
  BY SubSeqFull
<1>6. a \in Seq(S) /\ b \in Seq(S)
  BY <1>3
<1> HIDE DEF a, b
<1>7. \A x \in Seq(S) : \A y \in Seq(S) : (s \o x) \o y = s \o (x \o y)
  BY Together
<1>8. (s \o a) \o b = s \o (a \o b)
  BY <1>6, <1>7
<1>9. a \o b = w
  BY <1>4, <1>5
<1>10. (s \o a) \o b = s \o w
  BY <1>8, <1>9
<1> QED
  BY <1>10 DEF a, b

-----------------------------------------------------------------------------
(* The line scanner. *)

\* LfAt is the place of the first LF of a sequence, 0 when it has none.
LEMMA LfAtIsFirst ==
  ASSUME NEW s, Len(s) \in Nat
  PROVE  /\ LfAt(s) \in 0 .. Len(s)
         /\ LfAt(s) # 0 => s[LfAt(s)].sym = "LF"
<1> DEFINE I == {i \in 1 .. Len(s) : s[i].sym = "LF"}
<1>1. LfAt(s) = IF I # {} THEN CHOOSE x \in I : \A y \in I : x <= y ELSE 0
  BY DEF LfAt, SelectInSeq, Min
<1>2. I # {} => \E x \in I : \A y \in I : x <= y
  <2>1. I \in SUBSET Nat
    OBVIOUS
  <2> QED
    BY <2>1, LeastNat, Zenon
<1>3. I # {} => (CHOOSE x \in I : \A y \in I : x <= y) \in I
  BY <1>2, Zenon
<1> QED
  BY <1>1, <1>3

\* A place that holds an LF, with none before it, is LfAt.
LEMMA LfAtFound ==
  ASSUME NEW s, Len(s) \in Nat, NEW j \in 1 .. Len(s), s[j].sym = "LF",
         \A i \in 1 .. j - 1 : s[i].sym # "LF"
  PROVE  LfAt(s) = j
<1> DEFINE I == {i \in 1 .. Len(s) : s[i].sym = "LF"}
<1>1. LfAt(s) = IF I # {} THEN CHOOSE x \in I : \A y \in I : x <= y ELSE 0
  BY DEF LfAt, SelectInSeq, Min
<1>2. j \in I /\ \A y \in I : j <= y
  OBVIOUS
<1>3. \A x \in I : (\A y \in I : x <= y) => x = j
  BY <1>2
<1>4. (CHOOSE x \in I : \A y \in I : x <= y) = j
  <2> HIDE DEF I
  <2> QED
    BY <1>2, <1>3, Zenon
<1> QED
  BY <1>1, <1>2, <1>4

-----------------------------------------------------------------------------
(* Advance. *)

\* The values of run in Advance(e), as an operator.
RunOf(e, last) ==
  CHOOSE run : run = [n \in 0 .. last |->
                        IF n = 0 THEN {e} ELSE {Step(x) : x \in run[n-1]}]

\* run is well defined: a function satisfies its recursive equation.
LEMMA RunExists ==
  ASSUME NEW e, NEW last \in Nat
  PROVE  RunOf(e, last) = [n \in 0 .. last |->
           IF n = 0 THEN {e} ELSE {Step(x) : x \in RunOf(e, last)[n-1]}]
<1> DEFINE Fits(f, m) == f = [n \in 0 .. m |->
                               IF n = 0 THEN {e} ELSE {Step(x) : x \in f[n-1]}]
           T == {m \in Nat : \E f : Fits(f, m)}
<1>1. 0 \in T
  <2>1. Fits([n \in 0 .. 0 |-> {e}], 0)
    OBVIOUS
  <2> QED
    BY <2>1
<1>2. ASSUME NEW m \in T PROVE m + 1 \in T
  <2>1. PICK f : Fits(f, m)
    OBVIOUS
  <2> DEFINE g == [n \in 0 .. m + 1 |->
                     IF n = m + 1 THEN {Step(x) : x \in f[m]} ELSE f[n]]
  <2>2. m \in Nat
    OBVIOUS
  <2>3. \A n \in 0 .. m : g[n] = f[n]
    BY <2>2
  <2>4. ASSUME NEW n \in 0 .. m + 1
        PROVE  g[n] = IF n = 0 THEN {e} ELSE {Step(x) : x \in g[n-1]}
    <3>1. CASE n = m + 1
      <4>1. g[n-1] = f[m] /\ n # 0
        BY <2>2, <2>3, <3>1
      <4>2. g[n] = {Step(x) : x \in f[m]}
        BY <2>2, <3>1
      <4> QED
        BY <4>1, <4>2, Zenon
    <3>2. CASE n # m + 1
      <4>1. n \in 0 .. m /\ g[n] = f[n]
        BY <2>2, <2>3, <3>2
      <4>2. f[n] = IF n = 0 THEN {e} ELSE {Step(x) : x \in f[n-1]}
        BY <2>1, <4>1, Zenon
      <4>3. n # 0 => g[n-1] = f[n-1]
        BY <2>2, <2>3, <4>1
      <4> QED
        BY <4>1, <4>2, <4>3, Zenon
    <3> QED
      BY <3>1, <3>2
  <2>5. Fits(g, m + 1)
    <3> DEFINE h == [n \in 0 .. m + 1 |->
                       IF n = 0 THEN {e} ELSE {Step(x) : x \in g[n-1]}]
    <3>1. \A n \in 0 .. m + 1 : g[n] = h[n]
      BY <2>4, Zenon
    <3>2. g = h
      <4> HIDE <2>4
      <4> QED
        BY <3>1, Zenon
    <3> QED
      BY <3>2, Zenon
  <2> HIDE DEF Fits, g
  <2>6. \E f2 : Fits(f2, m + 1)
    BY <2>5, Zenon
  <2> QED
    BY <2>2, <2>6
<1>3. T = Nat
  <2>1. T \in SUBSET Nat
    OBVIOUS
  <2> HIDE DEF T
  <2> QED
    BY <1>1, <1>2, <2>1, SetInduction
<1>4. \E f : Fits(f, last)
  BY <1>3
<1> QED
  BY <1>4, Zenon DEF RunOf

\* A set of engines that the first step leads to, and that Step cannot leave,
\* is one that Advance leads to.
LEMMA AdvanceMoves ==
  ASSUME NEW S, NEW e, Len(e.inbox) \in Nat, Step(e) \in S,
         \A x \in S : Step(x) \in S
  PROVE  Advance(e) \in S
<1> DEFINE last == Len(e.inbox) + 2
           run  == RunOf(e, last)
           T    == {n \in Nat : n + 1 \in 0 .. last => run[n+1] # {} /\ run[n+1] \subseteq S}
<1>1. last \in Nat /\ last - 1 \in Nat
  OBVIOUS
<1>2. \A n \in 0 .. last :
        run[n] = IF n = 0 THEN {e} ELSE {Step(x) : x \in run[n-1]}
  <2> HIDE DEF last
  <2>1. run = [n \in 0 .. last |->
                IF n = 0 THEN {e} ELSE {Step(x) : x \in run[n-1]}]
    BY <1>1, RunExists, Zenon
  <2> HIDE DEF run
  <2> QED
    BY <2>1, Zenon
<1> HIDE DEF run
<1>3. ASSUME NEW n \in Nat, n + 1 \in 0 .. last
      PROVE  run[n+1] = {Step(x) : x \in run[n]}
  <2>1. run[n+1] = IF n + 1 = 0 THEN {e} ELSE {Step(x) : x \in run[(n+1)-1]}
    BY <1>2, <1>3, Zenon
  <2>2. n + 1 # 0 /\ (n + 1) - 1 = n
    OBVIOUS
  <2> QED
    BY <2>1, <2>2, Zenon
<1>4. 0 \in T
  <2>1. 0 \in 0 .. last /\ 0 + 1 = 1 /\ 1 \in 0 .. last
    BY <1>1
  <2>2. run[0] = {e}
    BY <1>2, <2>1, Zenon
  <2>3. run[1] = {Step(e)}
    <3>1. run[0+1] = {Step(x) : x \in run[0]}
      BY <1>3, <2>1
    <3>2. {Step(x) : x \in {e}} = {Step(e)}
      OBVIOUS
    <3> QED
      BY <2>1, <2>2, <3>1, <3>2
  <2> QED
    BY <2>1, <2>3
<1>5. ASSUME NEW n \in T PROVE n + 1 \in T
  <2>1. n \in Nat
    OBVIOUS
  <2>2. SUFFICES ASSUME (n + 1) + 1 \in 0 .. last
                 PROVE  run[(n+1)+1] # {} /\ run[(n+1)+1] \subseteq S
    BY <2>1
  <2>3. run[n+1] # {} /\ run[n+1] \subseteq S
    BY <1>1, <2>1, <2>2
  <2>4. run[(n+1)+1] = {Step(x) : x \in run[n+1]}
    <3>1. n + 1 \in Nat
      BY <2>1
    <3> QED
      BY <1>3, <2>2, <3>1
  <2> QED
    BY <2>3, <2>4
<1>6. T = Nat
  <2>1. T \in SUBSET Nat
    OBVIOUS
  <2> HIDE DEF T
  <2> QED
    BY <1>4, <1>5, <2>1, SetInduction
<1>7. run[last] # {} /\ run[last] \subseteq S
  <2>1. last - 1 \in T /\ (last - 1) + 1 = last /\ last \in 0 .. last
    <3> HIDE DEF T
    <3> QED
      BY <1>1, <1>6
  <2> HIDE DEF last
  <2> QED
    BY <2>1
<1>8. Advance(e) = CHOOSE x \in run[last] : TRUE
  BY Zenon DEF Advance, RunOf, run
<1>9. (CHOOSE x \in run[last] : TRUE) \in run[last]
  BY <1>7, Zenon
<1> QED
  BY <1>7, <1>8, <1>9, Zenon

\* In particular, one that the engine is in at the start.
LEMMA AdvanceStays ==
  ASSUME NEW S, NEW e \in S, Len(e.inbox) \in Nat,
         \A x \in S : Step(x) \in S
  PROVE  Advance(e) \in S
<1>1. Step(e) \in S
  OBVIOUS
<1> QED
  BY <1>1, AdvanceMoves

-----------------------------------------------------------------------------
(* Fields of the engines the methods are built from. *)

LEMMA PushFields ==
  ASSUME NEW e \in Engine, NEW kind \in EventKind, NEW data \in Seq(Byte)
  PROVE  /\ Push(e, kind, data) \in Engine
         /\ Push(e, kind, data).mode = e.mode
         /\ Push(e, kind, data).answers = e.answers
         /\ Push(e, kind, data).inbox = e.inbox
         /\ Push(e, kind, data).outbox = e.outbox
         /\ Push(e, kind, data).events = Append(e.events, [kind |-> kind, data |-> data])
<1>1. [kind |-> kind, data |-> data] \in Event
  BY DEF Event
<1>2. Append(e.events, [kind |-> kind, data |-> data]) \in Seq(Event)
  BY <1>1, AppendProperties DEF Engine
<1> QED
  BY <1>2 DEF Push, Engine

LEMMA EnterFields ==
  ASSUME NEW e \in Engine, NEW mode \in Mode
  PROVE  /\ Enter(e, mode) \in Engine
         /\ Enter(e, mode).mode = mode
         /\ Enter(e, mode).answers = e.answers
         /\ Enter(e, mode).inbox = e.inbox
         /\ Enter(e, mode).outbox = e.outbox
         /\ Enter(e, mode).events = e.events
<1>1. <<>> \in Seq(Byte) /\ "NoBinary" \in Expect /\ 0 \in Nat
  BY DEF Expect
<1>2. Enter(e, mode) \in Engine
  BY <1>1 DEF Enter, Engine
<1> QED
  BY <1>2 DEF Enter, Engine

LEMMA FailFields ==
  ASSUME NEW e \in Engine
  PROVE  /\ Fail(e) \in Engine
         /\ Fail(e).mode = "Failed"
         /\ Fail(e).answers = e.answers
         /\ Fail(e).outbox = e.outbox
         /\ Fail(e).events = Append(e.events, [kind |-> "Failed", data |-> <<>>])
<1> DEFINE x == Push(e, "Failed", <<>>)
<1>1. "Failed" \in EventKind /\ "Failed" \in Mode /\ <<>> \in Seq(Byte)
  BY DEF EventKind, Mode
<1>2. /\ x \in Engine /\ x.answers = e.answers /\ x.outbox = e.outbox
      /\ x.events = Append(e.events, [kind |-> "Failed", data |-> <<>>])
  BY <1>1, PushFields
<1> HIDE DEF x
<1> QED
  BY <1>1, <1>2, EnterFields DEF Fail, x

LEMMA AnswerFields ==
  ASSUME NEW e \in Engine, NEW kind \in AnswerKind, NEW data \in Seq(Byte),
         NEW mode \in Mode
  PROVE  /\ Answer(e, kind, data, mode) \in Engine
         /\ Answer(e, kind, data, mode).mode = mode
         /\ Answer(e, kind, data, mode).answers = e.answers + 1
         /\ Answer(e, kind, data, mode).inbox = e.inbox
         /\ Answer(e, kind, data, mode).outbox = e.outbox
         /\ Answer(e, kind, data, mode).events =
              Append(e.events, [kind |-> kind, data |-> data])
<1> DEFINE y == Push(e, kind, data)
           x == Enter(y, mode)
<1>1. kind \in EventKind
  BY DEF EventKind
<1>2. /\ y \in Engine /\ y.answers = e.answers
      /\ y.inbox = e.inbox /\ y.outbox = e.outbox
      /\ y.events = Append(e.events, [kind |-> kind, data |-> data])
  BY <1>1, PushFields
<1> HIDE DEF y
<1>3. /\ x \in Engine /\ x.mode = mode /\ x.answers = e.answers
      /\ x.inbox = e.inbox /\ x.outbox = e.outbox
      /\ x.events = Append(e.events, [kind |-> kind, data |-> data])
  BY <1>2, EnterFields
<1> HIDE DEF x
<1>4. Answer(e, kind, data, mode) = [x EXCEPT !.answers = @ + 1]
  BY DEF Answer, x, y
<1>5. x.answers + 1 \in Nat
  BY <1>3 DEF Engine
<1>6. Answer(e, kind, data, mode) \in Engine
  BY <1>3, <1>4, <1>5 DEF Engine
<1>7. Answer(e, kind, data, mode).answers = x.answers + 1
  BY <1>3, <1>4 DEF Engine
<1>8. /\ Answer(e, kind, data, mode).mode = x.mode
      /\ Answer(e, kind, data, mode).inbox = x.inbox
      /\ Answer(e, kind, data, mode).outbox = x.outbox
      /\ Answer(e, kind, data, mode).events = x.events
  BY <1>3, <1>4 DEF Engine
<1> QED
  BY <1>3, <1>6, <1>7, <1>8

\* try_take_line takes a line of the inbox and leaves the rest of it.
LEMMA TakeLineFields ==
  ASSUME NEW e \in Engine, LfAt(e.inbox) # 0
  PROVE  LET p    == LfAt(e.inbox)
             line == SubSeq(e.inbox, 1, LineLen(e.inbox, p))
             rest == [e EXCEPT !.inbox = SubSeq(@, p + 1, Len(@))]
         IN /\ line \in Seq(Byte) /\ rest \in Engine
            /\ rest.mode = e.mode /\ rest.answers = e.answers
            /\ rest.outbox = e.outbox /\ rest.events = e.events
<1> DEFINE s == e.inbox
           p == LfAt(s)
<1>1. s \in Seq(Byte) /\ Len(s) \in Nat
  BY DEF Engine
<1>2. p \in 1 .. Len(s)
  BY <1>1, LfAtIsFirst
<1>3. LineLen(s, p) \in 0 .. Len(s)
  BY <1>1, <1>2 DEF LineLen
<1>4. \A i \in 1 .. Len(s) : s[i] \in Byte
  BY <1>1, ElementOfSeq
<1> HIDE DEF p
<1>5. SubSeq(s, 1, LineLen(s, p)) \in Seq(Byte)
  <2>1. ASSUME NEW n \in 0 .. Len(s) PROVE SubSeq(s, 1, n) \in Seq(Byte)
    <3>1. 1 \in Int /\ n \in Int /\ \A i \in 1 .. n : s[i] \in Byte
      BY <1>1, <1>4
    <3> HIDE DEF s
    <3> QED
      BY <3>1, SubSeqProperties
  <2> QED
    BY <1>3, <2>1
<1>6. SubSeq(s, p + 1, Len(s)) \in Seq(Byte)
  <2>1. p + 1 \in Int /\ Len(s) \in Int /\ \A i \in p + 1 .. Len(s) : s[i] \in Byte
    BY <1>1, <1>2, <1>4
  <2> QED
    BY <2>1, SubSeqProperties
<1>7. [e EXCEPT !.inbox = SubSeq(@, p + 1, Len(@))] \in Engine
  BY <1>6 DEF Engine
<1> QED
  BY <1>5, <1>7 DEF p, Engine

-----------------------------------------------------------------------------
(* Step and Advance. *)

\* How much of a conversation can happen without the caller: nothing that
\* shows, the banner, the answer to the command in flight, or a failure.
\* At most one event, and of the kind the change of mode calls for.
Progress(e, x) ==
  /\ x.outbox = e.outbox
  /\ \/ /\ x.mode = e.mode \/ {x.mode, e.mode} \subseteq InFlight
        /\ x.answers = e.answers /\ x.events = e.events
     \/ /\ e.mode = "NeedBanner" /\ x.mode = "Idle" /\ x.answers = e.answers
        /\ \E ev \in Event : /\ ev.kind = "Connected"
                             /\ x.events = Append(e.events, ev)
     \/ /\ e.mode \in InFlight /\ x.mode \in {"Idle", "StreamingBody"}
        /\ x.answers = e.answers + 1
        /\ \E ev \in Event : /\ ev.kind \in AnswerKind
                             /\ x.events = Append(e.events, ev)
     \/ /\ e.mode \in {"NeedBanner"} \cup InFlight /\ x.mode = "Failed"
        /\ x.answers = e.answers
        /\ \E ev \in Event : /\ ev.kind = "Failed"
                             /\ x.events = Append(e.events, ev)

Reading == {"NeedBanner"} \cup InFlight

\* An engine that differs only in what it holds of the answer under way.
Alike(e, r) ==
  /\ r.mode = e.mode /\ r.answers = e.answers
  /\ r.outbox = e.outbox /\ r.events = e.events

LEMMA FailProgress ==
  ASSUME NEW e \in Engine, NEW r \in Engine, Alike(e, r), e.mode \in Reading
  PROVE  Fail(r) \in Engine /\ Progress(e, Fail(r))
<1> DEFINE ev == [kind |-> "Failed", data |-> <<>>]
<1>1. ev \in Event /\ ev.kind = "Failed"
  BY DEF Event, EventKind
<1>2. /\ Fail(r) \in Engine /\ Fail(r).mode = "Failed"
      /\ Fail(r).answers = e.answers /\ Fail(r).outbox = e.outbox
      /\ Fail(r).events = Append(e.events, ev)
  BY FailFields DEF Alike
<1> HIDE DEF ev
<1> QED
  BY <1>1, <1>2 DEF Progress, Reading

LEMMA AnswerProgress ==
  ASSUME NEW e \in Engine, NEW r \in Engine, Alike(e, r), e.mode \in InFlight,
         NEW kind \in AnswerKind, NEW data \in Seq(Byte),
         NEW mode \in {"Idle", "StreamingBody"}
  PROVE  /\ Answer(r, kind, data, mode) \in Engine
         /\ Progress(e, Answer(r, kind, data, mode))
<1> DEFINE ev == [kind |-> kind, data |-> data]
           x  == Answer(r, kind, data, mode)
<1>1. ev \in Event /\ ev.kind = kind /\ mode \in Mode
  BY DEF Event, EventKind, Mode
<1>2. /\ x \in Engine /\ x.mode = mode /\ x.answers = e.answers + 1
      /\ x.outbox = e.outbox /\ x.events = Append(e.events, ev)
  BY <1>1, AnswerFields DEF Alike
<1> HIDE DEF ev, x
<1>3. x \in Engine /\ Progress(e, x)
  BY <1>1, <1>2 DEF Progress
<1> QED
  BY <1>3 DEF x

LEMMA OnBannerProgress ==
  ASSUME NEW e \in Engine, NEW r \in Engine, Alike(e, r), e.mode = "NeedBanner",
         NEW line \in Seq(Byte)
  PROVE  OnBanner(r, line) \in Engine /\ Progress(e, OnBanner(r, line))
<1>1. CASE HeadCode(line) = "201"
  <2> DEFINE ev == [kind |-> "Connected", data |-> line]
             y  == Push(r, "Connected", line)
             x  == Enter(y, "Idle")
  <2>1. "Connected" \in EventKind /\ "Idle" \in Mode
    BY DEF EventKind, Mode
  <2>2. ev \in Event /\ ev.kind = "Connected"
    BY <2>1 DEF Event
  <2>3. /\ y \in Engine /\ y.answers = e.answers /\ y.outbox = e.outbox
        /\ y.events = Append(e.events, ev)
    BY <2>1, PushFields DEF Alike
  <2> HIDE DEF y, ev
  <2>4. /\ x \in Engine /\ x.mode = "Idle" /\ x.answers = e.answers
        /\ x.outbox = e.outbox /\ x.events = Append(e.events, ev)
    BY <2>1, <2>3, EnterFields
  <2> HIDE DEF x
  <2>5. x \in Engine /\ Progress(e, x)
    BY <2>2, <2>4 DEF Progress
  <2> QED
    BY <1>1, <2>5 DEF OnBanner, x, y
<1>2. CASE HeadCode(line) # "201"
  BY <1>2, FailProgress DEF OnBanner, Reading
<1> QED
  BY <1>1, <1>2

LEMMA OnHeadProgress ==
  ASSUME NEW e \in Engine, NEW r \in Engine, Alike(e, r), e.mode = "AwaitingHead",
         NEW line \in Seq(Byte)
  PROVE  OnHead(r, line) \in Engine /\ Progress(e, OnHead(r, line))
<1> DEFINE code == HeadCode(line)
<1>1. /\ e.mode \in InFlight /\ e.mode \in Reading
      /\ {"Line", "SendBinary", "RemoteError", "BinaryHead"} \subseteq AnswerKind
  BY DEF InFlight, Reading, AnswerKind
<1>2. \A kind \in {"Line", "SendBinary", "RemoteError"} :
        /\ Answer(r, kind, line, "Idle") \in Engine
        /\ Progress(e, Answer(r, kind, line, "Idle"))
  BY <1>1, AnswerProgress
<1>3. Fail(r) \in Engine /\ Progress(e, Fail(r))
  BY <1>1, FailProgress
<1>4. \A m \in {"ReadingMultiline", "ReadingBinary"} :
        /\ [r EXCEPT !.mode = m, !.data = line] \in Engine
        /\ Progress(e, [r EXCEPT !.mode = m, !.data = line])
  <2> TAKE m \in {"ReadingMultiline", "ReadingBinary"}
  <2> DEFINE x == [r EXCEPT !.mode = m, !.data = line]
  <2>1. x \in Engine
    BY DEF Engine, Mode
  <2>2. /\ x.mode = m /\ x.answers = e.answers
        /\ x.outbox = e.outbox /\ x.events = e.events
    BY DEF Engine, Alike
  <2> HIDE DEF x
  <2>3. Progress(e, x)
    BY <1>1, <2>2 DEF Progress, InFlight
  <2> QED
    BY <2>1, <2>3 DEF x
<1>5. OnBinaryHead(r, line) \in Engine /\ Progress(e, OnBinaryHead(r, line))
  <2>1. CASE r.expect = "NoBinary"
    BY <1>3, <2>1 DEF OnBinaryHead
  <2>2. CASE r.expect = "EagerBinary"
    BY <1>4, <2>2 DEF OnBinaryHead
  <2>3. CASE r.expect = "StreamBinary"
    BY <1>1, <2>3, AnswerProgress DEF OnBinaryHead
  <2> QED
    BY <2>1, <2>2, <2>3 DEF Engine, Expect
<1>6. code \in Code \cup {"malformed"}
  BY DEF HeadCode
<1>7. CASE code = "4xx"
  BY <1>2, <1>7 DEF OnHead
<1>8. CASE code = "202"
  <2>1. OnHead(r, line) = [r EXCEPT !.mode = "ReadingMultiline", !.data = line]
    BY <1>8 DEF OnHead, LineCode
  <2> QED
    BY <1>4, <2>1
<1>9. CASE code = "203"
  <2>1. OnHead(r, line) = OnBinaryHead(r, line)
    BY <1>9 DEF OnHead, LineCode
  <2> QED
    BY <1>5, <2>1
<1>10. CASE code = "204"
  BY <1>2, <1>10 DEF OnHead
<1>11. CASE code \in LineCode
  BY <1>2, <1>11 DEF OnHead, LineCode
<1>12. CASE code \in {"unknown", "malformed"}
  BY <1>3, <1>12 DEF OnHead, LineCode
<1> QED
  BY <1>6, <1>7, <1>8, <1>9, <1>10, <1>11, <1>12 DEF Code, LineCode

LEMMA OnBodyLineProgress ==
  ASSUME NEW e \in Engine, NEW r \in Engine, Alike(e, r),
         e.mode = "ReadingMultiline", NEW line \in Seq(Byte)
  PROVE  OnBodyLine(r, line) \in Engine /\ Progress(e, OnBodyLine(r, line))
<1>1. r.data \o line \in Seq(Byte)
  BY ConcatProperties DEF Engine
<1>2. CASE IsDot(line)
  <2>1. e.mode \in InFlight /\ "Multiline" \in AnswerKind
    BY DEF InFlight, AnswerKind
  <2> QED
    BY <1>1, <1>2, <2>1, AnswerProgress DEF OnBodyLine
<1>3. CASE ~ IsDot(line)
  <2> DEFINE x == [r EXCEPT !.data = @ \o line]
  <2>1. x \in Engine
    BY <1>1 DEF Engine
  <2>2. Alike(e, x)
    BY DEF Engine, Alike
  <2> HIDE DEF x
  <2>3. Progress(e, x)
    BY <2>2 DEF Progress, Alike
  <2> QED
    BY <1>3, <2>1, <2>3 DEF OnBodyLine, x
<1> QED
  BY <1>2, <1>3

LEMMA StepBinaryProgress ==
  ASSUME NEW e \in Engine, e.mode = "ReadingBinary"
  PROVE  StepBinary(e) \in Engine /\ Progress(e, StepBinary(e))
<1>1. CASE e.remaining = 0
  <2>1. /\ e.mode \in InFlight /\ "Binary" \in AnswerKind /\ e.data \in Seq(Byte)
        /\ Alike(e, e)
    BY DEF InFlight, AnswerKind, Engine, Alike
  <2> QED
    BY <1>1, <2>1, AnswerProgress DEF StepBinary
<1>2. CASE e.remaining # 0
  <2> DEFINE s    == e.inbox
             take == IF e.remaining <= Len(s) THEN e.remaining ELSE Len(s)
             x    == [e EXCEPT !.data = @ \o SubSeq(s, 1, take),
                               !.inbox = SubSeq(@, take + 1, Len(@)),
                               !.remaining = @ - take]
  <2>1. s \in Seq(Byte) /\ Len(s) \in Nat /\ e.remaining \in Nat /\ e.data \in Seq(Byte)
    BY DEF Engine
  <2>2. take \in 0 .. Len(s) /\ e.remaining - take \in Nat
    BY <2>1
  <2>3. \A i \in 1 .. Len(s) : s[i] \in Byte
    BY <2>1, ElementOfSeq
  <2> HIDE DEF take, s
  <2>4. SubSeq(s, 1, take) \in Seq(Byte)
    <3>1. 1 \in Int /\ take \in Int /\ \A i \in 1 .. take : s[i] \in Byte
      BY <2>1, <2>2, <2>3
    <3> QED
      BY <3>1, SubSeqProperties
  <2>5. SubSeq(s, take + 1, Len(s)) \in Seq(Byte)
    <3>1. take + 1 \in Int /\ Len(s) \in Int /\ \A i \in take + 1 .. Len(s) : s[i] \in Byte
      BY <2>1, <2>2, <2>3
    <3> QED
      BY <3>1, SubSeqProperties
  <2>6. e.data \o SubSeq(s, 1, take) \in Seq(Byte)
    BY <2>1, <2>4, ConcatProperties
  <2>7. x \in Engine
    BY <2>2, <2>5, <2>6 DEF Engine, s
  <2>8. Alike(e, x)
    BY DEF Engine, Alike
  <2>9. StepBinary(e) = x
    BY <1>2 DEF StepBinary, take, s
  <2> HIDE DEF x
  <2>10. Progress(e, x)
    BY <2>8 DEF Progress, Alike
  <2> QED
    BY <2>7, <2>9, <2>10
<1> QED
  BY <1>1, <1>2

\* One step of the state machine makes progress, or finds nothing to do.
LEMMA StepProgress ==
  ASSUME NEW e \in Engine
  PROVE  /\ Step(e) \in Engine
         /\ Progress(e, Step(e))
         /\ e.mode \notin Reading => Step(e) = e
<1> DEFINE p    == LfAt(e.inbox)
           line == SubSeq(e.inbox, 1, LineLen(e.inbox, p))
           rest == [e EXCEPT !.inbox = SubSeq(@, p + 1, Len(@))]
<1>1. Alike(e, e) /\ Progress(e, e)
  BY DEF Alike, Progress
<1>2. p # 0 => line \in Seq(Byte) /\ rest \in Engine /\ Alike(e, rest)
  BY TakeLineFields DEF Alike
<1>3. e.mode \in Reading => /\ Fail(e) \in Engine /\ Progress(e, Fail(e))
                            /\ p # 0 => /\ Fail(rest) \in Engine
                                        /\ Progress(e, Fail(rest))
  <2> HIDE DEF rest, p
  <2> QED
    BY <1>1, <1>2, FailProgress
<1>4. CASE e.mode = "NeedBanner"
  <2>1. p # 0 => OnBanner(rest, line) \in Engine /\ Progress(e, OnBanner(rest, line))
    <3> HIDE DEF rest, line, p
    <3> QED
      BY <1>2, <1>4, OnBannerProgress
  <2>2. /\ WithLine(e, OnBanner) \in Engine
        /\ Progress(e, WithLine(e, OnBanner))
    BY <1>1, <1>3, <1>4, <2>1 DEF WithLine, Reading
  <2>3. Step(e) = WithLine(e, OnBanner)
    BY <1>4 DEF Step
  <2> QED
    BY <1>4, <2>2, <2>3 DEF Reading
<1>5. CASE e.mode = "AwaitingHead"
  <2>1. p # 0 => OnHead(rest, line) \in Engine /\ Progress(e, OnHead(rest, line))
    <3> HIDE DEF rest, line, p
    <3> QED
      BY <1>2, <1>5, OnHeadProgress
  <2>2. /\ WithLine(e, OnHead) \in Engine
        /\ Progress(e, WithLine(e, OnHead))
    BY <1>1, <1>3, <1>5, <2>1 DEF WithLine, Reading, InFlight
  <2>3. Step(e) = WithLine(e, OnHead)
    BY <1>5 DEF Step
  <2> QED
    BY <1>5, <2>2, <2>3 DEF Reading, InFlight
<1>6. CASE e.mode = "ReadingMultiline"
  <2>1. p # 0 => OnBodyLine(rest, line) \in Engine /\ Progress(e, OnBodyLine(rest, line))
    <3> HIDE DEF rest, line, p
    <3> QED
      BY <1>2, <1>6, OnBodyLineProgress
  <2>2. /\ WithLine(e, OnBodyLine) \in Engine
        /\ Progress(e, WithLine(e, OnBodyLine))
    BY <1>1, <1>3, <1>6, <2>1 DEF WithLine, Reading, InFlight
  <2>3. Step(e) = WithLine(e, OnBodyLine)
    BY <1>6 DEF Step
  <2> QED
    BY <1>6, <2>2, <2>3 DEF Reading, InFlight
<1>7. CASE e.mode = "ReadingBinary"
  <2>1. Step(e) = StepBinary(e)
    BY <1>7 DEF Step
  <2> QED
    BY <1>7, <2>1, StepBinaryProgress DEF Reading, InFlight
<1>8. CASE e.mode \notin Reading
  <2>1. Step(e) = e
    BY <1>8 DEF Step, Reading, InFlight
  <2> QED
    BY <1>1, <2>1
<1> QED
  BY <1>4, <1>5, <1>6, <1>7, <1>8 DEF Reading, InFlight

\* Running to the fixed point makes progress in the same sense: the engine
\* never goes through two answers, or past an answer into a failure.
LEMMA AdvanceProgress ==
  ASSUME NEW e \in Engine
  PROVE  Advance(e) \in Engine /\ Progress(e, Advance(e))
<1> DEFINE S == {x \in Engine : Progress(e, x)}
<1>1. e \in S
  BY DEF Progress
<1>2. Len(e.inbox) \in Nat
  BY DEF Engine
<1>3. ASSUME NEW x \in S PROVE Step(x) \in S
  <2>1. x \in Engine /\ Progress(e, x)
    OBVIOUS
  <2>2. Step(x) \in Engine /\ Progress(x, Step(x)) /\ (x.mode \notin Reading => Step(x) = x)
    BY <2>1, StepProgress
  <2>3. CASE x.mode \notin Reading
    BY <2>1, <2>2, <2>3
  <2>4. CASE x.mode \in Reading
    <3>1. /\ x.mode = e.mode \/ {x.mode, e.mode} \subseteq InFlight
          /\ x.answers = e.answers /\ x.events = e.events /\ x.outbox = e.outbox
      BY <2>1, <2>4 DEF Progress, Reading, InFlight
    <3>2. Progress(e, Step(x))
      BY <2>2, <3>1 DEF Progress, InFlight
    <3> QED
      BY <2>2, <3>2
  <2> QED
    BY <2>3, <2>4
<1>4. Advance(e) \in S
  <2> HIDE DEF S
  <2> QED
    BY <1>1, <1>2, <1>3, AdvanceStays
<1> QED
  BY <1>4

-----------------------------------------------------------------------------
(* The methods a caller calls. *)

LEMMA UntaggedIsBytes ==
  ASSUME NEW c \in Seq(InSym), NEW t \in Tag
  PROVE  Untagged(c, t) \in Seq(Byte)
<1>1. Len(c) \in Nat /\ \A i \in 1 .. Len(c) : c[i] \in InSym
  BY ElementOfSeq
<1>2. \A i \in 1 .. Len(c) : [sym |-> c[i], tag |-> t] \in Byte
  BY <1>1 DEF Byte
<1>3. [i \in 1 .. Len(c) |-> [sym |-> c[i], tag |-> t]] \in [1 .. Len(c) -> Byte]
  BY <1>2, Zenon
<1> QED
  BY <1>1, <1>3, SeqDef DEF Untagged

LEMMA CommandLineIsBytes ==
  ASSUME NEW w \in Word, NEW t \in Tag
  PROVE  CommandLine(w, t) \in Seq(OutByte)
<1> DEFINE s == <<w, "CR", "LF">>
<1>1. Len(s) = 3 /\ \A i \in 1 .. 3 : s[i] \in Word \cup {"CR", "LF"}
  OBVIOUS
<1> HIDE DEF s
<1>2. \A i \in 1 .. Len(s) : [sym |-> s[i], tag |-> t] \in OutByte
  BY <1>1 DEF OutByte
<1>3. [i \in 1 .. Len(s) |-> [sym |-> s[i], tag |-> t]] \in [1 .. Len(s) -> OutByte]
  BY <1>2, Zenon
<1>4. Untagged(s, t) \in Seq(OutByte)
  BY <1>1, <1>3, SeqDef DEF Untagged
<1> QED
  BY <1>4 DEF CommandLine, s

LEMMA RecvProgress ==
  ASSUME NEW e \in Engine, NEW b \in Seq(Byte)
  PROVE  Recv(e, b) \in Engine /\ Progress(e, Recv(e, b))
<1> DEFINE x == [e EXCEPT !.inbox = @ \o b]
<1>1. CASE e.mode \in Dead \cup {"StreamingBody"}
  BY <1>1 DEF Recv, Progress
<1>2. CASE e.mode \notin Dead \cup {"StreamingBody"}
  <2>1. e.inbox \o b \in Seq(Byte)
    BY ConcatProperties DEF Engine
  <2>2. x \in Engine
    BY <2>1 DEF Engine
  <2>3. Alike(e, x)
    BY DEF Engine, Alike
  <2>4. Recv(e, b) = Advance(x)
    BY <1>2 DEF Recv
  <2> HIDE DEF x
  <2>5. Advance(x) \in Engine /\ Progress(x, Advance(x))
    BY <2>2, AdvanceProgress
  <2>6. Progress(e, Advance(x))
    BY <2>3, <2>5 DEF Progress, Alike
  <2> QED
    BY <2>4, <2>5, <2>6
<1> QED
  BY <1>1, <1>2

LEMMA SendFields ==
  ASSUME NEW e \in Engine, NEW n \in Nat
  PROVE  /\ Send(e, n) \in Engine
         /\ Send(e, n).mode = e.mode /\ Send(e, n).answers = e.answers
         /\ Send(e, n).events = e.events
         /\ Len(Send(e, n).outbox) <= Len(e.outbox)
<1> DEFINE k == SendLen(e, n)
           s == e.outbox
           r == SubSeq(s, k + 1, Len(s))
<1>1. s \in Seq(OutByte) /\ Len(s) \in Nat
  BY DEF Engine
<1>2. k \in 0 .. Len(s)
  BY <1>1 DEF SendLen
<1>3. \A i \in 1 .. Len(s) : s[i] \in OutByte
  BY <1>1, ElementOfSeq
<1> HIDE DEF k, s
<1>4. k + 1 \in Int /\ Len(s) \in Int /\ \A i \in k + 1 .. Len(s) : s[i] \in OutByte
  BY <1>1, <1>2, <1>3
<1>5. /\ r \in Seq(OutByte)
      /\ Len(r) = IF k + 1 <= Len(s) THEN Len(s) - (k + 1) + 1 ELSE 0
  BY <1>4, SubSeqProperties
<1>6. Len(r) <= Len(s)
  BY <1>1, <1>2, <1>5
<1>7. Send(e, n) = [e EXCEPT !.outbox = r]
  BY DEF Send, s, k
<1> HIDE DEF r
<1>8. Send(e, n) \in Engine
  BY <1>5, <1>7 DEF Engine
<1> QED
  BY <1>6, <1>7, <1>8 DEF Engine, s

LEMMA CloseReadFields ==
  ASSUME NEW e \in Engine
  PROVE  /\ CloseRead(e) \in Engine
         /\ IsTerminal(e) => CloseRead(e) = e
         /\ ~ IsTerminal(e) =>
              /\ CloseRead(e).mode = "Closed" /\ CloseRead(e).answers = e.answers
              /\ CloseRead(e).outbox = e.outbox
              /\ CloseRead(e).events =
                   Append(e.events, [kind |-> "Closed", data |-> <<>>])
<1> DEFINE x == Push(e, "Closed", <<>>)
<1>1. "Closed" \in EventKind /\ "Closed" \in Mode /\ <<>> \in Seq(Byte)
  BY DEF EventKind, Mode
<1>2. /\ x \in Engine /\ x.answers = e.answers /\ x.outbox = e.outbox
      /\ x.events = Append(e.events, [kind |-> "Closed", data |-> <<>>])
  BY <1>1, PushFields
<1> HIDE DEF x
<1>3. /\ Enter(x, "Closed") \in Engine /\ Enter(x, "Closed").mode = "Closed"
      /\ Enter(x, "Closed").answers = e.answers
      /\ Enter(x, "Closed").outbox = e.outbox
      /\ Enter(x, "Closed").events =
           Append(e.events, [kind |-> "Closed", data |-> <<>>])
  BY <1>1, <1>2, EnterFields
<1> QED
  BY <1>3 DEF CloseRead, x

LEMMA AbortStreamFields ==
  ASSUME NEW e \in Engine
  PROVE  /\ AbortStream(e) \in Engine
         /\ e.mode # "StreamingBody" => AbortStream(e) = e
         /\ e.mode = "StreamingBody" =>
              /\ AbortStream(e).mode = "Failed" /\ AbortStream(e).answers = e.answers
              /\ AbortStream(e).outbox = e.outbox
              /\ AbortStream(e).events =
                   Append(e.events, [kind |-> "Failed", data |-> <<>>])
BY FailFields DEF AbortStream

LEMMA SubmitFields ==
  ASSUME NEW e \in Engine, NEW w \in Word, NEW t \in Tag, NEW x \in Expect, NEW n \in Nat
  PROVE  /\ Submit(e, w, t, x, n) \in Engine
         /\ Submit(e, w, t, x, n).mode = "AwaitingHead"
         /\ Submit(e, w, t, x, n).answers = e.answers
         /\ Submit(e, w, t, x, n).events = e.events
<1>1. e.outbox \o CommandLine(w, t) \in Seq(OutByte)
  <2>1. e.outbox \in Seq(OutByte)
    BY DEF Engine
  <2> QED
    BY <2>1, CommandLineIsBytes, ConcatProperties
<1>2. "AwaitingHead" \in Mode
  BY DEF Mode
<1>3. Submit(e, w, t, x, n) \in Engine
  BY <1>1, <1>2 DEF Submit, Engine
<1> QED
  BY <1>3 DEF Submit, Engine

LEMMA ExpectResponseFields ==
  ASSUME NEW e \in Engine
  PROVE  /\ ExpectResponse(e) \in Engine
         /\ ExpectResponse(e).mode = "AwaitingHead"
         /\ ExpectResponse(e).answers = e.answers
         /\ ExpectResponse(e).events = e.events
<1>1. "AwaitingHead" \in Mode /\ "NoBinary" \in Expect
  BY DEF Mode, Expect
<1>2. ExpectResponse(e) \in Engine
  BY <1>1 DEF ExpectResponse, Engine
<1> QED
  BY <1>2 DEF ExpectResponse, Engine

LEMMA TakeInboxFields ==
  ASSUME NEW e \in Engine
  PROVE  TakeInbox(e) \in Engine /\ Alike(e, TakeInbox(e))
<1>1. <<>> \in Seq(Byte)
  OBVIOUS
<1>2. TakeInbox(e) \in Engine
  BY <1>1 DEF TakeInbox, Engine
<1> QED
  BY <1>2 DEF TakeInbox, Engine, Alike

LEMMA EndStreamFields ==
  ASSUME NEW e \in Engine, NEW b \in Seq(Byte)
  PROVE  /\ EndStream(e, b) \in Engine
         /\ e.mode # "StreamingBody" => EndStream(e, b) = e
         /\ e.mode = "StreamingBody" =>
              /\ EndStream(e, b).mode = "Idle" /\ EndStream(e, b).answers = e.answers
              /\ EndStream(e, b).outbox = e.outbox /\ EndStream(e, b).events = e.events
<1>1. e.inbox \o b \in Seq(Byte) /\ "Idle" \in Mode
  BY ConcatProperties DEF Engine, Mode
<1> DEFINE x == [e EXCEPT !.mode = "Idle", !.inbox = @ \o b]
<1>2. x \in Engine
  BY <1>1 DEF Engine
<1>3. x.mode = "Idle" /\ x.answers = e.answers /\ x.outbox = e.outbox /\ x.events = e.events
  BY DEF Engine
<1> HIDE DEF x
<1>4. EndStream(e, b) = IF e.mode # "StreamingBody" THEN e ELSE x
  BY DEF EndStream, x
<1> QED
  BY <1>2, <1>3, <1>4

\* poll is Advance, then the first event, if any, leaves the queue.
LEMMA PollFields ==
  ASSUME NEW e \in Engine
  PROVE  /\ Polled(e) \in Engine /\ Progress(e, Polled(e))
         /\ Poll(e) \in Engine
         /\ Poll(e).mode = Polled(e).mode /\ Poll(e).answers = Polled(e).answers
         /\ Poll(e).outbox = Polled(e).outbox
         /\ Poll(e).events = IF HasEvent(e) THEN Tail(Polled(e).events) ELSE <<>>
         /\ HasEvent(e) => NextEvent(e) \in Event
<1> DEFINE x == Polled(e)
           q == x.events
           r == IF q = <<>> THEN q ELSE Tail(q)
<1>1. x \in Engine /\ Progress(e, x)
  BY AdvanceProgress DEF Polled
<1> HIDE DEF x
<1>2. q \in Seq(Event)
  BY <1>1 DEF Engine
<1>3. q # <<>> => Head(q) \in Event /\ Tail(q) \in Seq(Event)
  BY <1>2, HeadTailProperties
<1>4. Poll(e) = [x EXCEPT !.events = r]
  BY DEF Poll, x
<1>5. Poll(e) \in Engine
  BY <1>1, <1>2, <1>3, <1>4 DEF Engine
<1>6. /\ Poll(e).mode = x.mode /\ Poll(e).answers = x.answers
      /\ Poll(e).outbox = x.outbox /\ Poll(e).events = r
  BY <1>1, <1>4 DEF Engine
<1> QED
  BY <1>1, <1>3, <1>5, <1>6 DEF HasEvent, NextEvent, x
=============================================================================
