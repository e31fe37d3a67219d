-------------------------- MODULE LlmAnswerProofs --------------------------
(* Proofs about LlmAnswer, for any texts, any markers in them and any cuts into *)
(* chunks. What a parser is after a text does not depend on how the text was   *)
(* cut (After, FedInPieces); what it has emitted by then only grows            *)
(* (EmittedGrows), and finish completes it to the answer (FinishFacts).        *)
EXTENDS LlmAnswer, FiniteSetTheorems, SequenceTheorems, WellFoundedInduction, TLAPS

(* A set of numbers has a smallest one: of its initial intervals, which are   *)
(* finite, one has no other below it.                                         *)
LEMMA SomeSmallest ==
  ASSUME NEW S \in SUBSET Nat, S # {}
  PROVE  \E m \in S : \A k \in S : m <= k
<1> DEFINE U == {0..m : m \in S}
<1>1. U \subseteq FiniteSubsetsOf(Nat) /\ U # {}
  <2>1. \A m \in S : IsFiniteSet(0..m) /\ 0..m \subseteq Nat
    BY FS_Interval
  <2> QED
    BY <2>1 DEF FiniteSubsetsOf
<1>2. PICK u \in U : \A v \in U : <<v, u>> \notin StrictSubsetOrdering(Nat)
  <2> HIDE DEF U
  <2> QED
    BY <1>1, FS_StrictSubsetOrderingWellFounded, WFMin
<1>3. PICK m \in S : u = 0..m
  BY <1>2
<1>4. ASSUME NEW k \in S, k < m
      PROVE  FALSE
  <2>1. /\ 0..k \in U /\ 0..k \subseteq 0..m /\ m \in 0..m /\ m \notin 0..k
        /\ 0..k \in SUBSET Nat /\ 0..m \in SUBSET Nat
    BY <1>4
  <2> QED
    BY <1>2, <1>3, <2>1 DEF StrictSubsetOrdering
<1>5. \A k \in S : m <= k
  BY <1>4
<1> QED
  BY <1>5

(* What str.find and str.rfind return.                                        *)
LEMMA LeastFacts ==
  ASSUME NEW S \in SUBSET (Nat \ {0})
  PROVE  /\ S = {} => Least(S) = 0
         /\ S # {} => Least(S) \in S /\ \A k \in S : Least(S) <= k
<1>1. CASE S = {}
  BY <1>1 DEF Least
<1>2. CASE S # {}
  <2>1. \E m \in S : \A k \in S : m <= k
    BY <1>2, SomeSmallest
  <2> QED
    BY <1>2, <2>1 DEF Least
<1> QED
  BY <1>1, <1>2

LEMMA GreatestFacts ==
  ASSUME NEW n \in Nat, NEW S \in SUBSET (1..n)
  PROVE  /\ S = {} => Greatest(S) = 0
         /\ S # {} => Greatest(S) \in S /\ \A k \in S : Greatest(S) >= k
<1>1. CASE S = {}
  BY <1>1 DEF Greatest
<1>2. CASE S # {}
  <2> DEFINE T == {n - k : k \in S}
  <2>1. PICK m \in T : \A k \in T : m <= k
    <3>1. T \in SUBSET Nat
      <4>1. \A k \in S : n - k \in Nat
        OBVIOUS
      <4> QED
        BY <4>1
    <3>2. T # {}
      BY <1>2
    <3> HIDE DEF T
    <3> QED
      BY <3>1, <3>2, SomeSmallest, Zenon
  <2>2. PICK i \in S : m = n - i
    BY <2>1
  <2>3. \A k \in S : i >= k
    BY <2>1, <2>2
  <2> QED
    BY <1>2, <2>3 DEF Greatest
<1> QED
  BY <1>1, <1>2
Str == Seq(Characters)

(* The characters and the markers that a text is made of.                     *)
LEMMA CharacterFacts ==
  /\ Object \in Characters /\ Blank \in Characters /\ Object # Blank
  /\ TurnEnd[1] # Blank /\ TurnEnd[2] # Blank
  /\ TurnEnd = <<TurnEnd[1], TurnEnd[2]>> /\ Len(TurnEnd) = 2
  /\ \A f \in {"qwen", "gemma"} :
       /\ ReasoningStart(f) = <<ReasoningStart(f)[1], ReasoningStart(f)[2]>>
       /\ ReasoningEnd(f) = <<ReasoningEnd(f)[1], ReasoningEnd(f)[2]>>
BY DEF Characters, Object, Blank, TurnEnd, ReasoningStart, ReasoningEnd

(* Of a marker x, y.                                                          *)
LEMMA PlacesFacts ==
  ASSUME NEW s \in Str, NEW x, NEW y
  PROVE  /\ \A i \in 1..(Len(s) - 1) : i \in Places(s, <<x, y>>) <=> s[i] = x /\ s[i + 1] = y
         /\ Places(s, <<x, y>>) \in SUBSET (1..Len(s))
<1>1. ASSUME NEW i \in 1..(Len(s) - 1)
      PROVE  SubSeq(s, i, i + 1) = <<x, y>> <=> s[i] = x /\ s[i + 1] = y
  <2> DEFINE t == SubSeq(s, i, i + 1)
  <2>1. Len(s) \in Nat /\ i \in Int /\ i + 1 \in Int /\ \A j \in i..(i + 1) : s[j] \in Characters
    BY DEF Str
  <2>2. /\ t \in Seq(Characters) /\ Len(t) = 2
        /\ \A j \in 1..2 : t[j] = s[i + j - 1]
    BY <2>1, SubSeqProperties
  <2>3. t[1] = s[i] /\ t[2] = s[i + 1]
    BY <2>1, <2>2
  <2> HIDE DEF t
  <2>4. t = <<t[1], t[2]>>
    BY <2>2
  <2>5. t = <<x, y>> <=> t[1] = x /\ t[2] = y
    BY <2>4
  <2> QED
    BY <2>3, <2>5 DEF t
<1> QED
  BY <1>1 DEF Places, Str

(* The end of a text and its beginning.                                       *)
LEMMA FromFacts ==
  ASSUME NEW s \in Str, NEW i \in 1..(Len(s) + 1)
  PROVE  /\ From(s, i) \in Str
         /\ Len(From(s, i)) = Len(s) - i + 1
         /\ \A j \in 1..(Len(s) - i + 1) : From(s, i)[j] = s[i + j - 1]
<1>1. Len(s) \in Nat /\ \A j \in i..Len(s) : s[j] \in Characters
  BY DEF Str
<1>2. /\ SubSeq(s, i, Len(s)) \in Seq(Characters)
      /\ Len(SubSeq(s, i, Len(s))) = IF i <= Len(s) THEN Len(s) - i + 1 ELSE 0
      /\ \A j \in 1 .. Len(s) - i + 1 : SubSeq(s, i, Len(s))[j] = s[i + j - 1]
  BY <1>1, SubSeqProperties
<1> QED
  BY <1>1, <1>2 DEF From, Str

LEMMA PrefixFacts ==
  ASSUME NEW s \in Str, NEW n \in 0..Len(s)
  PROVE  /\ SubSeq(s, 1, n) \in Str
         /\ Len(SubSeq(s, 1, n)) = n
         /\ \A j \in 1..n : SubSeq(s, 1, n)[j] = s[j]
<1>1. Len(s) \in Nat /\ n \in Int /\ \A j \in 1..n : s[j] \in Characters
  BY DEF Str
<1>2. /\ SubSeq(s, 1, n) \in Seq(Characters)
      /\ Len(SubSeq(s, 1, n)) = IF 1 <= n THEN n - 1 + 1 ELSE 0
      /\ \A j \in 1 .. n - 1 + 1 : SubSeq(s, 1, n)[j] = s[1 + j - 1]
  BY <1>1, SubSeqProperties
<1> QED
  BY <1>1, <1>2 DEF Str

(* Two texts joined: how long, which characters, and the ends of them.        *)
LEMMA Joined ==
  ASSUME NEW a \in Str, NEW b \in Str
  PROVE  /\ a \o b \in Str
         /\ Len(a \o b) = Len(a) + Len(b) /\ Len(a) \in Nat /\ Len(b) \in Nat
         /\ \A i \in 1..Len(a) : (a \o b)[i] = a[i]
         /\ \A i \in 1..Len(b) : (a \o b)[Len(a) + i] = b[i]
<1>1. /\ a \o b \in Seq(Characters) /\ Len(a \o b) = Len(a) + Len(b)
      /\ \A i \in 1 .. Len(a) + Len(b) : (a \o b)[i] = IF i <= Len(a) THEN a[i] ELSE b[i - Len(a)]
  BY ConcatProperties DEF Str
<1>2. Len(a) \in Nat /\ Len(b) \in Nat
  BY DEF Str
<1>3. ASSUME NEW i \in 1..Len(b)
      PROVE  (a \o b)[Len(a) + i] = b[i]
  <2>1. Len(a) + i \in 1..(Len(a) + Len(b)) /\ ~(Len(a) + i <= Len(a)) /\ (Len(a) + i) - Len(a) = i
    BY <1>2
  <2> QED
    BY <1>1, <2>1
<1> QED
  BY <1>1, <1>2, <1>3 DEF Str

LEMMA FromJoined ==
  ASSUME NEW a \in Str, NEW b \in Str
  PROVE  /\ \A k \in 1..(Len(a) + 1) : From(a \o b, k) = From(a, k) \o b
         /\ \A k \in 1..(Len(b) + 1) : From(a \o b, Len(a) + k) = From(b, k)
<1> DEFINE c == a \o b
<1>0. /\ c \in Str /\ Len(c) = Len(a) + Len(b) /\ Len(a) \in Nat /\ Len(b) \in Nat
      /\ \A i \in 1..Len(a) : c[i] = a[i]
      /\ \A i \in 1..Len(b) : c[Len(a) + i] = b[i]
  BY Joined
<1> HIDE DEF c
<1>1. ASSUME NEW k \in 1..(Len(a) + 1)
      PROVE  From(c, k) = From(a, k) \o b
  <2> DEFINE s == From(c, k)
             f == From(a, k)
             t == f \o b
             n == Len(a) - k + 1
  <2>1. f \in Str /\ Len(f) = n /\ \A j \in 1..n : f[j] = a[k + j - 1]
    BY FromFacts
  <2>2. k \in 1..(Len(c) + 1) /\ Len(c) - k + 1 = n + Len(b) /\ n \in Nat
    BY <1>0
  <2>3. s \in Str /\ Len(s) = n + Len(b) /\ \A j \in 1..(n + Len(b)) : s[j] = c[k + j - 1]
    BY <1>0, <2>2, FromFacts
  <2> HIDE DEF f
  <2>4. /\ t \in Str /\ Len(t) = n + Len(b)
        /\ \A i \in 1..n : t[i] = f[i]
        /\ \A i \in 1..Len(b) : t[n + i] = b[i]
    <3>1. /\ f \o b \in Str /\ Len(f \o b) = Len(f) + Len(b)
          /\ \A i \in 1..Len(f) : (f \o b)[i] = f[i]
          /\ \A i \in 1..Len(b) : (f \o b)[Len(f) + i] = b[i]
      BY <2>1, Joined
    <3> HIDE DEF n
    <3> QED
      BY <2>1, <3>1
  <2> HIDE DEF s, t
  <2>5. ASSUME NEW i \in 1..Len(s)
        PROVE  s[i] = t[i]
    <3>1. CASE i <= n
      <4>1. i \in 1..n /\ k + i - 1 \in 1..Len(a)
        BY <1>0, <2>3, <3>1
      <4> QED
        BY <1>0, <2>1, <2>3, <2>4, <4>1
    <3>2. CASE i > n
      <4>1. PICK j \in 1..Len(b) : i = n + j
        <5>1. i - n \in 1..Len(b) /\ i = n + (i - n)
          BY <1>0, <2>2, <2>3, <3>2
        <5> QED
          BY <5>1
      <4>2. k + i - 1 = Len(a) + j
        BY <1>0, <4>1
      <4>3. s[i] = c[Len(a) + j] /\ c[Len(a) + j] = b[j]
        BY <1>0, <2>3, <4>2
      <4>4. t[i] = b[j]
        BY <2>4, <4>1
      <4> QED
        BY <4>3, <4>4
    <3> QED
      BY <1>0, <2>2, <2>3, <3>1, <3>2
  <2>6. s = t
    BY <2>3, <2>4, <2>5, SeqEqual DEF Str
  <2> QED
    BY <2>6 DEF s, t, f
<1>2. ASSUME NEW k \in 1..(Len(b) + 1)
      PROVE  From(c, Len(a) + k) = From(b, k)
  <2> DEFINE s == From(c, Len(a) + k)
             t == From(b, k)
             n == Len(b) - k + 1
  <2>1. t \in Str /\ Len(t) = n /\ \A j \in 1..n : t[j] = b[k + j - 1]
    BY FromFacts
  <2>2. Len(a) + k \in 1..(Len(c) + 1) /\ Len(c) - (Len(a) + k) + 1 = n /\ n \in Nat
    BY <1>0
  <2>3. s \in Str /\ Len(s) = n /\ \A j \in 1..n : s[j] = c[(Len(a) + k) + j - 1]
    BY <1>0, <2>2, FromFacts
  <2> HIDE DEF s, t
  <2>4. ASSUME NEW i \in 1..n
        PROVE  s[i] = t[i]
    <3>1. k + i - 1 \in 1..Len(b) /\ (Len(a) + k) + i - 1 = Len(a) + (k + i - 1)
      BY <1>0, <2>2
    <3> QED
      BY <1>0, <2>1, <2>3, <3>1
  <2>5. s = t
    BY <2>1, <2>3, <2>4, SeqEqual DEF Str
  <2> QED
    BY <2>5 DEF s, t
<1> QED
  BY <1>1, <1>2 DEF c

(* A prefix of a text, and what is left of it.                                *)
LEMMA PrefixJoined ==
  ASSUME NEW a \in Str, NEW b \in Str, NEW n \in 0..Len(a)
  PROVE  SubSeq(a \o b, 1, n) = SubSeq(a, 1, n)
<1> DEFINE s == SubSeq(a \o b, 1, n)
           t == SubSeq(a, 1, n)
<1>1. t \in Str /\ Len(t) = n /\ \A j \in 1..n : t[j] = a[j]
  BY PrefixFacts
<1>2. /\ a \o b \in Str /\ n \in 0..Len(a \o b)
      /\ \A i \in 1..n : (a \o b)[i] = a[i]
  <2>1. /\ a \o b \in Str /\ Len(a \o b) = Len(a) + Len(b) /\ Len(a) \in Nat /\ Len(b) \in Nat
        /\ \A i \in 1..Len(a) : (a \o b)[i] = a[i]
    BY Joined
  <2>2. n \in Nat /\ n <= Len(a)
    BY <2>1
  <2> QED
    BY <2>1, <2>2
<1>3. s \in Str /\ Len(s) = n /\ \A j \in 1..n : s[j] = (a \o b)[j]
  BY <1>2, PrefixFacts
<1> HIDE DEF s, t
<1>4. \A j \in 1..n : s[j] = t[j]
  BY <1>1, <1>2, <1>3
<1>5. s = t
  BY <1>1, <1>3, <1>4, SeqEqual DEF Str
<1> QED
  BY <1>5 DEF s, t

(* What is cut off in two goes.                                               *)
LEMMA Cutting ==
  ASSUME NEW w \in Str, NEW c \in 0..Len(w), NEW m \in 0..(Len(w) - c)
  PROVE  /\ From(From(w, c + 1), m + 1) = From(w, c + m + 1)
         /\ SubSeq(w, 1, c) \o SubSeq(From(w, c + 1), 1, m) = SubSeq(w, 1, c + m)
<1> DEFINE r == From(w, c + 1)
<1>0. /\ Len(w) \in Nat /\ c \in Nat /\ m \in Nat /\ c + 1 \in 1..(Len(w) + 1)
      /\ (Len(w) - (c + 1)) + 1 = Len(w) - c
  BY DEF Str
<1>1. r \in Str /\ Len(r) = Len(w) - c /\ \A j \in 1..(Len(w) - c) : r[j] = w[c + 1 + j - 1]
  BY <1>0, FromFacts
<1>2. \A j \in 1..(Len(w) - c) : r[j] = w[c + j]
  <2>1. \A j \in 1..(Len(w) - c) : c + 1 + j - 1 = c + j
    BY <1>0
  <2> HIDE DEF r
  <2> QED
    BY <1>1, <2>1
<1> HIDE DEF r
<1>3. From(r, m + 1) = From(w, c + m + 1)
  <2> DEFINE s == From(r, m + 1)
             t == From(w, c + m + 1)
             n == Len(w) - c - m
  <2>1. m + 1 \in 1..(Len(r) + 1) /\ Len(r) - (m + 1) + 1 = n /\ n \in Nat
    BY <1>0, <1>1
  <2>2. s \in Str /\ Len(s) = n /\ \A j \in 1..n : s[j] = r[m + 1 + j - 1]
    BY <1>1, <2>1, FromFacts
  <2>3. c + m + 1 \in 1..(Len(w) + 1) /\ Len(w) - (c + m + 1) + 1 = n
    BY <1>0
  <2>4. t \in Str /\ Len(t) = n /\ \A j \in 1..n : t[j] = w[c + m + 1 + j - 1]
    BY <2>3, FromFacts
  <2> HIDE DEF s, t
  <2>5. ASSUME NEW j \in 1..n
        PROVE  s[j] = t[j]
    <3>1. /\ m + 1 + j - 1 = m + j /\ c + m + 1 + j - 1 = c + (m + j)
          /\ m + j \in 1..(Len(w) - c)
      BY <1>0, <2>1
    <3> QED
      BY <1>2, <2>2, <2>4, <3>1
  <2>6. s = t
    BY <2>2, <2>4, <2>5, SeqEqual DEF Str
  <2> QED
    BY <2>6 DEF s, t
<1>4. SubSeq(w, 1, c) \o SubSeq(r, 1, m) = SubSeq(w, 1, c + m)
  <2> DEFINE f == SubSeq(w, 1, c)
             g == SubSeq(r, 1, m)
             s == f \o g
             t == SubSeq(w, 1, c + m)
  <2>1. f \in Str /\ Len(f) = c /\ \A j \in 1..c : f[j] = w[j]
    BY PrefixFacts
  <2>2. g \in Str /\ Len(g) = m /\ \A j \in 1..m : g[j] = r[j]
    BY <1>1, PrefixFacts
  <2>3. c + m \in 0..Len(w)
    BY <1>0
  <2>4. t \in Str /\ Len(t) = c + m /\ \A j \in 1..(c + m) : t[j] = w[j]
    BY <2>3, PrefixFacts
  <2> HIDE DEF f, g
  <2>5. /\ s \in Str /\ Len(s) = c + m
        /\ \A i \in 1..c : s[i] = f[i]
        /\ \A i \in 1..m : s[c + i] = g[i]
    <3>1. /\ f \o g \in Str /\ Len(f \o g) = Len(f) + Len(g)
          /\ \A i \in 1..Len(f) : (f \o g)[i] = f[i]
          /\ \A i \in 1..Len(g) : (f \o g)[Len(f) + i] = g[i]
      BY <2>1, <2>2, Joined
    <3> QED
      BY <2>1, <2>2, <3>1
  <2> HIDE DEF s, t
  <2>6. ASSUME NEW i \in 1..(c + m)
        PROVE  s[i] = t[i]
    <3>1. CASE i <= c
      <4>1. i \in 1..c
        BY <1>0, <3>1
      <4> QED
        BY <2>1, <2>4, <2>5, <4>1
    <3>2. CASE i > c
      <4>1. PICK j \in 1..m : i = c + j
        <5>1. i - c \in 1..m /\ i = c + (i - c)
          BY <1>0, <3>2
        <5> QED
          BY <5>1
      <4>2. j \in 1..(Len(w) - c)
        BY <1>0
      <4>3. s[i] = g[j] /\ g[j] = r[j] /\ r[j] = w[c + j]
        BY <1>2, <2>2, <2>5, <4>1, <4>2
      <4> QED
        BY <2>4, <4>1, <4>3
    <3> QED
      BY <1>0, <3>1, <3>2
  <2>7. s = t
    BY <2>4, <2>5, <2>6, SeqEqual DEF Str
  <2> QED
    BY <2>7 DEF s, t, f, g
<1> QED
  BY <1>3, <1>4 DEF r
-----------------------------------------------------------------------------
(* ---------------------------------------------------------------- blanks *)

(* The first character is no blank.                                           *)
Stripped(s) == s = <<>> \/ s[1] # Blank

LEMMA EmptyText ==
  /\ <<>> \in Str /\ Len(<<>>) = 0
  /\ \A s \in Str : s = <<>> <=> Len(s) = 0
BY EmptySeq DEF Str

(* lstrip: from the first character that is no blank.                         *)
LEMMA FirstLetter ==
  ASSUME NEW s \in Str, NEW k \in 1..Len(s), s[k] # Blank, \A i \in 1..(k - 1) : s[i] = Blank
  PROVE  LStrip(s) = From(s, k) /\ LStrip(s) # <<>>
<1> DEFINE S == NonBlank(s)
<1>1. S \in SUBSET (Nat \ {0}) /\ k \in S /\ \A i \in S : k <= i
  BY DEF NonBlank, Str
<1>2. Least(S) \in S /\ \A i \in S : Least(S) <= i
  BY <1>1, LeastFacts, Zenon
<1>3. Least(S) = k
  BY <1>1, <1>2
<1>4. LStrip(s) = From(s, k)
  BY <1>1, <1>3 DEF LStrip
<1>5. k \in 1..(Len(s) + 1) /\ Len(s) - k + 1 # 0
  BY DEF Str
<1>6. From(s, k) \in Str /\ Len(From(s, k)) # 0
  BY <1>5, FromFacts
<1> QED
  BY <1>4, <1>6, EmptyText

LEMMA AllBlank ==
  ASSUME NEW s \in Str, \A i \in 1..Len(s) : s[i] = Blank
  PROVE  LStrip(s) = <<>>
BY DEF LStrip, NonBlank

LEMMA LStripCases ==
  ASSUME NEW s \in Str
  PROVE  \/ \A i \in 1..Len(s) : s[i] = Blank
         \/ \E k \in 1..Len(s) : s[k] # Blank /\ \A i \in 1..(k - 1) : s[i] = Blank
<1>1. CASE NonBlank(s) = {}
  BY <1>1 DEF NonBlank
<1>2. CASE NonBlank(s) # {}
  <2>1. NonBlank(s) \in SUBSET Nat
    BY DEF NonBlank, Str
  <2>2. PICK k \in NonBlank(s) : \A i \in NonBlank(s) : k <= i
    BY <1>2, <2>1, SomeSmallest
  <2>3. k \in 1..Len(s) /\ s[k] # Blank /\ Len(s) \in Nat
    BY <2>2 DEF NonBlank, Str
  <2>4. ASSUME NEW i \in 1..(k - 1), s[i] # Blank
        PROVE  FALSE
    <3>1. i \in NonBlank(s) /\ ~(k <= i)
      BY <2>3, <2>4 DEF NonBlank
    <3> QED
      BY <2>2, <3>1
  <2> QED
    BY <2>3, <2>4
<1> QED
  BY <1>1, <1>2

(* What is stripped is stripped, and stays so with more behind it.            *)
LEMMA LStripFacts ==
  ASSUME NEW s \in Str
  PROVE  LStrip(s) \in Str /\ Stripped(LStrip(s)) /\ (Stripped(s) => LStrip(s) = s)
<1>1. CASE \A i \in 1..Len(s) : s[i] = Blank
  <2>1. LStrip(s) = <<>>
    BY <1>1, AllBlank
  <2>2. ASSUME Stripped(s)
        PROVE  s = <<>>
    <3>1. s # <<>> => 1 \in 1..Len(s)
      BY EmptyText DEF Str
    <3> QED
      BY <1>1, <2>2, <3>1 DEF Stripped
  <2> QED
    BY <2>1, <2>2, EmptyText DEF Stripped
<1>2. ASSUME NEW k \in 1..Len(s), s[k] # Blank, \A i \in 1..(k - 1) : s[i] = Blank
      PROVE  LStrip(s) \in Str /\ Stripped(LStrip(s)) /\ (Stripped(s) => LStrip(s) = s)
  <2>1. LStrip(s) = From(s, k)
    BY <1>2, FirstLetter
  <2>2. k \in 1..(Len(s) + 1) /\ 1 \in 1..(Len(s) - k + 1) /\ k + 1 - 1 = k /\ Len(s) \in Nat
    BY DEF Str
  <2>3. From(s, k) \in Str /\ From(s, k)[1] = s[k]
    <3>1. From(s, k) \in Str /\ From(s, k)[1] = s[k + 1 - 1]
      BY <2>2, FromFacts
    <3> QED
      BY <2>2, <3>1
  <2>4. ASSUME Stripped(s)
        PROVE  From(s, k) = s
    <3>1. k = 1
      <4>1. k # 1 => 1 \in 1..(k - 1) /\ s # <<>>
        BY <2>2, EmptyText
      <4> QED
        BY <1>2, <2>4, <4>1 DEF Stripped
    <3> QED
      BY <3>1, SubSeqFull DEF From, Str
  <2> QED
    BY <1>2, <2>1, <2>3, <2>4 DEF Stripped
<1> QED
  BY <1>1, <1>2, LStripCases

LEMMA LStripJoined ==
  ASSUME NEW a \in Str, NEW b \in Str
  PROVE  LStrip(a \o b) = IF LStrip(a) = <<>> THEN LStrip(b) ELSE LStrip(a) \o b
<1> DEFINE c == a \o b
<1>0. /\ c \in Str /\ Len(c) = Len(a) + Len(b) /\ Len(a) \in Nat /\ Len(b) \in Nat
      /\ \A i \in 1..Len(a) : c[i] = a[i]
      /\ \A i \in 1..Len(b) : c[Len(a) + i] = b[i]
      /\ \A k \in 1..(Len(a) + 1) : From(c, k) = From(a, k) \o b
      /\ \A k \in 1..(Len(b) + 1) : From(c, Len(a) + k) = From(b, k)
  BY Joined, FromJoined
<1> HIDE DEF c
<1>1. CASE \A i \in 1..Len(a) : a[i] = Blank
  <2>1. LStrip(a) = <<>>
    BY <1>1, AllBlank
  <2>2. ASSUME NEW i \in 1..Len(c)
        PROVE  i \in 1..Len(a) \/ \E j \in 1..Len(b) : i = Len(a) + j
    <3>1. CASE i <= Len(a)
      BY <1>0, <3>1
    <3>2. CASE i > Len(a)
      <4>1. i - Len(a) \in 1..Len(b) /\ i = Len(a) + (i - Len(a))
        BY <1>0, <3>2
      <4> QED
        BY <4>1
    <3> QED
      BY <1>0, <3>1, <3>2
  <2>3. CASE \A i \in 1..Len(b) : b[i] = Blank
    <3>1. \A i \in 1..Len(c) : c[i] = Blank
      BY <1>0, <1>1, <2>2, <2>3
    <3> QED
      BY <1>0, <2>1, <2>3, <3>1, AllBlank DEF c
  <2>4. ASSUME NEW k \in 1..Len(b), b[k] # Blank, \A i \in 1..(k - 1) : b[i] = Blank
        PROVE  LStrip(c) = LStrip(b)
    <3>1. Len(a) + k \in 1..Len(c) /\ c[Len(a) + k] # Blank
      BY <1>0, <2>4
    <3>2. ASSUME NEW i \in 1..((Len(a) + k) - 1)
          PROVE  c[i] = Blank
      <4>1. i \in 1..Len(c)
        BY <1>0
      <4>2. CASE i \in 1..Len(a)
        BY <1>0, <1>1, <4>2
      <4>3. ASSUME NEW j \in 1..Len(b), i = Len(a) + j
            PROVE  c[i] = Blank
        <5>1. j \in 1..(k - 1)
          BY <1>0, <4>3
        <5> QED
          BY <1>0, <2>4, <4>3, <5>1
      <4> QED
        BY <2>2, <4>1, <4>2, <4>3
    <3>3. LStrip(c) = From(c, Len(a) + k)
      BY <1>0, <3>1, <3>2, FirstLetter
    <3>4. LStrip(b) = From(b, k) /\ k \in 1..(Len(b) + 1)
      BY <1>0, <2>4, FirstLetter
    <3> QED
      BY <1>0, <3>3, <3>4
  <2> QED
    BY <2>1, <2>3, <2>4, LStripCases DEF c
<1>2. ASSUME NEW k \in 1..Len(a), a[k] # Blank, \A i \in 1..(k - 1) : a[i] = Blank
      PROVE  LStrip(a) # <<>> /\ LStrip(c) = LStrip(a) \o b
  <2>1. k \in 1..Len(c) /\ k \in 1..(Len(a) + 1) /\ c[k] # Blank
    BY <1>0, <1>2
  <2>2. \A i \in 1..(k - 1) : i \in 1..Len(a)
    BY <1>0
  <2>3. \A i \in 1..(k - 1) : c[i] = Blank
    BY <1>0, <1>2, <2>2
  <2>4. LStrip(c) = From(c, k)
    BY <1>0, <2>1, <2>3, FirstLetter
  <2>5. LStrip(a) = From(a, k) /\ LStrip(a) # <<>>
    BY <1>2, FirstLetter
  <2> QED
    BY <1>0, <2>1, <2>4, <2>5
<1> QED
  BY <1>1, <1>2, LStripCases DEF c
-----------------------------------------------------------------------------
(* ------------------------------- the parser, before the answer and in it *)

Formats == {"text", "json"}

Cut(n) == IF n <= 2 THEN 0 ELSE n - 2
CutAt(s) == Cut(Len(s))
Fields(e, f, st, b, fin, h, em, begun) ==
  [expectReasoning |-> e, format |-> f, state |-> st, buffer |-> b,
   final |-> fin, held |-> h, emitted |-> em, started |-> begun]
Reading(e, f, st, b) == Fields(e, f, st, b, <<>>, <<>>, <<>>, FALSE)
Answering(e, f, s) ==
  Fields(e, f, "final", <<>>, s, IF f = "json" THEN <<>> ELSE From(s, CutAt(s) + 1),
         IF f = "json" THEN <<>> ELSE SubSeq(s, 1, CutAt(s)), IF s = <<>> THEN FALSE ELSE TRUE)

(* The updates of a parser, as _accept_final and feed write them.             *)
FinalSet(p, fin, begun) == [p EXCEPT !.final = fin, !.started = begun]
Emitted(p, h, em) == [p EXCEPT !.held = h, !.emitted = em]
Moved(p, st, b) == [p EXCEPT !.state = st, !.buffer = b]

(* A parser field by field, and its updates.                                  *)
LEMMA FieldFacts ==
  ASSUME NEW e, NEW f, NEW st, NEW b, NEW fin, NEW h, NEW em, NEW begun
  PROVE  LET p == Fields(e, f, st, b, fin, h, em, begun)
         IN  /\ p.expectReasoning = e /\ p.format = f /\ p.state = st /\ p.buffer = b
             /\ p.final = fin /\ p.held = h /\ p.emitted = em /\ p.started = begun
BY DEF Fields

LEMMA FieldUpdates ==
  ASSUME NEW e, NEW f, NEW st, NEW b, NEW fin, NEW h, NEW em, NEW begun, NEW x, NEW y
  PROVE  /\ FinalSet(Fields(e, f, st, b, fin, h, em, begun), x, y)
              = Fields(e, f, st, b, x, h, em, y)
         /\ Emitted(Fields(e, f, st, b, fin, h, em, begun), x, y)
              = Fields(e, f, st, b, fin, x, y, begun)
         /\ Moved(Fields(e, f, st, b, fin, h, em, begun), x, y)
              = Fields(e, f, x, y, fin, h, em, begun)
<1>1. /\ [Fields(e, f, st, b, fin, h, em, begun) EXCEPT !.final = x]
           = Fields(e, f, st, b, x, h, em, begun)
      /\ [Fields(e, f, st, b, x, h, em, begun) EXCEPT !.started = y]
           = Fields(e, f, st, b, x, h, em, y)
  BY DEF Fields
<1>2. /\ [Fields(e, f, st, b, fin, h, em, begun) EXCEPT !.held = x]
           = Fields(e, f, st, b, fin, x, em, begun)
      /\ [Fields(e, f, st, b, fin, x, em, begun) EXCEPT !.emitted = y]
           = Fields(e, f, st, b, fin, x, y, begun)
  BY DEF Fields
<1>3. /\ [Fields(e, f, st, b, fin, h, em, begun) EXCEPT !.state = x]
           = Fields(e, f, x, b, fin, h, em, begun)
      /\ [Fields(e, f, x, b, fin, h, em, begun) EXCEPT !.buffer = y]
           = Fields(e, f, x, y, fin, h, em, begun)
  BY DEF Fields
<1>4. FinalSet(Fields(e, f, st, b, fin, h, em, begun), x, y) = Fields(e, f, st, b, x, h, em, y)
  BY <1>1 DEF FinalSet
<1>5. Emitted(Fields(e, f, st, b, fin, h, em, begun), x, y) = Fields(e, f, st, b, fin, x, y, begun)
  BY <1>2 DEF Emitted
<1>6. Moved(Fields(e, f, st, b, fin, h, em, begun), x, y) = Fields(e, f, x, y, fin, h, em, begun)
  BY <1>3 DEF Moved
<1> QED
  BY <1>4, <1>5, <1>6

(* Nothing accepted: nothing held back, nothing emitted.                      *)
LEMMA EmptyCut ==
  /\ CutAt(<<>>) = 0
  /\ From(<<>>, CutAt(<<>>) + 1) = <<>> /\ SubSeq(<<>>, 1, CutAt(<<>>)) = <<>>
<1>1. CutAt(<<>>) = 0 /\ 0 + 1 = 1
  BY EmptyText DEF Cut, CutAt
<1>2. From(<<>>, 1) = <<>> /\ SubSeq(<<>>, 1, 0) = <<>>
  BY EmptyText, SubSeqEmpty DEF From
<1> QED
  BY <1>1, <1>2

LEMMA Unanswered ==
  ASSUME NEW e, NEW f
  PROVE  Answering(e, f, <<>>) = Reading(e, f, "final", <<>>)
<1> DEFINE h == IF f = "json" THEN <<>> ELSE From(<<>>, CutAt(<<>>) + 1)
           em == IF f = "json" THEN <<>> ELSE SubSeq(<<>>, 1, CutAt(<<>>))
<1>1. h = <<>> /\ em = <<>>
  BY EmptyCut
<1> QED
  BY <1>1, Zenon DEF Answering, Reading

LEMMA ParserAtFirst ==
  ASSUME NEW e \in BOOLEAN, NEW f
  PROVE  Parser(e, f) = IF e THEN Reading(e, f, "detecting", <<>>) ELSE Answering(e, f, <<>>)
<1>1. Parser(e, f) = Reading(e, f, IF e THEN "detecting" ELSE "final", <<>>)
  BY DEF Parser, Reading, Fields
<1> QED
  BY <1>1, Unanswered, Zenon

(* As many characters are held back as a turn end has; in two goes the cut is *)
(* where it is in one.                                                        *)
LEMMA CutFacts ==
  ASSUME NEW s \in Str
  PROVE  CutAt(s) \in 0..Len(s) /\ Len(s) - CutAt(s) <= 2
BY DEF Cut, CutAt, Str

LEMMA CutJoined ==
  ASSUME NEW n \in Nat, NEW k \in Nat
  PROVE  /\ Cut((n + k) - Cut(n)) \in 0..((n + k) - Cut(n))
         /\ Cut(n) + Cut((n + k) - Cut(n)) = Cut(n + k)
BY DEF Cut

(* What more is accepted is joined to the answer.                             *)
LEMMA Accepting ==
  ASSUME NEW e, NEW f \in Formats, NEW s \in Str, NEW d \in Str
  PROVE  AcceptFinal(Answering(e, f, s), d) =
           Answering(e, f, IF s = <<>> THEN LStrip(d) ELSE s \o d)
<1> DEFINE p == Answering(e, f, s)
           new == IF p.started THEN d ELSE LStrip(d)
           w == s \o new
           held == p.held \o new
           cut == IF Len(held) <= Len(TurnEnd) THEN 0 ELSE Len(held) - Len(TurnEnd)
           begun == IF s = <<>> THEN FALSE ELSE TRUE
<1>1. /\ p.started = begun /\ p.final = s /\ p.format = f
      /\ f = "text" => p.held = From(s, CutAt(s) + 1) /\ p.emitted = SubSeq(s, 1, CutAt(s))
      /\ f = "json" => p.held = <<>> /\ p.emitted = <<>>
  BY DEF Answering, Fields, Formats
<1>2. new \in Str /\ new = (IF s = <<>> THEN LStrip(d) ELSE d)
  BY <1>1, LStripFacts
<1>3. w = IF s = <<>> THEN LStrip(d) ELSE s \o d
  BY <1>2, ConcatEmptySeq DEF Str
<1> DEFINE started == IF w = <<>> THEN FALSE ELSE TRUE
<1>4. (p.started \/ new # <<>>) = started
  BY <1>1, <1>2, <1>3, ConcatEqualIffEmpty DEF Str
<1>5. CASE f = "json"
  <2>1. AcceptFinal(p, d) = FinalSet(p, w, started)
    BY <1>1, <1>4, <1>5 DEF AcceptFinal, FinalSet
  <2>2. p = Fields(e, f, "final", <<>>, s, <<>>, <<>>, begun)
    BY <1>5 DEF Answering
  <2>3. Answering(e, f, w) = Fields(e, f, "final", <<>>, w, <<>>, <<>>, started)
    BY <1>5 DEF Answering
  <2> HIDE DEF p, w, new, started, begun
  <2>4. FinalSet(p, w, started) = Answering(e, f, w)
    BY <2>2, <2>3, FieldUpdates
  <2> QED
    BY <1>3, <2>1, <2>4 DEF p
<1>6. CASE f = "text"
  <2> DEFINE c == CutAt(s)
  <2>1. /\ c \in 0..Len(s) /\ Len(w) = Len(s) + Len(new) /\ Len(s) \in Nat /\ Len(new) \in Nat
        /\ w \in Str /\ c = Cut(Len(s))
    BY <1>2, CutFacts, Joined DEF CutAt
  <2>2. held = From(w, c + 1)
    <3>1. c + 1 \in 1..(Len(s) + 1)
      BY <2>1
    <3>2. From(s \o new, c + 1) = From(s, c + 1) \o new
      BY <1>2, <3>1, FromJoined
    <3> QED
      BY <1>1, <1>6, <3>2
  <2>3. Len(held) = Len(w) - c
    <3>1. c + 1 \in 1..(Len(w) + 1) /\ Len(w) - (c + 1) + 1 = Len(w) - c
      BY <2>1
    <3> QED
      BY <2>1, <2>2, <3>1, FromFacts
  <2>4. cut \in 0..(Len(w) - c) /\ c + cut = CutAt(w)
    <3>1. Len(TurnEnd) = 2
      BY CharacterFacts
    <3>2. cut = Cut(Len(held))
      BY <3>1 DEF Cut
    <3>3. CutAt(w) = Cut(Len(w))
      BY DEF CutAt
    <3> HIDE DEF held, w, new, c, cut
    <3>4. /\ Cut((Len(s) + Len(new)) - Cut(Len(s))) \in 0..((Len(s) + Len(new)) - Cut(Len(s)))
          /\ Cut(Len(s)) + Cut((Len(s) + Len(new)) - Cut(Len(s))) = Cut(Len(s) + Len(new))
      BY <2>1, CutJoined
    <3> QED
      BY <2>1, <2>3, <3>2, <3>3, <3>4
  <2>5. c \in 0..Len(w)
    BY <2>1
  <2>6. /\ From(held, cut + 1) = From(w, CutAt(w) + 1)
        /\ SubSeq(w, 1, c) \o SubSeq(held, 1, cut) = SubSeq(w, 1, CutAt(w))
    <3> HIDE DEF held, cut, w, c
    <3>1. /\ From(From(w, c + 1), cut + 1) = From(w, c + cut + 1)
          /\ SubSeq(w, 1, c) \o SubSeq(From(w, c + 1), 1, cut) = SubSeq(w, 1, c + cut)
      BY <2>1, <2>4, <2>5, Cutting
    <3> QED
      BY <2>2, <2>4, <3>1
  <2>7. p.emitted = SubSeq(w, 1, c)
    BY <1>1, <1>2, <1>6, <2>1, PrefixJoined
  <2> DEFINE h == From(held, cut + 1)
             em == p.emitted \o SubSeq(held, 1, cut)
  <2>8. FinalSet(p, w, started) =
          Fields(e, f, "final", <<>>, w, p.held, p.emitted, started)
    <3>1. p = Fields(e, f, "final", <<>>, s, p.held, p.emitted, begun)
      BY <1>1, <1>6 DEF Answering
    <3> DEFINE ph == p.held
               pe == p.emitted
    <3> HIDE DEF p, w, started, begun, ph, pe
    <3>2. p = Fields(e, f, "final", <<>>, s, ph, pe, begun)
      BY <3>1 DEF ph, pe
    <3>3. FinalSet(p, w, started) = Fields(e, f, "final", <<>>, w, ph, pe, started)
      BY <3>2, FieldUpdates
    <3> QED
      BY <3>3 DEF ph, pe
  <2>9. AcceptFinal(p, d) = Emitted(FinalSet(p, w, started), h, em)
    <3>1. p.format # "json"
      BY <1>1, <1>6
    <3>2. AcceptFinal(p, d) = [FinalSet(p, w, started) EXCEPT
             !.held = h, !.emitted = FinalSet(p, w, started).emitted \o SubSeq(held, 1, cut)]
      BY <1>1, <1>4, <3>1 DEF AcceptFinal, FinalSet
    <3>3. FinalSet(p, w, started).emitted = p.emitted
      <4> DEFINE ph == p.held
                 pe == p.emitted
      <4>1. FinalSet(p, w, started) = Fields(e, f, "final", <<>>, w, ph, pe, started)
        BY <2>8
      <4> HIDE DEF p, w, started, begun, ph, pe
      <4>2. FinalSet(p, w, started).emitted = pe
        BY <4>1 DEF Fields
      <4> QED
        BY <4>2 DEF pe
    <3> QED
      BY <3>2, <3>3 DEF Emitted
  <2>10. Answering(e, f, w) = Fields(e, f, "final", <<>>, w, h, em, started)
    BY <1>6, <2>6, <2>7 DEF Answering
  <2>11. Emitted(FinalSet(p, w, started), h, em) = Answering(e, f, w)
    <3> DEFINE ph == p.held
               pe == p.emitted
    <3>1. FinalSet(p, w, started) = Fields(e, f, "final", <<>>, w, ph, pe, started)
      BY <2>8
    <3> HIDE DEF p, w, started, begun, ph, pe, h, em
    <3> QED
      BY <2>10, <3>1, FieldUpdates
  <2> QED
    BY <1>3, <2>9, <2>11
<1> QED
  BY <1>5, <1>6 DEF Formats

(* The first of the answer, as feed and finish accept it.                     *)
LEMMA AnswerBegins ==
  ASSUME NEW e, NEW f \in Formats, NEW st, NEW b, NEW d \in Str
  PROVE  AcceptFinal(Moved(Reading(e, f, st, b), "final", <<>>), d) = Answering(e, f, LStrip(d))
<1>2. Moved(Reading(e, f, st, b), "final", <<>>) = Reading(e, f, "final", <<>>)
  <2> DEFINE none == <<>>
             no == FALSE
             final == "final"
  <2> HIDE DEF none, no, final
  <2>1. Moved(Fields(e, f, st, b, none, none, none, no), final, none)
          = Fields(e, f, final, none, none, none, none, no)
    BY FieldUpdates
  <2> QED
    BY <2>1 DEF Reading, none, no, final
<1>3. Moved(Reading(e, f, st, b), "final", <<>>) = Answering(e, f, <<>>)
  BY <1>2, Unanswered
<1>4. AcceptFinal(Answering(e, f, <<>>), d) = Answering(e, f, LStrip(d))
  BY Accepting, EmptyText
<1> QED
  BY <1>3, <1>4
-----------------------------------------------------------------------------
(* ------------------------------ the end of the reasoning in what is read *)

GStart(s) == Places(s, ReasoningStart("gemma"))
GEnd(s) == {i \in Places(s, ReasoningEnd("gemma")) : i > Least(GStart(s)) + 1}
QStart(s) == Places(s, ReasoningStart("qwen"))
QEnd(s) == Places(s, ReasoningEnd("qwen"))
EndOf(s) == IF Least(GStart(s)) # 0 THEN Least(GEnd(s)) ELSE Greatest(QEnd(s))
NextState(st, s) == IF Least(GStart(s)) # 0 THEN "gemma" ELSE IF QStart(s) # {} THEN "qwen" ELSE st

(* A text of one family, with no second end of the reasoning.                 *)
Simple(s) == /\ GStart(s) = {} \/ QEnd(s) = {}
             /\ \A i, j \in QEnd(s) : i = j

(* A longer text has the markers of its beginning, and others further on only.*)
LEMMA PartPlaces ==
  ASSUME NEW a \in Str, NEW b \in Str, NEW mark, mark = <<mark[1], mark[2]>>
  PROVE  /\ Places(a, mark) \in SUBSET (1..(Len(a) - 1))
         /\ Places(a, mark) \subseteq Places(a \o b, mark)
         /\ \A i \in Places(a \o b, mark) : i \in Places(a, mark) \/ i >= Len(a)
<1> DEFINE c == a \o b
<1>0. /\ c \in Str /\ Len(c) = Len(a) + Len(b) /\ Len(a) \in Nat /\ Len(b) \in Nat
      /\ \A i \in 1..Len(a) : c[i] = a[i]
  BY Joined
<1> HIDE DEF c
<1>1. /\ \A i \in 1..(Len(a) - 1) : i \in Places(a, mark) <=> a[i] = mark[1] /\ a[i + 1] = mark[2]
      /\ \A i \in 1..(Len(c) - 1) : i \in Places(c, mark) <=> c[i] = mark[1] /\ c[i + 1] = mark[2]
  <2> DEFINE x == mark[1]
             y == mark[2]
  <2>1. mark = <<x, y>>
    OBVIOUS
  <2> HIDE DEF x, y
  <2>2. /\ \A i \in 1..(Len(a) - 1) : i \in Places(a, <<x, y>>) <=> a[i] = x /\ a[i + 1] = y
        /\ \A i \in 1..(Len(c) - 1) : i \in Places(c, <<x, y>>) <=> c[i] = x /\ c[i + 1] = y
    BY <1>0, PlacesFacts
  <2> QED
    BY <2>1, <2>2 DEF x, y
<1>2. Places(a, mark) \in SUBSET (1..(Len(a) - 1)) /\ Places(c, mark) \in SUBSET (1..(Len(c) - 1))
  BY DEF Places
<1>3. \A i \in 1..(Len(a) - 1) : /\ i \in 1..(Len(c) - 1) /\ i \in 1..Len(a) /\ i + 1 \in 1..Len(a)
                                 /\ c[i] = a[i] /\ c[i + 1] = a[i + 1]
  BY <1>0
<1>4. \A i \in 1..(Len(a) - 1) : i \in Places(a, mark) <=> i \in Places(c, mark)
  BY <1>1, <1>3
<1>5. \A i \in 1..(Len(c) - 1) : i \in 1..(Len(a) - 1) \/ i >= Len(a)
  BY <1>0
<1> QED
  BY <1>2, <1>4, <1>5 DEF c

(* Where the markers are.                                                     *)
LEMMA MarkFacts ==
  ASSUME NEW s \in Str
  PROVE  /\ GStart(s) \in SUBSET (1..(Len(s) - 1)) /\ QStart(s) \in SUBSET (1..(Len(s) - 1))
         /\ QEnd(s) \in SUBSET (1..(Len(s) - 1)) /\ GEnd(s) \in SUBSET (1..(Len(s) - 1))
         /\ Least(GStart(s)) \in 0..(Len(s) + 1) /\ (Least(GStart(s)) = 0 <=> GStart(s) = {})
         /\ EndOf(s) \in 0..Len(s) /\ (EndOf(s) # 0 => EndOf(s) + 2 \in 1..(Len(s) + 1))
<1>1. /\ GStart(s) \in SUBSET (1..(Len(s) - 1)) /\ QStart(s) \in SUBSET (1..(Len(s) - 1))
      /\ QEnd(s) \in SUBSET (1..(Len(s) - 1)) /\ GEnd(s) \in SUBSET (1..(Len(s) - 1))
  BY DEF GStart, QStart, QEnd, GEnd, Places
<1>2. Len(s) \in Nat
  BY DEF Str
<1>3. /\ GStart(s) \in SUBSET (Nat \ {0}) /\ GEnd(s) \in SUBSET (Nat \ {0})
      /\ QEnd(s) \in SUBSET (1..Len(s))
  BY <1>1, <1>2
<1>4. /\ GStart(s) = {} => Least(GStart(s)) = 0
      /\ GStart(s) # {} => Least(GStart(s)) \in GStart(s)
      /\ GEnd(s) = {} => Least(GEnd(s)) = 0
      /\ GEnd(s) # {} => Least(GEnd(s)) \in GEnd(s)
      /\ QEnd(s) = {} => Greatest(QEnd(s)) = 0
      /\ QEnd(s) # {} => Greatest(QEnd(s)) \in QEnd(s)
  BY <1>2, <1>3, LeastFacts, GreatestFacts
<1>5. Least(GStart(s)) \in 0..(Len(s) + 1) /\ (Least(GStart(s)) = 0 <=> GStart(s) = {})
  BY <1>1, <1>2, <1>4
<1>6. EndOf(s) = 0 \/ EndOf(s) \in 1..(Len(s) - 1)
  BY <1>1, <1>4 DEF EndOf
<1> QED
  BY <1>1, <1>2, <1>5, <1>6

(* More that comes later does not move the first.                             *)
LEMMA LeastKept ==
  ASSUME NEW n \in Nat, NEW S \in SUBSET (1..(n - 1)), NEW T \in SUBSET (Nat \ {0}),
         S # {}, S \subseteq T, \A i \in T : i \in S \/ i >= n
  PROVE  Least(T) = Least(S)
<1>1. S \in SUBSET (Nat \ {0}) /\ T # {}
  OBVIOUS
<1>2. /\ Least(S) \in S /\ \A k \in S : Least(S) <= k
      /\ Least(T) \in T /\ \A k \in T : Least(T) <= k
  BY <1>1, LeastFacts
<1> DEFINE x == Least(S)
           y == Least(T)
<1>3. x \in 1..(n - 1) /\ y \in Nat /\ y <= x
  BY <1>2
<1>4. ~(y >= n)
  BY <1>3
<1>5. y \in S
  BY <1>2, <1>4
<1>6. x <= y
  BY <1>2, <1>5
<1> QED
  BY <1>3, <1>6

LEMMA PartMarks ==
  ASSUME NEW a \in Str, NEW b \in Str
  PROVE  /\ GStart(a) \subseteq GStart(a \o b) /\ QStart(a) \subseteq QStart(a \o b)
         /\ QEnd(a) \subseteq QEnd(a \o b)
         /\ GStart(a) # {} => /\ Least(GStart(a \o b)) = Least(GStart(a))
                              /\ GEnd(a) # {} => Least(GEnd(a \o b)) = Least(GEnd(a))
         /\ Simple(a \o b) => Simple(a)
<1> DEFINE c == a \o b
<1>0. c \in Str /\ Len(a) \in Nat /\ Len(c) \in Nat
  BY Joined
<1>1. \A f \in {"qwen", "gemma"} :
         /\ Places(a, ReasoningStart(f)) \subseteq Places(c, ReasoningStart(f))
         /\ \A i \in Places(c, ReasoningStart(f)) : i \in Places(a, ReasoningStart(f)) \/ i >= Len(a)
         /\ Places(a, ReasoningEnd(f)) \subseteq Places(c, ReasoningEnd(f))
         /\ \A i \in Places(c, ReasoningEnd(f)) : i \in Places(a, ReasoningEnd(f)) \/ i >= Len(a)
  BY CharacterFacts, PartPlaces
<1>2. GStart(a) \subseteq GStart(c) /\ QStart(a) \subseteq QStart(c) /\ QEnd(a) \subseteq QEnd(c)
  BY <1>1 DEF GStart, QStart, QEnd
<1>3. /\ GStart(a) \in SUBSET (1..(Len(a) - 1)) /\ GEnd(a) \in SUBSET (1..(Len(a) - 1))
      /\ GStart(c) \in SUBSET (1..(Len(c) - 1)) /\ GEnd(c) \in SUBSET (1..(Len(c) - 1))
  BY <1>0, MarkFacts
<1>4. GStart(c) \in SUBSET (Nat \ {0}) /\ GEnd(c) \in SUBSET (Nat \ {0})
  BY <1>0, <1>3
<1>5. ASSUME GStart(a) # {}
      PROVE  /\ Least(GStart(c)) = Least(GStart(a))
             /\ GEnd(a) # {} => Least(GEnd(c)) = Least(GEnd(a))
  <2>1. \A i \in GStart(c) : i \in GStart(a) \/ i >= Len(a)
    BY <1>1 DEF GStart
  <2>2. Least(GStart(c)) = Least(GStart(a))
    BY <1>0, <1>2, <1>3, <1>4, <1>5, <2>1, LeastKept
  <2>3. GEnd(a) \subseteq GEnd(c) /\ \A i \in GEnd(c) : i \in GEnd(a) \/ i >= Len(a)
    BY <1>1, <2>2 DEF GEnd
  <2>4. ASSUME GEnd(a) # {}
        PROVE  Least(GEnd(c)) = Least(GEnd(a))
    BY <1>0, <1>3, <1>4, <2>3, <2>4, LeastKept
  <2> QED
    BY <2>2, <2>4
<1>6. Simple(c) => Simple(a)
  BY <1>2 DEF Simple
<1> QED
  BY <1>2, <1>5, <1>6

(* The reasoning ends where it ended, and the family that was seen stays.     *)
LEMMA EndKept ==
  ASSUME NEW a \in Str, NEW b \in Str, Simple(a \o b), EndOf(a) # 0
  PROVE  EndOf(a \o b) = EndOf(a)
<1> DEFINE c == a \o b
<1>0. c \in Str /\ Len(c) \in Nat /\ Len(a) \in Nat
  BY Joined
<1>1. /\ Least(GStart(a)) = 0 <=> GStart(a) = {}
      /\ Least(GStart(c)) = 0 <=> GStart(c) = {}
      /\ QEnd(a) \in SUBSET (1..(Len(a) - 1)) /\ QEnd(c) \in SUBSET (1..(Len(c) - 1))
      /\ GEnd(a) \in SUBSET (1..(Len(a) - 1))
  BY <1>0, MarkFacts
<1>2. /\ QEnd(a) \in SUBSET (1..Len(a)) /\ QEnd(c) \in SUBSET (1..Len(c))
      /\ GEnd(a) \in SUBSET (Nat \ {0})
  BY <1>0, <1>1
<1>3. CASE GStart(a) # {}
  <2>1. GEnd(a) # {}
    BY <1>1, <1>2, <1>3, LeastFacts DEF EndOf
  <2>2. Least(GStart(c)) = Least(GStart(a)) /\ Least(GEnd(c)) = Least(GEnd(a))
    BY <1>3, <2>1, PartMarks
  <2> QED
    BY <1>1, <1>3, <2>2 DEF EndOf
<1>4. CASE GStart(a) = {}
  <2>1. QEnd(a) # {}
    BY <1>0, <1>1, <1>2, <1>4, GreatestFacts DEF EndOf
  <2>2. QEnd(a) \subseteq QEnd(c)
    BY PartMarks
  <2>3. GStart(c) = {} /\ QEnd(c) # {}
    BY <2>1, <2>2 DEF Simple
  <2>4. Greatest(QEnd(a)) \in QEnd(a) /\ Greatest(QEnd(c)) \in QEnd(c)
    BY <1>0, <1>2, <2>1, <2>3, GreatestFacts
  <2>5. Greatest(QEnd(a)) = Greatest(QEnd(c))
    BY <2>2, <2>4 DEF Simple
  <2> QED
    BY <1>1, <1>4, <2>3, <2>5 DEF EndOf
<1> QED
  BY <1>3, <1>4

LEMMA StateKept ==
  ASSUME NEW a \in Str, NEW b \in Str, NEW st
  PROVE  NextState(NextState(st, a), a \o b) = NextState(st, a \o b)
<1>1. /\ GStart(a) \subseteq GStart(a \o b) /\ QStart(a) \subseteq QStart(a \o b)
      /\ a \o b \in Str
  BY PartMarks, Joined
<1>2. /\ Least(GStart(a)) = 0 <=> GStart(a) = {}
      /\ Least(GStart(a \o b)) = 0 <=> GStart(a \o b) = {}
  BY <1>1, MarkFacts
<1> QED
  BY <1>1, <1>2 DEF NextState
-----------------------------------------------------------------------------
(* -------------------------------- feed, on what was read or on an answer *)

States == {"detecting", "gemma", "qwen"}

(* feed before the answer: it has begun, or all of it is kept to be read again.*)
LEMMA FeedReading ==
  ASSUME NEW e, NEW f \in Formats, NEW st \in States, NEW b \in Str, NEW d \in Str
  PROVE  Feed(Reading(e, f, st, b), d) =
           IF EndOf(b \o d) # 0 THEN Answering(e, f, LStrip(From(b \o d, EndOf(b \o d) + 2)))
           ELSE Reading(e, f, NextState(st, b \o d), b \o d)
<1> DEFINE p == Reading(e, f, st, b)
           c == b \o d
           fin == AcceptFinal(Moved(p, "final", <<>>), From(c, EndOf(c) + 2))
<1>0. c \in Str
  BY Joined
<1>1. p.state = st /\ p.buffer = b /\ st # "final"
  BY DEF Reading, Fields, States
<1>2. EndOf(c) # 0 => fin = Answering(e, f, LStrip(From(c, EndOf(c) + 2)))
  <2>1. EndOf(c) # 0 => From(c, EndOf(c) + 2) \in Str
    BY <1>0, MarkFacts, FromFacts
  <2> QED
    BY <2>1, AnswerBegins
<1>3. Moved(p, NextState(st, c), c) = Reading(e, f, NextState(st, c), c)
  <2> DEFINE none == <<>>
             no == FALSE
             next == NextState(st, c)
             more == c
  <2> HIDE DEF none, no, next, more
  <2>1. Moved(Fields(e, f, st, b, none, none, none, no), next, more)
          = Fields(e, f, next, more, none, none, none, no)
    BY FieldUpdates
  <2> QED
    BY <2>1 DEF Reading, none, no, next, more
<1>4. Least({i \in Places(c, ReasoningEnd("gemma")) : i > Least(Places(c, ReasoningStart("gemma"))) + 1})
        = Least(GEnd(c))
  BY DEF GEnd, GStart
<1>5. CASE EndOf(c) # 0
  <2>1. CASE Least(GStart(c)) # 0
    <3>1. EndOf(c) = Least(GEnd(c))
      BY <2>1 DEF EndOf
    <3>2. Feed(p, d) = fin
      BY <1>1, <1>4, <1>5, <2>1, <3>1 DEF Feed, GStart, Moved
    <3> QED
      BY <1>2, <1>5, <3>2
  <2>2. CASE Least(GStart(c)) = 0
    <3>1. EndOf(c) = Greatest(QEnd(c))
      BY <2>2 DEF EndOf
    <3>2. Feed(p, d) = fin
      BY <1>1, <1>5, <2>2, <3>1 DEF Feed, GStart, QEnd, Moved
    <3> QED
      BY <1>2, <1>5, <3>2
  <2> QED
    BY <2>1, <2>2
<1>6. CASE EndOf(c) = 0
  <2>1. CASE Least(GStart(c)) # 0
    <3>1. Least(GEnd(c)) = 0 /\ NextState(st, c) = "gemma"
      BY <1>6, <2>1 DEF EndOf, NextState
    <3>2. Feed(p, d) = Moved(p, "gemma", c)
      BY <1>1, <1>4, <2>1, <3>1 DEF Feed, GStart, Moved
    <3> QED
      BY <1>3, <1>6, <3>1, <3>2
  <2>2. CASE Least(GStart(c)) = 0
    <3>1. Greatest(QEnd(c)) = 0 /\ NextState(st, c) = IF QStart(c) # {} THEN "qwen" ELSE st
      BY <1>6, <2>2 DEF EndOf, NextState
    <3>2. Feed(p, d) = [p EXCEPT !.buffer = c, !.state = NextState(st, c)]
      BY <1>1, <2>2, <3>1 DEF Feed, GStart, QEnd, QStart
    <3>3. [p EXCEPT !.buffer = c, !.state = NextState(st, c)] = Moved(p, NextState(st, c), c)
      BY DEF Moved
    <3> QED
      BY <1>3, <1>6, <3>2, <3>3
  <2> QED
    BY <2>1, <2>2
<1> QED
  BY <1>5, <1>6

(* feed in the answer.                                                        *)
LEMMA FeedAnswering ==
  ASSUME NEW e, NEW f \in Formats, NEW s \in Str, NEW d \in Str
  PROVE  Feed(Answering(e, f, s), d) = Answering(e, f, IF s = <<>> THEN LStrip(d) ELSE s \o d)
<1>1. Answering(e, f, s).state = "final"
  BY DEF Answering, Fields
<1>2. Feed(Answering(e, f, s), d) = AcceptFinal(Answering(e, f, s), d)
  BY <1>1 DEF Feed
<1> QED
  BY <1>2, Accepting

(* The parser after a text of which it was fed one piece.                     *)
After(e, f, s) ==
  IF ~e THEN Answering(e, f, LStrip(s))
  ELSE IF EndOf(s) # 0 THEN Answering(e, f, LStrip(From(s, EndOf(s) + 2)))
  ELSE Reading(e, f, NextState("detecting", s), s)

(* The text in one piece, as ai.llm feeds it.                                 *)
LEMMA FedOnce ==
  ASSUME NEW e \in BOOLEAN, NEW f \in Formats, NEW s \in Str
  PROVE  Feed(Parser(e, f), s) = After(e, f, s)
<1>1. <<>> \in Str /\ <<>> \o s = s
  BY EmptyText, ConcatEmptySeq DEF Str
<1>2. CASE ~e
  <2>1. Parser(e, f) = Answering(e, f, <<>>)
    BY <1>2, ParserAtFirst
  <2>2. Feed(Answering(e, f, <<>>), s) = Answering(e, f, LStrip(s))
    BY <1>1, FeedAnswering
  <2> QED
    BY <1>2, <2>1, <2>2 DEF After
<1>3. CASE e
  <2>1. Parser(e, f) = Reading(e, f, "detecting", <<>>)
    BY <1>3, ParserAtFirst
  <2>2. Feed(Reading(e, f, "detecting", <<>>), <<>> \o s) =
          IF EndOf(<<>> \o s) # 0 THEN Answering(e, f, LStrip(From(<<>> \o s, EndOf(<<>> \o s) + 2)))
          ELSE Reading(e, f, NextState("detecting", <<>> \o s), <<>> \o s)
    <3> DEFINE z == <<>>
               st == "detecting"
    <3>1. z \in Str /\ st \in States
      BY <1>1 DEF States
    <3> HIDE DEF z, st
    <3>2. Feed(Reading(e, f, st, z), s) =
            IF EndOf(z \o s) # 0 THEN Answering(e, f, LStrip(From(z \o s, EndOf(z \o s) + 2)))
            ELSE Reading(e, f, NextState(st, z \o s), z \o s)
      BY <3>1, FeedReading
    <3> QED
      BY <1>1, <3>2 DEF z, st
  <2> QED
    BY <1>1, <1>3, <2>1, <2>2 DEF After
<1> QED
  BY <1>2, <1>3

(* Wherever a text is cut.                                                    *)
LEMMA FedInPieces ==
  ASSUME NEW e \in BOOLEAN, NEW f \in Formats, NEW a \in Str, NEW b \in Str, Simple(a \o b)
  PROVE  Feed(After(e, f, a), b) = After(e, f, a \o b)
<1>0. a \o b \in Str
  BY Joined
<1>1. ASSUME NEW k \in 1..(Len(a) + 1)
      PROVE  Feed(Answering(e, f, LStrip(From(a, k))), b)
               = Answering(e, f, LStrip(From(a \o b, k)))
  <2> DEFINE s == LStrip(From(a, k))
  <2>1. From(a, k) \in Str /\ From(a \o b, k) = From(a, k) \o b
    BY FromFacts, FromJoined
  <2>2. s \in Str
    BY <2>1, LStripFacts
  <2>3. LStrip(From(a \o b, k)) = IF s = <<>> THEN LStrip(b) ELSE s \o b
    BY <2>1, LStripJoined
  <2> QED
    BY <2>2, <2>3, FeedAnswering
<1>2. CASE ~e
  <2>1. 1 \in 1..(Len(a) + 1) /\ From(a, 1) = a /\ From(a \o b, 1) = a \o b
    BY <1>0, SubSeqFull DEF From, Str
  <2> QED
    BY <1>1, <1>2, <2>1 DEF After
<1>3. CASE e /\ EndOf(a) # 0
  <2>1. EndOf(a \o b) = EndOf(a) /\ EndOf(a) + 2 \in 1..(Len(a) + 1)
    BY <1>3, EndKept, MarkFacts
  <2> QED
    BY <1>1, <1>3, <2>1 DEF After
<1>4. CASE e /\ EndOf(a) = 0
  <2> DEFINE st == NextState("detecting", a)
  <2>1. After(e, f, a) = Reading(e, f, st, a)
    BY <1>4 DEF After
  <2>2. st \in States
    BY DEF NextState, States
  <2>3. NextState(st, a \o b) = NextState("detecting", a \o b)
    BY StateKept
  <2> DEFINE c == a \o b
  <2> HIDE DEF st
  <2>4. Feed(Reading(e, f, st, a), b) =
          IF EndOf(c) # 0 THEN Answering(e, f, LStrip(From(c, EndOf(c) + 2)))
          ELSE Reading(e, f, NextState(st, c), c)
    BY <2>2, FeedReading
  <2> HIDE DEF c
  <2>5. After(e, f, c) = IF EndOf(c) # 0 THEN Answering(e, f, LStrip(From(c, EndOf(c) + 2)))
                         ELSE Reading(e, f, NextState("detecting", c), c)
    BY <1>4 DEF After
  <2>6. NextState(st, c) = NextState("detecting", c)
    BY <2>3 DEF c
  <2> QED
    BY <2>1, <2>4, <2>5, <2>6 DEF c
<1> QED
  BY <1>2, <1>3, <1>4

-----------------------------------------------------------------------------
(* ---------------------------------------------------------------- finish *)

Ends == {Blank, TurnEnd[1], TurnEnd[2]}

(* Pieces of a text and what they make together.                              *)
LEMMA Split ==
  ASSUME NEW u \in Str, NEW c \in 0..Len(u)
  PROVE  SubSeq(u, 1, c) \o From(u, c + 1) = u
<1>1. /\ Len(u) \in Nat /\ 1 \in 1..(Len(u) + 1) /\ c \in (1 - 1)..Len(u)
      /\ Len(u) \in c..Len(u)
  BY DEF Str
<1>2. SubSeq(u, 1, c) \o SubSeq(u, c + 1, Len(u)) = SubSeq(u, 1, Len(u))
  BY <1>1, ConcatAdjacentSubSeq DEF Str
<1> QED
  BY <1>2, SubSeqFull DEF From, Str

LEMMA NextPiece ==
  ASSUME NEW u \in Str, NEW c \in 0..Len(u), NEW n \in Nat, n <= Len(u) - c
  PROVE  /\ SubSeq(u, c + 1, c + n) \in Str /\ c + n \in 0..Len(u)
         /\ SubSeq(u, 1, c) \o SubSeq(u, c + 1, c + n) = SubSeq(u, 1, c + n)
<1>1. /\ Len(u) \in Nat /\ 1 \in 1..(Len(u) + 1) /\ c \in (1 - 1)..Len(u)
      /\ c + n \in c..Len(u) /\ c + 1 \in Int /\ c + n \in Int
      /\ \A i \in (c + 1)..(c + n) : i \in 1..Len(u)
  BY DEF Str
<1>2. \A i \in (c + 1)..(c + n) : u[i] \in Characters
  BY <1>1 DEF Str
<1>3. SubSeq(u, c + 1, c + n) \in Str
  BY <1>1, <1>2, SubSeqProperties DEF Str
<1>4. SubSeq(u, 1, c) \o SubSeq(u, c + 1, c + n) = SubSeq(u, 1, c + n)
  BY <1>1, ConcatAdjacentSubSeq DEF Str
<1> QED
  BY <1>1, <1>3, <1>4

LEMMA ShorterPrefix ==
  ASSUME NEW u \in Str, NEW n \in 0..Len(u), NEW c \in 0..n
  PROVE  SubSeq(SubSeq(u, 1, n), 1, c) = SubSeq(u, 1, c)
<1> DEFINE a == SubSeq(u, 1, n)
           b == From(u, n + 1)
<1>1. a \in Str /\ Len(a) = n /\ n + 1 \in 1..(Len(u) + 1)
  BY PrefixFacts DEF Str
<1>2. b \in Str /\ a \o b = u
  BY <1>1, FromFacts, Split
<1> HIDE DEF a, b
<1> QED
  BY <1>1, <1>2, PrefixJoined DEF a

(* What is sent after a prefix of u to make another.                          *)
LEMMA Grown ==
  ASSUME NEW u \in Str, NEW c \in 0..Len(u), NEW m \in 0..Len(u)
  PROVE  SubSeq(u, 1, c) \o From(SubSeq(u, 1, m), c + 1) = SubSeq(u, 1, IF c <= m THEN m ELSE c)
<1> DEFINE v == SubSeq(u, 1, m)
<1>1. v \in Str /\ Len(v) = m /\ SubSeq(u, 1, c) \in Str
  BY PrefixFacts
<1>2. CASE c <= m
  <2>1. c \in 0..m
    BY <1>2
  <2>2. SubSeq(v, 1, c) = SubSeq(u, 1, c)
    BY <2>1, ShorterPrefix
  <2> HIDE DEF v
  <2>3. SubSeq(v, 1, c) \o From(v, c + 1) = v
    BY <1>1, <2>1, Split
  <2> QED
    BY <1>2, <2>2, <2>3 DEF v
<1>3. CASE c > m
  <2>1. c + 1 \in Int /\ m \in Int /\ m < c + 1 /\ ~(c <= m)
    BY <1>3
  <2>2. From(v, c + 1) = <<>>
    <3> HIDE DEF v
    <3> QED
      BY <1>1, <2>1, SubSeqEmpty DEF From
  <2> QED
    BY <1>1, <2>1, <2>2, ConcatEmptySeq DEF Str
<1> QED
  BY <1>2, <1>3

(* rstrip leaves a beginning of the text.                                     *)
LEMMA RStripFacts ==
  ASSUME NEW s \in Str
  PROVE  \E k \in 0..Len(s) : /\ RStrip(s) = SubSeq(s, 1, k)
                              /\ \A i \in (k + 1)..Len(s) : s[i] = Blank
<1> DEFINE S == NonBlank(s)
           k == Greatest(S)
<1>1. Len(s) \in Nat /\ S \in SUBSET (1..Len(s))
  BY DEF NonBlank, Str
<1>2. /\ S = {} => k = 0
      /\ S # {} => k \in S /\ \A i \in S : k >= i
  <2> HIDE DEF S
  <2> QED
    BY <1>1, GreatestFacts
<1>3. k \in 0..Len(s)
  BY <1>1, <1>2
<1>4. ASSUME NEW i \in (k + 1)..Len(s)
      PROVE  s[i] = Blank
  <2>1. i \in 1..Len(s) /\ ~(k >= i)
    BY <1>1, <1>3
  <2>2. i \notin S
    BY <1>2, <2>1
  <2> QED
    BY <2>1, <2>2 DEF NonBlank
<1>5. RStrip(s) = SubSeq(s, 1, k)
  BY DEF RStrip
<1> QED
  BY <1>3, <1>4, <1>5

(* A text that ends with a turn end.                                          *)
LEMMA ReverseFacts ==
  ASSUME NEW s \in Str
  PROVE  /\ Reverse(s) \in Str /\ Len(Reverse(s)) = Len(s)
         /\ \A i \in 1..Len(s) : Reverse(s)[i] = s[(Len(s) - i) + 1]
<1>1. Len(s) \in Nat /\ \A i \in 1..Len(s) : (Len(s) - i) + 1 \in 1..Len(s)
  BY DEF Str
<1>2. \A i \in 1..Len(s) : s[(Len(s) - i) + 1] \in Characters
  BY <1>1 DEF Str
<1>3. Reverse(s) \in Seq(Characters) /\ DOMAIN Reverse(s) = 1..Len(s)
  BY <1>1, <1>2 DEF Reverse
<1>4. Len(Reverse(s)) = Len(s)
  BY <1>1, <1>3, LenProperties
<1> QED
  BY <1>3, <1>4 DEF Reverse, Str

LEMMA SuffixFacts ==
  ASSUME NEW s \in Str, IsSuffix(TurnEnd, s)
  PROVE  Len(s) >= 2 /\ s[Len(s)] = TurnEnd[2] /\ s[Len(s) - 1] = TurnEnd[1]
<1> DEFINE r == Reverse(s)
           t == Reverse(TurnEnd)
<1>0. TurnEnd \in Str /\ Len(TurnEnd) = 2 /\ 1 \in 1..2 /\ 2 \in 1..2
  BY DEF TurnEnd, Str, Characters, Markers
<1>1. /\ t \in Str /\ Len(t) = 2 /\ t[1] = TurnEnd[(2 - 1) + 1] /\ t[2] = TurnEnd[(2 - 2) + 1]
  BY <1>0, ReverseFacts
<1>2. /\ r \in Str /\ Len(r) = Len(s) /\ Len(s) \in Nat
      /\ \A i \in 1..Len(s) : r[i] = s[(Len(s) - i) + 1]
  BY ReverseFacts DEF Str
<1> HIDE DEF r, t
<1>3. Len(t) <= Len(r) /\ SubSeq(t, 1, Len(t)) = SubSeq(r, 1, Len(t))
  BY DEF IsSuffix, IsPrefix, r, t
<1>4. 2 \in 0..Len(r) /\ 2 \in 0..Len(t)
  BY <1>1, <1>2, <1>3
<1>5. /\ \A j \in 1..2 : SubSeq(r, 1, 2)[j] = r[j]
      /\ \A j \in 1..2 : SubSeq(t, 1, 2)[j] = t[j]
  BY <1>1, <1>2, <1>4, PrefixFacts
<1>6. t[1] = r[1] /\ t[2] = r[2]
  BY <1>0, <1>1, <1>3, <1>5
<1>7. 1 \in 1..Len(s) /\ 2 \in 1..Len(s) /\ (Len(s) - 1) + 1 = Len(s) /\ (Len(s) - 2) + 1 = Len(s) - 1
  BY <1>2, <1>4
<1>8. r[1] = s[Len(s)] /\ r[2] = s[Len(s) - 1]
  BY <1>2, <1>7
<1>9. (2 - 1) + 1 = 2 /\ (2 - 2) + 1 = 1 /\ Len(s) >= 2
  BY <1>2, <1>4
<1> QED
  BY <1>1, <1>6, <1>8, <1>9

(* The text that is answered.                                                 *)
AnswerText(s) ==
  LET stripped == RStrip(LStrip(s))
  IN  IF IsSuffix(TurnEnd, stripped) THEN RStrip(SubSeq(stripped, 1, Len(stripped) - 2)) ELSE stripped

(* What finish strips is at the end of the text, all blanks and turn ends.    *)
LEMMA AnswerTextFacts ==
  ASSUME NEW s \in Str, Stripped(s)
  PROVE  \E k \in 0..Len(s) : /\ AnswerText(s) = SubSeq(s, 1, k)
                              /\ \A i \in (k + 1)..Len(s) : s[i] \in Ends
<1>1. LStrip(s) = s /\ Len(s) \in Nat
  BY LStripFacts DEF Str
<1>2. PICK m \in 0..Len(s) : /\ RStrip(s) = SubSeq(s, 1, m)
                             /\ \A i \in (m + 1)..Len(s) : s[i] = Blank
  BY RStripFacts
<1> DEFINE r == RStrip(s)
<1>3. r \in Str /\ Len(r) = m /\ \A j \in 1..m : r[j] = s[j]
  BY <1>2, PrefixFacts
<1> HIDE DEF r
<1>4. CASE ~IsSuffix(TurnEnd, r)
  <2>1. AnswerText(s) = SubSeq(s, 1, m)
    BY <1>1, <1>2, <1>4 DEF AnswerText, r
  <2> QED
    BY <1>2, <2>1 DEF Ends
<1>5. CASE IsSuffix(TurnEnd, r)
  <2>1. m >= 2 /\ r[m] = TurnEnd[2] /\ r[m - 1] = TurnEnd[1]
    BY <1>3, <1>5, SuffixFacts
  <2> DEFINE u == SubSeq(r, 1, m - 2)
  <2>2. m - 2 \in 0..m /\ m - 2 \in 0..Len(s) /\ m \in 1..m /\ m - 1 \in 1..m
    BY <1>1, <1>3, <2>1
  <2>3. u = SubSeq(s, 1, m - 2)
    <3>1. r = SubSeq(s, 1, m)
      BY <1>2 DEF r
    <3> QED
      BY <2>2, <3>1, ShorterPrefix
  <2>4. u \in Str /\ Len(u) = m - 2 /\ \A j \in 1..(m - 2) : u[j] = s[j]
    BY <2>2, <2>3, PrefixFacts
  <2>5. AnswerText(s) = RStrip(u)
    BY <1>1, <1>3, <1>5 DEF AnswerText, r
  <2> HIDE DEF u
  <2>6. PICK k \in 0..Len(u) : /\ RStrip(u) = SubSeq(u, 1, k)
                               /\ \A i \in (k + 1)..Len(u) : u[i] = Blank
    BY <2>4, RStripFacts
  <2>7. k \in 0..(m - 2) /\ k \in 0..Len(s)
    BY <1>1, <2>2, <2>4, <2>6
  <2>8. AnswerText(s) = SubSeq(s, 1, k)
    BY <2>2, <2>3, <2>5, <2>6, <2>7, ShorterPrefix
  <2>9. ASSUME NEW i \in (k + 1)..Len(s)
        PROVE  s[i] \in Ends
    <3>1. CASE i \in (k + 1)..(m - 2)
      <4>1. u[i] = Blank /\ i \in 1..(m - 2)
        BY <2>4, <2>6, <2>7, <3>1
      <4> QED
        BY <2>4, <4>1 DEF Ends
    <3>2. CASE i = m - 1 \/ i = m
      BY <1>3, <2>1, <2>2, <3>2 DEF Ends
    <3>3. CASE i \in (m + 1)..Len(s)
      BY <1>2, <3>3 DEF Ends
    <3>4. i \in (k + 1)..(m - 2) \/ i = m - 1 \/ i = m \/ i \in (m + 1)..Len(s)
      BY <1>1, <2>2, <2>7
    <3> QED
      BY <3>1, <3>2, <3>3, <3>4
  <2> QED
    BY <2>7, <2>8, <2>9
<1> QED
  BY <1>4, <1>5

EmittedOf(f, s) == IF f = "json" THEN <<>> ELSE SubSeq(s, 1, CutAt(s))

(* The delta of a chunk is what it adds to what was emitted.                  *)
LEMMA EmittedGrows ==
  ASSUME NEW e \in BOOLEAN, NEW f \in Formats, NEW a \in Str, NEW b \in Str, Simple(a \o b)
  PROVE  LET p == After(e, f, a)
             q == After(e, f, a \o b)
         IN  p.emitted \o From(q.emitted, Len(p.emitted) + 1) = q.emitted
<1>0. a \o b \in Str /\ Len(<<>>) + 1 = 1
  BY Joined, EmptyText
<1>1. ASSUME NEW u \in Str
      PROVE  EmittedOf(f, u) \in Str /\ <<>> \o From(EmittedOf(f, u), Len(<<>>) + 1) = EmittedOf(f, u)
  <2>1. EmittedOf(f, u) \in Str
    BY CutFacts, PrefixFacts, EmptyText DEF EmittedOf
  <2>2. From(EmittedOf(f, u), 1) = EmittedOf(f, u)
    BY <2>1, SubSeqFull DEF From, Str
  <2> QED
    BY <1>0, <2>1, <2>2, ConcatEmptySeq DEF Str
<1>2. ASSUME NEW s \in Str, NEW d \in Str
      PROVE  EmittedOf(f, s) \o From(EmittedOf(f, s \o d), Len(EmittedOf(f, s)) + 1) = EmittedOf(f, s \o d)
  <2>1. CASE f = "json"
    <3>1. EmittedOf(f, s) = <<>> /\ EmittedOf(f, s \o d) = <<>>
      BY <2>1 DEF EmittedOf
    <3> QED
      BY <1>1, <3>1, EmptyText
  <2>2. CASE f # "json"
    <3> DEFINE w == s \o d
               c == CutAt(s)
               m == CutAt(w)
    <3>1. w \in Str /\ Len(w) = Len(s) + Len(d) /\ Len(s) \in Nat /\ Len(d) \in Nat
      BY Joined
    <3>2. c \in 0..Len(s) /\ m \in 0..Len(w)
      BY <3>1, CutFacts
    <3>3. c <= m
      BY <3>1 DEF CutAt, Cut
    <3>4. EmittedOf(f, s) = SubSeq(w, 1, c) /\ EmittedOf(f, w) = SubSeq(w, 1, m)
      BY <2>2, <3>2, PrefixJoined DEF EmittedOf
    <3> HIDE DEF w, c, m
    <3>5. c \in 0..Len(w)
      BY <3>1, <3>2
    <3>6. Len(EmittedOf(f, s)) = c
      BY <3>1, <3>4, <3>5, PrefixFacts
    <3>7. SubSeq(w, 1, c) \o From(SubSeq(w, 1, m), c + 1) = SubSeq(w, 1, m)
      BY <3>1, <3>2, <3>3, <3>5, Grown
    <3> QED
      BY <3>4, <3>6, <3>7 DEF w
  <2> QED
    BY <2>1, <2>2
<1>3. EmittedOf(f, <<>>) = <<>>
  BY EmptyCut DEF EmittedOf
<1>4. \A s : Answering(e, f, s).emitted = EmittedOf(f, s)
  BY DEF Answering, Fields, EmittedOf
<1>5. \A st, s : Reading(e, f, st, s).emitted = <<>>
  BY DEF Reading, Fields
<1>6. ASSUME NEW k \in 1..(Len(a) + 1)
      PROVE  LET s == LStrip(From(a, k))
                 w == LStrip(From(a \o b, k))
             IN  EmittedOf(f, s) \o From(EmittedOf(f, w), Len(EmittedOf(f, s)) + 1) = EmittedOf(f, w)
  <2> DEFINE s == LStrip(From(a, k))
             w == LStrip(From(a \o b, k))
  <2>1. From(a, k) \in Str /\ From(a \o b, k) = From(a, k) \o b
    BY FromFacts, FromJoined
  <2>2. LStrip(From(a, k) \o b) = IF s = <<>> THEN LStrip(b) ELSE s \o b
    BY <2>1, LStripJoined
  <2>3. s \in Str /\ LStrip(b) \in Str
    BY <2>1, LStripFacts
  <2>4. w = IF s = <<>> THEN LStrip(b) ELSE s \o b
    BY <2>1, <2>2
  <2> HIDE DEF s, w
  <2>5. ASSUME s = <<>>
        PROVE  EmittedOf(f, s) \o From(EmittedOf(f, w), Len(EmittedOf(f, s)) + 1) = EmittedOf(f, w)
    <3>1. w \in Str /\ EmittedOf(f, s) = <<>>
      BY <1>3, <2>3, <2>4, <2>5
    <3>2. <<>> \o From(EmittedOf(f, w), Len(<<>>) + 1) = EmittedOf(f, w)
      BY <1>1, <3>1
    <3> QED
      BY <3>1, <3>2
  <2>6. ASSUME s # <<>>
        PROVE  EmittedOf(f, s) \o From(EmittedOf(f, w), Len(EmittedOf(f, s)) + 1) = EmittedOf(f, w)
    <3>1. EmittedOf(f, s) \o From(EmittedOf(f, s \o b), Len(EmittedOf(f, s)) + 1) = EmittedOf(f, s \o b)
      BY <1>2, <2>3
    <3> QED
      BY <2>4, <2>6, <3>1
  <2> QED
    BY <2>5, <2>6 DEF s, w
<1>7. CASE ~e
  <2>1. 1 \in 1..(Len(a) + 1) /\ From(a, 1) = a /\ From(a \o b, 1) = a \o b
    BY <1>0, SubSeqFull DEF From, Str
  <2>2. After(e, f, a) = Answering(e, f, LStrip(a)) /\ After(e, f, a \o b) = Answering(e, f, LStrip(a \o b))
    BY <1>7 DEF After
  <2> QED
    BY <1>4, <1>6, <2>1, <2>2
<1>8. CASE e /\ EndOf(a) # 0
  <2>1. EndOf(a \o b) = EndOf(a) /\ EndOf(a) + 2 \in 1..(Len(a) + 1)
    BY <1>8, EndKept, MarkFacts
  <2> DEFINE k == EndOf(a) + 2
  <2>2. /\ After(e, f, a) = Answering(e, f, LStrip(From(a, k)))
        /\ After(e, f, a \o b) = Answering(e, f, LStrip(From(a \o b, k)))
    BY <1>8, <2>1 DEF After
  <2> HIDE DEF k
  <2>3. k \in 1..(Len(a) + 1)
    BY <2>1 DEF k
  <2> QED
    BY <1>4, <1>6, <2>2, <2>3
<1>9. CASE e /\ EndOf(a) = 0
  <2>1. After(e, f, a).emitted = <<>>
    BY <1>5, <1>9 DEF After
  <2>2. CASE EndOf(a \o b) # 0
    <3> DEFINE w == LStrip(From(a \o b, EndOf(a \o b) + 2))
    <3>1. w \in Str
      BY <1>0, <2>2, MarkFacts, FromFacts, LStripFacts
    <3>2. After(e, f, a \o b) = Answering(e, f, w)
      BY <1>9, <2>2 DEF After
    <3> HIDE DEF w
    <3> QED
      BY <1>1, <1>4, <2>1, <3>1, <3>2
  <2>3. CASE EndOf(a \o b) = 0
    <3>1. After(e, f, a \o b).emitted = <<>>
      BY <1>5, <1>9, <2>3 DEF After
    <3> QED
      BY <1>1, <1>3, <2>1, <3>1, EmptyText
  <2> QED
    BY <2>2, <2>3
<1> QED
  BY <1>7, <1>8, <1>9

LastOf(p) == IF p.state = "detecting" THEN AcceptFinal(Moved(p, "final", <<>>), p.buffer) ELSE p
Objects(s) == {i \in 1..Len(s) : s[i] = Object}

(* finish in terms of what was accepted.                                      *)
LEMMA FinishIs ==
  ASSUME NEW p
  PROVE  FinishOutput(p) =
           LET q == LastOf(p)
               answer == AnswerText(q.final)
           IN  IF p.state \in {"gemma", "qwen"} \/ answer = <<>> THEN Failed
               ELSE IF p.format = "text" THEN Answered(answer, Pending(p, q, answer))
               ELSE IF Cardinality(Objects(answer)) = 1 THEN Answered(<<Object>>, <<Object>>)
               ELSE Failed
BY DEF FinishOutput, LastOf, Moved, AnswerText, Objects

LEMMA FinishEnds ==
  ASSUME NEW p
  PROVE  FinishOutput(p).ended = TRUE /\ FinishOutput(p).failed \in BOOLEAN
<1>1. \A a, b : Answered(a, b).ended = TRUE /\ Answered(a, b).failed = FALSE
  BY DEF Answered
<1>2. Failed.ended = TRUE /\ Failed.failed = TRUE
  BY DEF Failed
<1> QED
  BY <1>1, <1>2, FinishIs

(* The parser keeps what it was made with.                                    *)
LEMMA AfterFields ==
  ASSUME NEW e, NEW f, NEW s
  PROVE  After(e, f, s).expectReasoning = e /\ After(e, f, s).format = f
<1>1. \A t : Answering(e, f, t).expectReasoning = e /\ Answering(e, f, t).format = f
  BY DEF Answering, Fields
<1>2. \A st, t : Reading(e, f, st, t).expectReasoning = e /\ Reading(e, f, st, t).format = f
  BY DEF Reading, Fields
<1> QED
  BY <1>1, <1>2 DEF After

(* What is left to answer when the text is over, and what was sent of it.     *)
LEMMA LastFacts ==
  ASSUME NEW e \in BOOLEAN, NEW f \in Formats, NEW s \in Str,
         After(e, f, s).state \notin {"gemma", "qwen"}
  PROVE  \E F \in Str : /\ Stripped(F) /\ LastOf(After(e, f, s)) = Answering(e, f, F)
                        /\ \/ After(e, f, s).emitted = <<>>
                           \/ After(e, f, s).emitted = EmittedOf(f, F)
<1> DEFINE p == After(e, f, s)
<1>1. ASSUME NEW t \in Str, p = Answering(e, f, LStrip(t))
      PROVE  \E F \in Str : /\ Stripped(F) /\ LastOf(p) = Answering(e, f, F)
                            /\ p.emitted = <<>> \/ p.emitted = EmittedOf(f, F)
  <2> DEFINE F == LStrip(t)
  <2>1. F \in Str /\ Stripped(F)
    BY LStripFacts
  <2>2. Answering(e, f, F).state = "final" /\ Answering(e, f, F).emitted = EmittedOf(f, F)
    BY DEF Answering, Fields, EmittedOf
  <2>3. LastOf(p) = Answering(e, f, F)
    BY <1>1, <2>2 DEF LastOf
  <2> QED
    BY <1>1, <2>1, <2>2, <2>3
<1>2. CASE ~e
  <2>1. p = Answering(e, f, LStrip(s))
    BY <1>2 DEF After
  <2> QED
    BY <1>1, <2>1
<1>3. CASE e /\ EndOf(s) # 0
  <2>1. From(s, EndOf(s) + 2) \in Str
    BY <1>3, MarkFacts, FromFacts
  <2>2. p = Answering(e, f, LStrip(From(s, EndOf(s) + 2)))
    BY <1>3 DEF After
  <2> QED
    BY <1>1, <2>1, <2>2
<1>4. CASE e /\ EndOf(s) = 0
  <2> DEFINE st == NextState("detecting", s)
  <2>1. p = Reading(e, f, st, s)
    BY <1>4 DEF After
  <2>2. p.state = st /\ p.buffer = s /\ p.emitted = <<>>
    BY <2>1 DEF Reading, Fields
  <2>3. st = "detecting"
    BY <2>2 DEF NextState
  <2>4. LStrip(s) \in Str /\ Stripped(LStrip(s))
    BY LStripFacts
  <2>5. LastOf(p) = AcceptFinal(Moved(p, "final", <<>>), s)
    BY <2>2, <2>3 DEF LastOf
  <2> HIDE DEF p, st
  <2>6. LastOf(p) = Answering(e, f, LStrip(s))
    BY <2>1, <2>5, AnswerBegins
  <2> QED
    BY <2>2, <2>4, <2>6 DEF p
<1> QED
  BY <1>2, <1>3, <1>4

(* Of a prefix of u and one at least as long.                                 *)
LEMMA EndsAfter ==
  ASSUME NEW u \in Str, NEW k \in 0..Len(u), NEW m \in 0..Len(u), k <= m,
         \A i \in (k + 1)..Len(u) : u[i] \in Ends
  PROVE  /\ IsPrefix(SubSeq(u, 1, k), SubSeq(u, 1, m))
         /\ OnlyEnds(From(SubSeq(u, 1, m), Len(SubSeq(u, 1, k)) + 1))
<1> DEFINE a == SubSeq(u, 1, k)
           b == SubSeq(u, 1, m)
           r == From(b, k + 1)
<1>1. /\ a \in Str /\ Len(a) = k /\ b \in Str /\ Len(b) = m
      /\ \A j \in 1..m : b[j] = u[j]
  BY PrefixFacts
<1>2. /\ Len(u) \in Nat /\ k \in 0..m /\ k + 1 \in 1..(Len(b) + 1)
      /\ (Len(b) - (k + 1)) + 1 = m - k /\ Len(a) + 1 = k + 1
  BY <1>1 DEF Str
<1>3. SubSeq(b, 1, k) = a
  BY <1>2, ShorterPrefix
<1> HIDE DEF a, b
<1>4. SubSeq(a, 1, Len(a)) = a
  BY <1>1, SubSeqFull DEF Str
<1>5. IsPrefix(a, b)
  BY <1>1, <1>2, <1>3, <1>4 DEF IsPrefix
<1>6. r \in Str /\ Len(r) = m - k /\ \A j \in 1..(m - k) : r[j] = b[k + 1 + j - 1]
  <2>1. /\ From(b, k + 1) \in Str /\ Len(From(b, k + 1)) = Len(b) - (k + 1) + 1
        /\ \A j \in 1..(Len(b) - (k + 1) + 1) : From(b, k + 1)[j] = b[k + 1 + j - 1]
    BY <1>1, <1>2, FromFacts
  <2> QED
    BY <1>2, <2>1
<1> HIDE DEF r
<1>7. ASSUME NEW j \in 1..Len(r)
      PROVE  r[j] \in Ends
  <2>1. /\ j \in 1..(m - k) /\ k + 1 + j - 1 = k + j /\ k + j \in 1..m
        /\ k + j \in (k + 1)..Len(u)
    BY <1>2, <1>6
  <2> QED
    BY <1>1, <1>6, <2>1
<1>8. OnlyEnds(r)
  BY <1>7 DEF OnlyEnds, Ends
<1> QED
  BY <1>2, <1>5, <1>8 DEF a, b, r

(* At the end of the text, what was sent is the answer and at most its ends.  *)
LEMMA FinishFacts ==
  ASSUME NEW e \in BOOLEAN, NEW f \in Formats, NEW s \in Str,
         FinishOutput(After(e, f, s)).failed = FALSE
  PROVE  LET p == After(e, f, s)
             out == FinishOutput(p)
             sent == p.emitted \o out.pending
         IN  /\ IsPrefix(out.answer, sent)
             /\ OnlyEnds(From(sent, Len(out.answer) + 1))
<1> DEFINE p == After(e, f, s)
           q == LastOf(p)
           answer == AnswerText(q.final)
           out == FinishOutput(p)
<1>1. /\ p.state \notin {"gemma", "qwen"}
      /\ out = IF f = "text" THEN Answered(answer, Pending(p, q, answer))
                             ELSE Answered(<<Object>>, <<Object>>)
  <2>1. Failed.failed = TRUE /\ p.format = f
    BY AfterFields DEF Failed
  <2> HIDE DEF p
  <2>2. out.failed = FALSE
    BY DEF p
  <2> QED
    BY <2>1, <2>2, FinishIs
<1>2. PICK F \in Str : /\ Stripped(F) /\ q = Answering(e, f, F)
                       /\ p.emitted = <<>> \/ p.emitted = EmittedOf(f, F)
  BY <1>1, LastFacts
<1>3. q.final = F /\ q.emitted = EmittedOf(f, F)
  BY <1>2 DEF Answering, Fields, EmittedOf
<1>4. CASE f = "json"
  <2>1. out.answer = <<Object>> /\ out.pending = <<Object>>
    BY <1>1, <1>4 DEF Answered
  <2>2. p.emitted = <<>>
    BY <1>2, <1>4 DEF EmittedOf
  <2>3. <<Object>> \in Str /\ Len(<<Object>>) = 1
    BY CharacterFacts DEF Str
  <2> DEFINE o == <<Object>>
  <2> HIDE DEF p, out, o
  <2>4. p.emitted \o out.pending = o
    BY <2>1, <2>2, <2>3, ConcatEmptySeq DEF Str, o
  <2>5. IsPrefix(o, o) /\ From(o, Len(o) + 1) = <<>>
    <3>1. Len(o) = 1 /\ 1 + 1 \in Int /\ 1 < 1 + 1
      BY <2>3 DEF o
    <3> QED
      BY <3>1, SubSeqEmpty DEF IsPrefix, From
  <2>6. OnlyEnds(<<>>)
    BY DEF OnlyEnds
  <2> QED
    BY <2>1, <2>4, <2>5, <2>6 DEF p, out, o
<1>5. CASE f = "text"
  <2> DEFINE c == CutAt(F)
             em == SubSeq(F, 1, c)
  <2>1. PICK k \in 0..Len(F) : /\ AnswerText(F) = SubSeq(F, 1, k)
                               /\ \A i \in (k + 1)..Len(F) : F[i] \in Ends
    BY <1>2, AnswerTextFacts
  <2> DEFINE an == SubSeq(F, 1, k)
             m == IF c <= k THEN k ELSE c
  <2>2. c \in 0..Len(F) /\ Len(F) \in Nat
    BY CutFacts DEF Str
  <2>3. em \in Str /\ Len(em) = c /\ an \in Str /\ Len(an) = k
    BY <2>2, PrefixFacts
  <2>4. /\ out.answer = an
        /\ out.pending = From(em, Len(p.emitted) + 1) \o From(an, c + 1)
        /\ p.emitted = <<>> \/ p.emitted = em
    <3>1. q.emitted = em /\ answer = an
      BY <1>3, <1>5, <2>1 DEF EmittedOf
    <3>2. out = Answered(an, Pending(p, q, an))
      BY <1>1, <1>5, <3>1
    <3>3. Pending(p, q, an) = From(em, Len(p.emitted) + 1) \o From(an, c + 1)
      BY <2>3, <3>1 DEF Pending
    <3>4. p.emitted = <<>> \/ p.emitted = em
      BY <1>2, <1>5 DEF EmittedOf
    <3> HIDE DEF p, q, out, an, em
    <3> QED
      BY <3>2, <3>3, <3>4 DEF Answered
  <2> DEFINE pe == p.emitted
             rest == From(em, Len(pe) + 1)
             more == From(an, c + 1)
  <2>5. pe \in Str /\ rest \in Str /\ pe \o rest = em
    <3>1. em \o <<>> = em /\ <<>> \o em = em /\ <<>> \in Str /\ Len(<<>>) + 1 = 1
      BY <2>3, EmptyText, ConcatEmptySeq DEF Str
    <3>2. From(em, c + 1) = <<>>
      <4>1. c + 1 \in Int /\ c \in Int /\ c < c + 1
        BY <2>2
      <4> HIDE DEF em, c
      <4> QED
        BY <2>3, <4>1, SubSeqEmpty DEF From
    <3>3. From(em, 1) = em
      <4> HIDE DEF em
      <4> QED
        BY <2>3, SubSeqFull DEF From, Str
    <3> HIDE DEF p, c, em
    <3> QED
      BY <2>3, <2>4, <3>1, <3>2, <3>3
  <2>6. more \in Str
    <3>1. CASE c <= k
      <4>1. c + 1 \in 1..(k + 1)
        BY <2>2, <3>1
      <4> HIDE DEF an, c
      <4> QED
        BY <2>3, <4>1, FromFacts
    <3>2. CASE ~(c <= k)
      <4>1. c + 1 \in Int /\ k \in Int /\ k < c + 1
        BY <2>2, <3>2
      <4> HIDE DEF an, c
      <4> QED
        BY <2>3, <4>1, SubSeqEmpty, EmptyText DEF From
    <3> QED
      BY <3>1, <3>2
  <2>7. pe \o (rest \o more) = SubSeq(F, 1, m)
    <3>1. em \o more = SubSeq(F, 1, m)
      BY <2>2, Grown
    <3> HIDE DEF pe, rest, more, em, m
    <3>2. (pe \o rest) \o more = pe \o (rest \o more)
      <4>1. pe \in Seq(Characters) /\ rest \in Seq(Characters) /\ more \in Seq(Characters)
        BY <2>5, <2>6 DEF Str
      <4> QED
        BY <4>1, ConcatAssociative
    <3> QED
      BY <2>5, <3>1, <3>2
  <2>8. m \in 0..Len(F) /\ k <= m
    BY <2>2
  <2> HIDE DEF m
  <2>9. /\ IsPrefix(an, SubSeq(F, 1, m))
        /\ OnlyEnds(From(SubSeq(F, 1, m), Len(an) + 1))
    BY <2>1, <2>8, EndsAfter
  <2> HIDE DEF p, out, an, em, c
  <2>10. out.pending = rest \o more
    BY <2>4
  <2> HIDE DEF rest, more
  <2>11. p.emitted \o out.pending = SubSeq(F, 1, m)
    BY <2>7, <2>10
  <2> QED
    BY <2>4, <2>9, <2>11 DEF p, out
<1> QED
  BY <1>4, <1>5 DEF Formats

-----------------------------------------------------------------------------
(* ------------------------------------------------------------ the stream *)

(* A text of the models is one of their characters and of one family.         *)
LEMMA TextFacts ==
  ASSUME NEW t \in Texts
  PROVE  t \in Str /\ (Cardinality(Places(t, ReasoningEnd("qwen"))) <= 1 => Simple(t))
<1>1. t \in Str /\ (GStart(t) = {} \/ QEnd(t) = {})
  BY TextsAssumption DEF Str, GStart, QEnd
<1>2. IsFiniteSet(QEnd(t))
  <2>1. QEnd(t) \subseteq 1..(Len(t) - 1) /\ 1 \in Int /\ Len(t) - 1 \in Int
    BY <1>1 DEF QEnd, Places, Str
  <2>2. IsFiniteSet(1..(Len(t) - 1))
    BY <2>1, FS_Interval
  <2> QED
    BY <2>1, <2>2, FS_Subset
<1>3. ASSUME Cardinality(QEnd(t)) <= 1, NEW i \in QEnd(t), NEW j \in QEnd(t), i # j
      PROVE  FALSE
  <2>1. IsFiniteSet({i}) /\ Cardinality({i}) = 1
    BY FS_Singleton
  <2>2. IsFiniteSet({i} \cup {j}) /\ Cardinality({i} \cup {j}) = 2
    <3>1. j \notin {i}
      BY <1>3
    <3>2. /\ IsFiniteSet({i} \cup {j})
          /\ Cardinality({i} \cup {j}) = IF j \in {i} THEN Cardinality({i}) ELSE Cardinality({i}) + 1
      BY <2>1, FS_AddElement
    <3> QED
      BY <2>1, <3>1, <3>2
  <2>3. {i} \cup {j} \subseteq QEnd(t)
    OBVIOUS
  <2>4. Cardinality({i} \cup {j}) <= Cardinality(QEnd(t)) /\ Cardinality(QEnd(t)) \in Nat
    BY <1>2, <2>3, FS_Subset, FS_CardinalityType
  <2> QED
    BY <1>3, <2>2, <2>4
<1> QED
  BY <1>1, <1>3 DEF Simple, QEnd

IsParser(p) ==
  \E e \in BOOLEAN, f \in Formats :
     \/ \E st \in States, b \in Str : p = Reading(e, f, st, b)
     \/ \E s \in Str : p = Answering(e, f, s)

(* feed leaves a parser that reads or answers.                                *)
LEMMA ParserKept ==
  ASSUME NEW p, IsParser(p), NEW d \in Str
  PROVE  IsParser(Feed(p, d))
<1>1. PICK e \in BOOLEAN, f \in Formats :
         \/ \E st \in States, b \in Str : p = Reading(e, f, st, b)
         \/ \E s \in Str : p = Answering(e, f, s)
  BY DEF IsParser
<1>2. \A s \in Str : IsParser(Answering(e, f, s))
  BY DEF IsParser
<1>3. ASSUME NEW st \in States, NEW b \in Str, p = Reading(e, f, st, b)
      PROVE  IsParser(Feed(p, d))
  <2> DEFINE c == b \o d
  <2>1. c \in Str
    BY Joined
  <2>2. Feed(p, d) = IF EndOf(c) # 0 THEN Answering(e, f, LStrip(From(c, EndOf(c) + 2)))
                     ELSE Reading(e, f, NextState(st, c), c)
    BY <1>3, FeedReading
  <2> HIDE DEF c
  <2>3. CASE EndOf(c) # 0
    <3>1. LStrip(From(c, EndOf(c) + 2)) \in Str
      BY <2>1, <2>3, MarkFacts, FromFacts, LStripFacts
    <3> QED
      BY <1>2, <2>2, <2>3, <3>1
  <2>4. CASE EndOf(c) = 0
    <3>1. NextState(st, c) \in States
      BY DEF NextState, States
    <3> QED
      BY <2>1, <2>2, <2>4, <3>1 DEF IsParser
  <2> QED
    BY <2>3, <2>4
<1>4. ASSUME NEW s \in Str, p = Answering(e, f, s)
      PROVE  IsParser(Feed(p, d))
  <2> DEFINE w == IF s = <<>> THEN LStrip(d) ELSE s \o d
  <2>1. w \in Str
    BY LStripFacts, Joined
  <2>2. Feed(p, d) = Answering(e, f, w)
    BY <1>4, FeedAnswering
  <2> QED
    BY <1>2, <2>1, <2>2
<1> QED
  BY <1>1, <1>3, <1>4

(* Such a parser has the types of ChatTypeOK.                                 *)
LEMMA ParserTyped ==
  ASSUME NEW p, IsParser(p)
  PROVE  /\ p.state \in {"detecting", "gemma", "qwen", "final"} /\ p.started \in BOOLEAN
         /\ Len(p.held) <= Len(TurnEnd)
         /\ p.expectReasoning \in BOOLEAN /\ p.format \in Formats
<1>0. Len(TurnEnd) = 2 /\ Len(<<>>) = 0 /\ <<>> \in Str
  BY CharacterFacts, EmptyText
<1>1. PICK e \in BOOLEAN, f \in Formats :
         \/ \E st \in States, b \in Str : p = Reading(e, f, st, b)
         \/ \E s \in Str : p = Answering(e, f, s)
  BY DEF IsParser
<1>2. ASSUME NEW st \in States, NEW b \in Str, p = Reading(e, f, st, b)
      PROVE  /\ p.state = st /\ p.started \in BOOLEAN /\ Len(p.held) <= 2
             /\ p.expectReasoning = e /\ p.format = f
  <2>1. p.state = st /\ p.held = <<>> /\ p.expectReasoning = e /\ p.format = f
    BY <1>2 DEF Reading, Fields
  <2>2. p.started = FALSE
    BY <1>2 DEF Reading, Fields
  <2>3. p.started \in BOOLEAN
    BY <2>2, Zenon
  <2>4. Len(p.held) <= 2
    BY <1>0, <2>1
  <2> QED
    BY <2>1, <2>3, <2>4
<1>3. ASSUME NEW s \in Str, p = Answering(e, f, s)
      PROVE  /\ p.state = "final" /\ p.started \in BOOLEAN /\ Len(p.held) <= 2
             /\ p.expectReasoning = e /\ p.format = f
  <2> DEFINE held == IF f = "json" THEN <<>> ELSE From(s, CutAt(s) + 1)
             begun == IF s = <<>> THEN FALSE ELSE TRUE
  <2>1. Len(held) <= 2
    <3>1. CutAt(s) + 1 \in 1..(Len(s) + 1) /\ (Len(s) - (CutAt(s) + 1)) + 1 <= 2
      BY CutFacts DEF Str
    <3>2. Len(From(s, CutAt(s) + 1)) = (Len(s) - (CutAt(s) + 1)) + 1
      BY <3>1, FromFacts
    <3> QED
      BY <1>0, <3>1, <3>2
  <2>2. p.state = "final" /\ p.started = begun /\ p.held = held /\ p.expectReasoning = e /\ p.format = f
    BY <1>3 DEF Answering, Fields
  <2> QED
    BY <2>1, <2>2
<1> DEFINE Typed == /\ p.state \in {"detecting", "gemma", "qwen", "final"} /\ p.started \in BOOLEAN
                    /\ Len(p.held) <= Len(TurnEnd)
                    /\ p.expectReasoning \in BOOLEAN /\ p.format \in Formats
<1>4. ASSUME NEW st \in States, NEW b \in Str, p = Reading(e, f, st, b)
      PROVE  Typed
  BY <1>0, <1>2, <1>4 DEF States
<1>5. ASSUME NEW s \in Str, p = Answering(e, f, s)
      PROVE  Typed
  BY <1>0, <1>3, <1>5
<1> QED
  <2> HIDE DEF Typed
  <2>1. Typed
    BY <1>1, <1>4, <1>5
  <2> QED
    BY <2>1 DEF Typed

(* What the parser is and what was sent, in terms of what was fed.            *)
WholeText ==
  LET e == parser.expectReasoning
      f == parser.format
  IN  /\ ~output.ended => /\ parser = After(e, f, SubSeq(text, 1, fed))
                          /\ streamed = parser.emitted
      /\ output.ended => /\ SameAnswer
                         /\ ~output.failed => /\ IsPrefix(output.answer, streamed)
                                              /\ OnlyEnds(From(streamed, Len(output.answer) + 1))
ChatInv ==
  /\ text \in Texts /\ fed \in 0..Len(text) /\ IsParser(parser)
  /\ output.ended \in BOOLEAN /\ output.failed \in BOOLEAN
  /\ Simple(text) => WholeText

LEMMA ChatStarts == ChatInit => ChatInv
<1> SUFFICES ASSUME ChatInit PROVE ChatInv
  OBVIOUS
<1>1. PICK e \in BOOLEAN, f \in Formats : parser = Parser(e, f)
  BY DEF ChatInit, Formats
<1>2. text \in Texts /\ text \in Str /\ fed = 0 /\ streamed = <<>> /\ output = Running
  BY TextFacts DEF ChatInit
<1>3. output.ended = FALSE /\ output.failed = FALSE /\ fed \in 0..Len(text)
  BY <1>2 DEF Running, Str
<1>4. SubSeq(text, 1, fed) = <<>> /\ <<>> \in Str /\ Len(<<>>) = 0
  BY <1>2, SubSeqEmpty, EmptyText
<1>5. parser = After(e, f, <<>>) /\ parser.emitted = <<>> /\ IsParser(parser)
  <2>1. CASE ~e
    <3>1. parser = Answering(e, f, <<>>)
      BY <1>1, <2>1, ParserAtFirst
    <3>2. LStrip(<<>>) = <<>>
      BY <1>4, AllBlank
    <3>3. Answering(e, f, <<>>).emitted = EmittedOf(f, <<>>) /\ EmittedOf(f, <<>>) = <<>>
      BY EmptyCut DEF Answering, Fields, EmittedOf
    <3>4. After(e, f, <<>>) = Answering(e, f, <<>>)
      BY <2>1, <3>2 DEF After
    <3> QED
      BY <1>4, <3>1, <3>3, <3>4 DEF IsParser
  <2>2. CASE e
    <3>1. parser = Reading(e, f, "detecting", <<>>)
      BY <1>1, <2>2, ParserAtFirst
    <3> DEFINE z == <<>>
    <3>2. Len(z) = 0 /\ z \in Str
      BY <1>4
    <3> HIDE DEF z
    <3>3. GStart(z) = {} /\ QStart(z) = {} /\ Least(GStart(z)) = 0 /\ EndOf(z) = 0
      <4>1. GStart(z) \in SUBSET (1..(0 - 1)) /\ QStart(z) \in SUBSET (1..(0 - 1))
            /\ EndOf(z) \in 0..0
        BY <3>2, MarkFacts
      <4>2. 1..(0 - 1) = {}
        OBVIOUS
      <4> QED
        BY <3>2, <4>1, <4>2, MarkFacts
    <3>4. After(e, f, z) = Reading(e, f, "detecting", z)
      BY <2>2, <3>3 DEF After, NextState
    <3>5. Reading(e, f, "detecting", z).emitted = <<>> /\ "detecting" \in States
      BY DEF Reading, Fields, States
    <3> QED
      BY <3>1, <3>2, <3>4, <3>5 DEF IsParser, z
  <2> QED
    BY <2>1, <2>2
<1>6. parser.expectReasoning = e /\ parser.format = f
  BY <1>5, AfterFields
<1> QED
  BY <1>2, <1>3, <1>4, <1>5, <1>6 DEF ChatInv, WholeText

LEMMA ChatSteps == ChatInv /\ [ChatNext]_chatVars => ChatInv'
<1> SUFFICES ASSUME ChatInv, [ChatNext]_chatVars PROVE ChatInv'
  OBVIOUS
<1> DEFINE e == parser.expectReasoning
           f == parser.format
<1>0. /\ text \in Texts /\ text \in Str /\ Len(text) \in Nat /\ fed \in 0..Len(text)
      /\ IsParser(parser) /\ e \in BOOLEAN /\ f \in Formats
  BY TextFacts, ParserTyped DEF ChatInv, Str
<1>1. ASSUME NEW n \in 1..MaxChunk, Chunk(n)
      PROVE  ChatInv'
  <2> DEFINE x == SubSeq(text, 1, fed)
             d == SubSeq(text, fed + 1, fed + n)
             y == SubSeq(text, 1, fed + n)
  <2>1. /\ output.ended = FALSE /\ n \in Nat /\ n <= Len(text) - fed /\ fed' = fed + n
        /\ parser' = Feed(parser, d) /\ text' = text /\ output' = output
        /\ streamed' = streamed \o From(parser'.emitted, Len(parser.emitted) + 1)
    BY <1>1, ChunkAssumption DEF Chunk, ChatInv
  <2>2. d \in Str /\ fed + n \in 0..Len(text) /\ x \o d = y /\ x \in Str /\ y \in Str
    BY <1>0, <2>1, NextPiece, PrefixFacts
  <2>3. IsParser(parser')
    BY <1>0, <2>1, <2>2, ParserKept
  <2>4. ASSUME Simple(text)
        PROVE  WholeText'
    <3>1. Simple(y)
      <4>1. y \o From(text, fed + n + 1) = text /\ From(text, fed + n + 1) \in Str
        <5>1. fed + n + 1 \in 1..(Len(text) + 1)
          BY <1>0, <2>2
        <5> QED
          BY <1>0, <2>2, <5>1, Split, FromFacts
      <4> DEFINE r == From(text, fed + n + 1)
      <4> HIDE DEF y, r
      <4>2. Simple(y \o r)
        BY <2>4, <4>1 DEF r
      <4> QED
        BY <2>2, <4>1, <4>2, PartMarks DEF r
    <3>2. parser = After(e, f, x) /\ streamed = parser.emitted
      BY <2>1, <2>4 DEF ChatInv, WholeText
    <3> HIDE DEF x, d, y, e, f
    <3>3. parser' = After(e, f, y)
      <4>1. Feed(After(e, f, x), d) = After(e, f, x \o d)
        BY <1>0, <2>2, <3>1, FedInPieces DEF e, f
      <4> QED
        BY <2>1, <2>2, <3>2, <4>1
    <3>4. parser'.expectReasoning = e /\ parser'.format = f
      BY <3>3, AfterFields
    <3>5. After(e, f, x).emitted \o From(After(e, f, x \o d).emitted, Len(After(e, f, x).emitted) + 1)
            = After(e, f, x \o d).emitted
      BY <1>0, <2>2, <3>1, EmittedGrows DEF e, f
    <3>6. streamed' = parser'.emitted
      BY <2>1, <2>2, <3>2, <3>3, <3>5
    <3> QED
      BY <2>1, <3>3, <3>4, <3>6 DEF WholeText, y
  <2> QED
    BY <1>0, <2>1, <2>2, <2>3, <2>4 DEF ChatInv
<1>2. CASE StreamEnds
  <2>1. /\ output.ended = FALSE /\ fed = Len(text) /\ output' = FinishOutput(parser)
        /\ streamed' = streamed \o output'.pending
        /\ text' = text /\ fed' = fed /\ parser' = parser
    BY <1>2 DEF StreamEnds, ChatInv
  <2>2. output'.ended = TRUE /\ output'.failed \in BOOLEAN
    BY <2>1, FinishEnds
  <2>3. ASSUME Simple(text)
        PROVE  WholeText'
    <3>1. SubSeq(text, 1, fed) = text
      BY <1>0, <2>1, SubSeqFull DEF Str
    <3>2. parser = After(e, f, text) /\ streamed = parser.emitted
      BY <2>1, <2>3, <3>1 DEF ChatInv, WholeText
    <3> HIDE DEF e, f
    <3>3. Feed(Parser(e, f), text) = parser
      BY <1>0, <3>2, FedOnce DEF e, f
    <3>4. SameAnswer'
      BY <2>1, <3>3 DEF SameAnswer, OutputOf, e, f
    <3>5. ASSUME output'.failed = FALSE
          PROVE  /\ IsPrefix(output'.answer, streamed')
                 /\ OnlyEnds(From(streamed', Len(output'.answer) + 1))
      <4>1. FinishOutput(After(e, f, text)).failed = FALSE
        BY <2>1, <3>2, <3>5
      <4>2. LET p == After(e, f, text)
                out == FinishOutput(p)
                sent == p.emitted \o out.pending
            IN  /\ IsPrefix(out.answer, sent)
                /\ OnlyEnds(From(sent, Len(out.answer) + 1))
        BY <1>0, <4>1, FinishFacts DEF e, f
      <4> QED
        BY <2>1, <3>2, <4>2
    <3> QED
      BY <2>2, <3>4, <3>5 DEF WholeText
  <2> QED
    BY <1>0, <2>1, <2>2, <2>3 DEF ChatInv
<1>3. CASE UNCHANGED chatVars
  <2>1. /\ text' = text /\ fed' = fed /\ parser' = parser /\ streamed' = streamed
        /\ output' = output
    BY <1>3 DEF chatVars
  <2> QED
    BY <2>1 DEF ChatInv, WholeText, SameAnswer
<1> QED
  BY <1>1, <1>2, <1>3 DEF ChatNext

LEMMA ChatIsInv == ChatSpec => []ChatInv
BY ChatStarts, ChatSteps, PTL DEF ChatSpec

(* Every variable of the stream keeps its type, for any texts and chunks: no   *)
(* more is held back than a turn end has (generation.py:198-210).             *)
THEOREM ChatTypesHold == ChatSpec => []ChatTypeOK
<1>1. ChatInv => ChatTypeOK
  BY ParserTyped DEF ChatInv, ChatTypeOK
<1> QED
  BY <1>1, ChatIsInv, PTL

(* The parser does not see where a text is cut: fed one text and then another,  *)
(* it is what it would be had it been fed both at once, for any two texts that *)
(* together have the markers of one family and one </think> (generation.py:85).*)
THEOREM CutsAreNotSeen ==
  ASSUME NEW e \in BOOLEAN, NEW f \in Formats, NEW a \in Str, NEW b \in Str, Simple(a \o b)
  PROVE  Feed(Feed(Parser(e, f), a), b) = Feed(Parser(e, f), a \o b)
<1>1. Simple(a) /\ a \o b \in Str
  BY PartMarks, Joined
<1>2. Feed(Parser(e, f), a) = After(e, f, a) /\ Feed(Parser(e, f), a \o b) = After(e, f, a \o b)
  BY <1>1, FedOnce
<1> QED
  BY <1>2, FedInPieces

(* Whatever a model generates and wherever the chunks end, ai.chat answers what *)
(* ai.llm answers, fails when it fails, and has sent that answer and at most    *)
(* blanks or a turn end after it ("stream only final-answer text",             *)
(* slaves/README.md:39).                                                      *)
THEOREM StreamedAnswer == ChatSpec => []StreamIsAnswer
<1>1. ChatInv => StreamIsAnswer
  BY TextFacts DEF ChatInv, WholeText, StreamIsAnswer
<1> QED
  BY <1>1, ChatIsInv, PTL
=============================================================================
