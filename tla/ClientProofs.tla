----------------------------- MODULE ClientProofs ----------------------------
(***************************************************************************)
(* Theorems about the control connection, for any number of clients and of *)
(* requests, however the sockets cut what goes through them.               *)
(***************************************************************************)
EXTENDS ClientProtocol, FiniteSetTheorems, SequenceTheorems, TLAPS

-----------------------------------------------------------------------------
(* Text, lines and the ends of answers *)

LEMMA TextNone ==
    ASSUME NEW s \in Seq(Tokens), \A i \in 1 .. Len(s) : s[i] = NL
    PROVE  Text(s) = <<>>
<1>1. TextAt(s) = {}
  BY LenProperties DEF TextAt
<1>2. Text(s) = [k \in 1 .. 0 |-> s[Nth({}, k)]]
  BY <1>1, FS_EmptySet DEF Text
<1> QED
  BY <1>2

LEMMA TextOne ==
    ASSUME NEW s \in Seq(Tokens), NEW e \in 1 .. Len(s), s[e] # NL,
           \A i \in 1 .. Len(s) : i # e => s[i] = NL
    PROVE  Text(s) = <<s[e]>>
<1>1. TextAt(s) = {e}
  BY LenProperties DEF TextAt
<1>2. Text(s) = [k \in 1 .. 1 |-> s[Nth({e}, k)]]
  BY <1>1, FS_Singleton DEF Text
<1>3. ASSUME NEW k \in 1 .. 1 PROVE Nth({e}, k) = e
  <2>1. e \in Nat /\ {j \in {e} : j < e} = {} /\ k - 1 = 0
    BY LenProperties
  <2>2. Cardinality({j \in {e} : j < e}) = k - 1
    BY <2>1, FS_EmptySet
  <2>3. \E i \in {e} : Cardinality({j \in {e} : j < i}) = k - 1
    BY <2>2
  <2>4. Nth({e}, k) \in {e}
    BY <2>3 DEF Nth
  <2> QED
    BY <2>4
<1>4. [k \in 1 .. 1 |-> s[Nth({e}, k)]] = [k \in 1 .. 1 |-> s[e]]
  BY <1>3
<1> QED
  BY <1>2, <1>4

LEMMA SkipProperties ==
    ASSUME NEW T, NEW s \in Seq(T), NEW k \in 0 .. Len(s)
    PROVE  /\ Skip(s, k) \in Seq(T) /\ Len(Skip(s, k)) = Len(s) - k
           /\ \A i \in 1 .. Len(s) - k : Skip(s, k)[i] = s[k + i]
<1>1. Len(s) \in Nat /\ \A i \in 1 .. Len(s) : s[i] \in T
  BY LenProperties, ElementOfSeq
<1>2. k + 1 \in Int /\ Len(s) \in Int /\ \A i \in k + 1 .. Len(s) : s[i] \in T
  BY <1>1
<1>3. /\ SubSeq(s, k + 1, Len(s)) \in Seq(T)
      /\ Len(SubSeq(s, k + 1, Len(s))) =
           IF k + 1 <= Len(s) THEN Len(s) - (k + 1) + 1 ELSE 0
      /\ \A i \in 1 .. Len(s) - (k + 1) + 1 :
           SubSeq(s, k + 1, Len(s))[i] = s[k + 1 + i - 1]
  BY <1>2, SubSeqProperties
<1> QED
  BY <1>1, <1>3 DEF Skip

LEMMA FrontProperties ==
    ASSUME NEW T, NEW s \in Seq(T), NEW k \in 0 .. Len(s)
    PROVE  /\ SubSeq(s, 1, k) \in Seq(T) /\ Len(SubSeq(s, 1, k)) = k
           /\ \A i \in 1 .. k : SubSeq(s, 1, k)[i] = s[i]
<1>1. Len(s) \in Nat /\ \A i \in 1 .. Len(s) : s[i] \in T
  BY LenProperties, ElementOfSeq
<1>2. k \in Int /\ 1 \in Int /\ \A i \in 1 .. k : s[i] \in T
  BY <1>1
<1>3. /\ SubSeq(s, 1, k) \in Seq(T)
      /\ Len(SubSeq(s, 1, k)) = IF 1 <= k THEN k - 1 + 1 ELSE 0
      /\ \A i \in 1 .. k - 1 + 1 : SubSeq(s, 1, k)[i] = s[1 + i - 1]
  BY <1>2, SubSeqProperties
<1> QED
  BY <1>1, <1>3

\* Moving f from the front of b to the end of a does not change the whole: what
\* is read or written of b is lost nowhere.
Kept(a, f, r, b) ==
    /\ a \o f \in Seq(Tokens) /\ r \in Seq(Tokens) /\ a \o b \in Seq(Tokens)
    /\ (a \o f) \o r = a \o b
    /\ Len(a \o b) = Len(a \o f) + Len(r)

LEMMA ReadKeeps ==
    ASSUME NEW a \in Seq(Tokens), NEW b \in Seq(Tokens), NEW k \in 0 .. Len(b)
    PROVE  Kept(a, SubSeq(b, 1, k), Skip(b, k), b)
<1> DEFINE f == SubSeq(b, 1, k)
           r == Skip(b, k)
           s == a \o f
           x == a \o b
           y == s \o r
<1>0. Len(a) \in Nat /\ Len(b) \in Nat
  BY LenProperties
<1>1. f \in Seq(Tokens) /\ Len(f) = k /\ \A i \in 1 .. k : f[i] = b[i]
  BY FrontProperties
<1>2. r \in Seq(Tokens) /\ Len(r) = Len(b) - k /\ \A i \in 1 .. Len(b) - k : r[i] = b[k + i]
  BY SkipProperties
<1> HIDE DEF f, r
<1>3. /\ s \in Seq(Tokens) /\ Len(s) = Len(a) + Len(f)
      /\ \A i \in 1 .. Len(a) + Len(f) : s[i] = IF i <= Len(a) THEN a[i] ELSE f[i - Len(a)]
  BY <1>1, ConcatProperties
<1>4. /\ x \in Seq(Tokens) /\ Len(x) = Len(a) + Len(b)
      /\ \A i \in 1 .. Len(a) + Len(b) : x[i] = IF i <= Len(a) THEN a[i] ELSE b[i - Len(a)]
  BY ConcatProperties
<1> HIDE DEF s, x
<1>5. /\ y \in Seq(Tokens) /\ Len(y) = Len(s) + Len(r)
      /\ \A i \in 1 .. Len(s) + Len(r) : y[i] = IF i <= Len(s) THEN s[i] ELSE r[i - Len(s)]
  <2>1. s \in Seq(Tokens) /\ r \in Seq(Tokens)
    BY <1>2, <1>3
  <2> QED
    BY <2>1, ConcatProperties
<1> HIDE DEF y
<1>6. Len(s) = Len(a) + k /\ Len(x) = Len(y)
  BY <1>0, <1>1, <1>2, <1>3, <1>4, <1>5
<1>7. \A i \in 1 .. Len(s) : s[i] = x[i]
  <2> SUFFICES ASSUME NEW i \in 1 .. Len(s) PROVE s[i] = x[i]
    OBVIOUS
  <2>1. i \in 1 .. Len(a) + k /\ i \in 1 .. Len(a) + Len(b)
    BY <1>0, <1>6
  <2>2. CASE i <= Len(a)
    BY <1>1, <1>3, <1>4, <2>1, <2>2
  <2>3. CASE ~(i <= Len(a))
    <3>1. i - Len(a) \in 1 .. k
      BY <1>0, <2>1, <2>3
    <3> QED
      BY <1>1, <1>3, <1>4, <2>1, <2>3, <3>1
  <2> QED
    BY <2>2, <2>3
<1>8. \A i \in 1 .. Len(y) : y[i] = x[i]
  <2> SUFFICES ASSUME NEW i \in 1 .. Len(y) PROVE y[i] = x[i]
    OBVIOUS
  <2>1. i \in 1 .. Len(s) + Len(r) /\ i \in 1 .. Len(a) + Len(b)
    BY <1>0, <1>4, <1>5, <1>6
  <2>2. CASE i <= Len(s)
    <3>1. i \in 1 .. Len(s)
      BY <1>0, <1>6, <2>1, <2>2
    <3> QED
      BY <1>5, <1>7, <2>1, <2>2, <3>1
  <2>3. CASE ~(i <= Len(s))
    <3>1. i - Len(s) \in 1 .. Len(b) - k /\ ~(i <= Len(a)) /\ k + (i - Len(s)) = i - Len(a)
      BY <1>0, <1>6, <2>1, <2>3
    <3>2. y[i] = r[i - Len(s)] /\ x[i] = b[i - Len(a)]
      BY <1>4, <1>5, <2>1, <2>3, <3>1
    <3> QED
      BY <1>2, <3>1, <3>2
  <2> QED
    BY <2>2, <2>3
<1>9. x = y
  BY <1>4, <1>5, <1>6, <1>8, SeqEqual
<1> QED
  BY <1>2, <1>3, <1>4, <1>5, <1>6, <1>9 DEF Kept, s, x, y, f, r

LEMMA WriteKeeps ==
    ASSUME NEW n \in Seq(Tokens), NEW u \in Seq(Tokens), NEW w \in Seq(Tokens),
           NEW k \in 0 .. Len(w)
    PROVE  Kept(n \o u, SubSeq(w, 1, k), Skip(w, k), w)
           /\ (n \o u) \o SubSeq(w, 1, k) = n \o (u \o SubSeq(w, 1, k))
           /\ u \o SubSeq(w, 1, k) \in Seq(Tokens)
<1> DEFINE f == SubSeq(w, 1, k)
<1>1. n \o u \in Seq(Tokens)
  BY ConcatProperties
<1>2. f \in Seq(Tokens)
  BY FrontProperties
<1>3. Kept(n \o u, f, Skip(w, k), w)
  BY <1>1, ReadKeeps
<1> HIDE DEF f
<1>4. (n \o u) \o f = n \o (u \o f)
  BY <1>2, ConcatAssociative
<1>5. u \o f \in Seq(Tokens)
  BY <1>2, ConcatProperties
<1> QED
  BY <1>3, <1>4, <1>5 DEF f

-----------------------------------------------------------------------------
(* One request and its answer *)

Clean == {<<>>, <<NL>>}

\* Besides newlines X holds r at most, once.
OneText(X, r) ==
    \/ \A i \in 1 .. Len(X) : X[i] = NL
    \/ \E e \in 1 .. Len(X) : X[e] = r /\ \A i \in 1 .. Len(X) : i # e => X[i] = NL

Own(text, r) == text = <<r>> \/ (text = <<>> /\ r.kind = "status")

\* Where the first answer in X ends, if one does: what is before is the answer
\* to r, and what is after is no answer.
Good(X, r) ==
    /\ OneText(X, r)
    /\ Ends(X) # {} => \E e \in Ends(X) :
         /\ \A j \in Ends(X) : e <= j
         /\ Skip(X, e + 1) \in Clean
         /\ Own(Text(SubSeq(X, 1, e)), r)

LEMMA CleanProperties ==
    ASSUME NEW X, X \in Clean
    PROVE  /\ X \in Seq(Tokens) /\ Len(X) \in {0, 1} /\ \A i \in 1 .. Len(X) : X[i] = NL
           /\ \A r : Good(X, r)
<1>1. X \in Seq(Tokens) /\ Len(X) \in {0, 1} /\ \A i \in 1 .. Len(X) : X[i] = NL
  <2>1. CASE X = <<>>
    BY <2>1, EmptySeq
  <2>2. CASE X = <<NL>>
    <3>1. NL \in Tokens
      BY DEF Tokens
    <3>2. X \in Seq(Tokens) /\ Len(X) = 1 /\ X[1] = NL
      BY <2>2, <3>1
    <3> QED
      BY <3>2
  <2> QED
    BY <2>1, <2>2 DEF Clean
<1>2. Ends(X) = {}
  BY <1>1 DEF Ends
<1> QED
  BY <1>1, <1>2 DEF Good, OneText

LEMMA ShortIsClean ==
    ASSUME NEW X \in Seq(Tokens), Len(X) \in {0, 1}, \A i \in 1 .. Len(X) : X[i] = NL
    PROVE  X \in Clean
<1>1. CASE Len(X) = 0
  BY <1>1, EmptySeq DEF Clean
<1>2. CASE Len(X) = 1
  <2>1. <<NL>> \in Seq(Tokens) /\ Len(<<NL>>) = 1 /\ <<NL>>[1] = NL
    BY DEF Tokens
  <2>2. X[1] = NL
    BY <1>2
  <2>3. \A i \in 1 .. Len(X) : X[i] = <<NL>>[i]
    BY <1>2, <2>1, <2>2
  <2>4. X = <<NL>>
    BY <1>2, <2>1, <2>3, SeqEqual
  <2> QED
    BY <2>4 DEF Clean
<1> QED
  BY <1>1, <1>2

LEMMA TextOf ==
    ASSUME NEW X \in Seq(Tokens), NEW r \in Requests, OneText(X, r)
    PROVE  /\ Text(X) \in {<<>>, <<r>>} /\ Text(X) \in Seq(Requests)
           /\ (\E i \in 1 .. Len(X) : X[i] = r) => Text(X) = <<r>>
<1>1. r # NL
  BY TokensAssumption
<1>2. CASE \A i \in 1 .. Len(X) : X[i] = NL
  BY <1>1, <1>2, TextNone, EmptySeq
<1>3. CASE \E e \in 1 .. Len(X) : X[e] = r /\ \A i \in 1 .. Len(X) : i # e => X[i] = NL
  <2>1. PICK e \in 1 .. Len(X) : X[e] = r /\ \A i \in 1 .. Len(X) : i # e => X[i] = NL
    BY <1>3
  <2>2. Text(X) = <<r>>
    BY <1>1, <2>1, TextOne
  <2> QED
    BY <2>2
<1> QED
  BY <1>2, <1>3 DEF OneText

LEMMA OneTextOfFront ==
    ASSUME NEW X \in Seq(Tokens), NEW s \in Seq(Tokens), NEW r \in Requests, OneText(X, r),
           Len(s) <= Len(X), \A i \in 1 .. Len(s) : s[i] = X[i]
    PROVE  OneText(s, r)
<1>1. Len(s) \in Nat /\ Len(X) \in Nat
  BY LenProperties
<1>2. \A i \in 1 .. Len(s) : i \in 1 .. Len(X)
  BY <1>1
<1>3. CASE \A i \in 1 .. Len(X) : X[i] = NL
  BY <1>2, <1>3 DEF OneText
<1>4. CASE \E e \in 1 .. Len(X) : X[e] = r /\ \A i \in 1 .. Len(X) : i # e => X[i] = NL
  <2>1. PICK e \in 1 .. Len(X) : X[e] = r /\ \A i \in 1 .. Len(X) : i # e => X[i] = NL
    BY <1>4
  <2>2. CASE e \in 1 .. Len(s)
    BY <1>2, <2>1, <2>2 DEF OneText
  <2>3. CASE e \notin 1 .. Len(s)
    BY <1>2, <2>1, <2>3 DEF OneText
  <2> QED
    BY <2>2, <2>3
<1> QED
  BY <1>3, <1>4 DEF OneText

\* When readResponse finds the end of an answer, it is the answer to r, and the
\* buffer and the socket together are clean again.
LEMMA Took ==
    ASSUME NEW X \in Seq(Tokens), NEW s \in Seq(Tokens), NEW b \in Seq(Tokens), X = s \o b,
           NEW r \in Requests, Good(X, r), Ends(s) # {}
    PROVE  /\ Skip(s, FirstEnd(s) + 1) \in Seq(Tokens)
           /\ Skip(s, FirstEnd(s) + 1) \o b \in Clean
           /\ Own(Text(SubSeq(s, 1, FirstEnd(s))), r)
<1>1. /\ Len(X) = Len(s) + Len(b) /\ \A i \in 1 .. Len(s) : s[i] = X[i]
      /\ \A i \in 1 .. Len(s) + Len(b) : X[i] = IF i <= Len(s) THEN s[i] ELSE b[i - Len(s)]
  <2>1. /\ Len(s \o b) = Len(s) + Len(b)
        /\ \A i \in 1 .. Len(s) + Len(b) :
             (s \o b)[i] = IF i <= Len(s) THEN s[i] ELSE b[i - Len(s)]
    BY ConcatProperties
  <2>2. Len(s) \in Nat /\ Len(b) \in Nat
    BY LenProperties
  <2> QED
    BY <2>1, <2>2
<1>2. Good(X, r)
  OBVIOUS
<1>3. Len(s) \in Nat /\ Len(b) \in Nat
  BY LenProperties
<1>4. Ends(s) \subseteq Ends(X)
  <2> SUFFICES ASSUME NEW i \in Ends(s) PROVE i \in Ends(X)
    OBVIOUS
  <2>1. i \in 1 .. Len(s) /\ i + 1 \in 1 .. Len(s) /\ i \in 1 .. Len(X) - 1
    BY <1>1, <1>3 DEF Ends
  <2> QED
    BY <1>1, <2>1 DEF Ends
<1>5. PICK e \in Ends(X) : /\ \A j \in Ends(X) : e <= j
                           /\ Skip(X, e + 1) \in Clean
                           /\ Own(Text(SubSeq(X, 1, e)), r)
  BY <1>2, <1>4 DEF Good
<1>6. e \in Ends(s) /\ \A j \in Ends(s) : e <= j
  <2>1. PICK i \in Ends(s) : TRUE
    OBVIOUS
  <2>2. e <= i /\ i \in 1 .. Len(s) - 1 /\ e \in 1 .. Len(X) - 1
    BY <1>4, <1>5, <2>1 DEF Ends
  <2>3. e \in 1 .. Len(s) - 1 /\ e \in 1 .. Len(s) /\ e + 1 \in 1 .. Len(s)
    BY <1>1, <1>3, <2>2
  <2>4. e \in Ends(s)
    BY <1>1, <2>3 DEF Ends
  <2> QED
    BY <1>4, <1>5, <2>4
<1>7. FirstEnd(s) = e
  <2>1. \E i \in Ends(s) : \A j \in Ends(s) : i <= j
    BY <1>6
  <2>2. FirstEnd(s) \in Ends(s) /\ \A j \in Ends(s) : FirstEnd(s) <= j
    BY <2>1 DEF FirstEnd
  <2>3. FirstEnd(s) <= e /\ e <= FirstEnd(s)
    BY <1>6, <2>2
  <2>4. FirstEnd(s) \in Int /\ e \in Int
    BY <1>6, <2>2 DEF Ends
  <2> QED
    BY <2>3, <2>4
<1>8. e \in 0 .. Len(s) /\ e + 1 \in 0 .. Len(s) /\ e \in 0 .. Len(X) /\ e + 1 \in 0 .. Len(X)
  <2>1. e \in 1 .. Len(s) - 1
    BY <1>6 DEF Ends
  <2> QED
    BY <1>1, <1>3, <2>1
<1>9. SubSeq(s, 1, e) = SubSeq(X, 1, e)
  <2>1. /\ SubSeq(s, 1, e) \in Seq(Tokens) /\ Len(SubSeq(s, 1, e)) = e
        /\ \A i \in 1 .. e : SubSeq(s, 1, e)[i] = s[i]
    BY <1>8, FrontProperties
  <2>2. /\ SubSeq(X, 1, e) \in Seq(Tokens) /\ Len(SubSeq(X, 1, e)) = e
        /\ \A i \in 1 .. e : SubSeq(X, 1, e)[i] = X[i]
    BY <1>8, FrontProperties
  <2>3. \A i \in 1 .. e : s[i] = X[i]
    BY <1>1, <1>3, <1>8
  <2> QED
    BY <2>1, <2>2, <2>3, SeqEqual
<1> DEFINE n == e + 1
           a == Skip(s, n)
           y == a \o b
           z == Skip(X, n)
<1>10. a \in Seq(Tokens) /\ y = z
  <2>0. n \in Nat /\ n <= Len(s) /\ n \in 0 .. Len(s) /\ n \in 0 .. Len(X)
    BY <1>3, <1>8
  <2> HIDE DEF n
  <2>1. /\ a \in Seq(Tokens) /\ Len(a) = Len(s) - n
        /\ \A i \in 1 .. Len(s) - n : a[i] = s[n + i]
    BY <2>0, SkipProperties
  <2>3. /\ z \in Seq(Tokens) /\ Len(z) = Len(X) - n
        /\ \A i \in 1 .. Len(X) - n : z[i] = X[n + i]
    BY <2>0, SkipProperties
  <2> HIDE DEF a, z
  <2>4. /\ y \in Seq(Tokens) /\ Len(y) = Len(a) + Len(b)
        /\ \A i \in 1 .. Len(a) + Len(b) : y[i] = IF i <= Len(a) THEN a[i] ELSE b[i - Len(a)]
    BY <2>1, ConcatProperties
  <2> HIDE DEF y
  <2>7. Len(y) = Len(z)
    BY <1>1, <1>3, <2>0, <2>1, <2>3, <2>4
  <2>8. ASSUME NEW i \in 1 .. Len(y) PROVE y[i] = z[i]
    <3>1. /\ i \in 1 .. Len(a) + Len(b) /\ i \in 1 .. Len(X) - n
          /\ n + i \in 1 .. Len(s) + Len(b)
      BY <1>1, <1>3, <2>0, <2>1, <2>4
    <3>2. z[i] = X[n + i]
      BY <2>3, <3>1
    <3>3. X[n + i] = IF n + i <= Len(s) THEN s[n + i] ELSE b[(n + i) - Len(s)]
      <4> DEFINE m == n + i
      <4>1. m \in 1 .. Len(s) + Len(b)
        BY <3>1
      <4> HIDE DEF m
      <4>2. X[m] = IF m <= Len(s) THEN s[m] ELSE b[m - Len(s)]
        BY <1>1, <4>1
      <4> QED
        BY <4>2 DEF m
    <3>4. CASE i <= Len(a)
      <4>1. i \in 1 .. Len(s) - n /\ n + i <= Len(s)
        BY <1>3, <2>0, <2>1, <3>4
      <4>2. y[i] = a[i] /\ a[i] = s[n + i]
        BY <2>1, <2>4, <3>1, <3>4, <4>1
      <4> QED
        BY <3>2, <3>3, <4>1, <4>2
    <3>5. CASE ~(i <= Len(a))
      <4>1. ~(n + i <= Len(s)) /\ (n + i) - Len(s) = i - Len(a)
        BY <1>3, <2>0, <2>1, <3>5
      <4>2. y[i] = b[i - Len(a)]
        BY <2>4, <3>1, <3>5
      <4> QED
        BY <3>2, <3>3, <4>1, <4>2
    <3> QED
      BY <3>4, <3>5
  <2> QED
    BY <2>1, <2>3, <2>4, <2>7, <2>8, SeqEqual
<1> QED
  BY <1>5, <1>7, <1>9, <1>10

\* What a clean connection holds once the answer to r, or the front of it, has
\* been written to it.
LEMMA Answered ==
    ASSUME NEW l \in Clean, NEW r \in Requests, NEW a \in Answers(r), NEW k \in 0 .. Len(a)
    PROVE  l \o SubSeq(a, 1, k) \in Seq(Tokens) /\ Good(l \o SubSeq(a, 1, k), r)
<1> DEFINE f == SubSeq(a, 1, k)
           X == l \o f
           n == Len(l)
<1>1. r # NL /\ r \in Tokens /\ NL \in Tokens
  BY TokensAssumption DEF Tokens
<1>2. /\ a \in Seq(Tokens) /\ Len(a) \in {2, 3, 4}
      /\ \A i \in 2 .. Len(a) : a[i] = NL
      /\ \/ a[1] = r /\ Len(a) \in {3, 4}
         \/ a[1] = NL /\ Len(a) = 2 /\ r.kind = "status"
  <2>1. CASE a = <<r, NL, NL>>
    BY <1>1, <2>1
  <2>2. CASE a = <<r, NL, NL, NL>>
    BY <1>1, <2>2
  <2>3. CASE a = <<NL, NL>> /\ r.kind = "status"
    BY <1>1, <2>3
  <2> QED
    BY <2>1, <2>2, <2>3 DEF Answers
<1>3. k \in Nat /\ k <= Len(a)
  BY <1>2
<1>4. f \in Seq(Tokens) /\ Len(f) = k /\ \A i \in 1 .. k : f[i] = a[i]
  BY <1>2, FrontProperties
<1>5. l \in Seq(Tokens) /\ n \in {0, 1} /\ \A i \in 1 .. n : l[i] = NL
  BY CleanProperties
<1> HIDE DEF f
<1>6. /\ X \in Seq(Tokens) /\ Len(X) = n + Len(f)
      /\ \A i \in 1 .. n + Len(f) : X[i] = IF i <= n THEN l[i] ELSE f[i - n]
  BY <1>4, <1>5, ConcatProperties
<1> HIDE DEF X, n
<1>7. Len(X) = n + k /\ \A i \in 1 .. n + k : X[i] = IF i <= n THEN NL ELSE a[i - n]
  <2> SUFFICES ASSUME NEW i \in 1 .. n + k PROVE X[i] = IF i <= n THEN NL ELSE a[i - n]
    BY <1>4, <1>6
  <2>1. CASE i <= n
    BY <1>4, <1>5, <1>6, <2>1 DEF n
  <2>2. CASE ~(i <= n)
    <3>1. i - n \in 1 .. k
      BY <1>3, <1>5, <2>2
    <3> QED
      BY <1>4, <1>6, <2>2, <3>1
  <2> QED
    BY <2>1, <2>2
<1>8. CASE a[1] = NL /\ Len(a) = 2 /\ r.kind = "status"
  <2>1. \A i \in 1 .. Len(X) : X[i] = NL
    <3> SUFFICES ASSUME NEW i \in 1 .. Len(X) PROVE X[i] = NL
      OBVIOUS
    <3>1. i <= n \/ i - n = 1 \/ i - n = 2
      BY <1>3, <1>5, <1>7, <1>8
    <3>2. a[1] = NL /\ a[2] = NL
      BY <1>2, <1>8
    <3> QED
      BY <1>7, <3>1, <3>2
  <2>2. Len(X) \in 0 .. 3
    BY <1>3, <1>5, <1>7, <1>8
  <2>3. ASSUME Ends(X) # {}
        PROVE  /\ 1 \in Ends(X) /\ \A j \in Ends(X) : 1 <= j
               /\ Skip(X, 2) \in Clean /\ Own(Text(SubSeq(X, 1, 1)), r)
    <3>1. Len(X) \in {2, 3} /\ \A j \in Ends(X) : 1 <= j
      <4>1. PICK e \in 1 .. Len(X) - 1 : TRUE
        BY <2>3 DEF Ends
      <4>2. \A j \in Ends(X) : j \in 1 .. Len(X) - 1
        BY DEF Ends
      <4>3. \A m \in 0 .. 3 : m # 2 /\ m # 3 => 1 .. m - 1 = {}
        OBVIOUS
      <4>4. Len(X) \in {2, 3}
        BY <2>2, <4>1, <4>3
      <4> QED
        BY <4>2, <4>4
    <3>2. 1 \in Ends(X)
      <4>1. 1 \in 1 .. Len(X) - 1 /\ 1 \in 1 .. Len(X) /\ 1 + 1 \in 1 .. Len(X)
        BY <3>1
      <4> QED
        BY <2>1, <4>1 DEF Ends
    <3>3. Skip(X, 2) \in Clean
      <4>1. 2 \in 0 .. Len(X)
        BY <3>1
      <4>2. /\ Skip(X, 2) \in Seq(Tokens) /\ Len(Skip(X, 2)) = Len(X) - 2
            /\ \A i \in 1 .. Len(X) - 2 : Skip(X, 2)[i] = X[2 + i]
        BY <1>6, <4>1, SkipProperties
      <4>3. \A i \in 1 .. Len(X) - 2 : X[2 + i] = NL
        BY <2>1, <3>1
      <4>4. Len(Skip(X, 2)) \in {0, 1}
        <5>1. Len(X) - 2 \in {0, 1}
          BY <3>1
        <5> QED
          BY <4>2, <5>1
      <4>5. \A i \in 1 .. Len(Skip(X, 2)) : Skip(X, 2)[i] = NL
        BY <4>2, <4>3
      <4> QED
        BY <4>2, <4>4, <4>5, ShortIsClean
    <3>4. Text(SubSeq(X, 1, 1)) = <<>>
      <4>1. 1 \in 0 .. Len(X)
        BY <3>1
      <4>2. /\ SubSeq(X, 1, 1) \in Seq(Tokens) /\ Len(SubSeq(X, 1, 1)) = 1
            /\ \A i \in 1 .. 1 : SubSeq(X, 1, 1)[i] = X[i]
        BY <1>6, <4>1, FrontProperties
      <4>3. \A i \in 1 .. 1 : X[i] = NL
        BY <2>1, <3>1
      <4> QED
        BY <4>2, <4>3, TextNone
    <3> QED
      BY <1>8, <3>1, <3>2, <3>3, <3>4 DEF Own
  <2>4. OneText(X, r)
    BY <2>1 DEF OneText
  <2>5. Ends(X) # {} => \E e \in Ends(X) :
          /\ \A j \in Ends(X) : e <= j
          /\ Skip(X, e + 1) \in Clean
          /\ Own(Text(SubSeq(X, 1, e)), r)
    <3>1. 1 + 1 = 2
      OBVIOUS
    <3> QED
      BY <2>3, <3>1
  <2> QED
    BY <1>6, <2>4, <2>5 DEF Good, X, f
<1>9. CASE a[1] = r /\ Len(a) \in {3, 4}
  <2> DEFINE e == n + 2
  <2>1. \A i \in 1 .. n + k : X[i] = IF i = n + 1 THEN r ELSE NL
    <3> SUFFICES ASSUME NEW i \in 1 .. n + k PROVE X[i] = IF i = n + 1 THEN r ELSE NL
      OBVIOUS
    <3>1. CASE i <= n
      BY <1>5, <1>7, <3>1
    <3>2. CASE i = n + 1
      <4>1. i - n = 1
        BY <1>5, <3>2
      <4> QED
        BY <1>5, <1>7, <1>9, <3>2, <4>1
    <3>3. CASE i > n + 1
      <4>1. i - n \in 2 .. Len(a)
        BY <1>2, <1>3, <1>5, <3>3
      <4>2. ~(i <= n) /\ i # n + 1
        BY <1>5, <3>3
      <4>3. X[i] = a[i - n]
        BY <1>7, <4>2
      <4> QED
        BY <1>2, <4>1, <4>2, <4>3
    <3> QED
      BY <1>5, <3>1, <3>2, <3>3
  <2>2. OneText(X, r)
    <3>1. CASE k = 0
      BY <1>5, <1>7, <2>1, <3>1 DEF OneText
    <3>2. CASE k >= 1
      <4>1. n + 1 \in 1 .. Len(X)
        BY <1>3, <1>5, <1>7, <3>2
      <4> QED
        BY <1>7, <2>1, <4>1 DEF OneText
    <3> QED
      BY <1>3, <3>1, <3>2
  <2>3. ASSUME NEW j \in Ends(X) PROVE j >= e
    <3>1. j \in 1 .. n + k /\ j + 1 \in 1 .. n + k /\ X[j] = NL /\ X[j + 1] = NL
      BY <1>3, <1>5, <1>7 DEF Ends
    <3>2. j # n + 1 /\ j + 1 # n + 1
      BY <1>1, <2>1, <3>1
    <3> QED
      BY <1>5, <3>1, <3>2
  <2>4. ASSUME Ends(X) # {}
        PROVE  e \in Ends(X) /\ Skip(X, e + 1) \in Clean /\ Own(Text(SubSeq(X, 1, e)), r)
    <3>1. k >= 3 /\ k <= 4
      <4>1. PICK j \in Ends(X) : TRUE
        BY <2>4
      <4>2. j \in 1 .. Len(X) - 1 /\ j >= e
        BY <2>3 DEF Ends
      <4>3. Len(X) = n + k /\ n \in Nat
        BY <1>5, <1>7
      <4>4. j \in Int /\ n + 2 <= j /\ j <= (n + k) - 1
        BY <1>3, <4>2, <4>3
      <4>5. k >= 3
        BY <1>3, <4>3, <4>4
      <4>6. k <= 4
        <5>1. Len(a) \in {3, 4}
          BY <1>9
        <5>2. CASE Len(a) = 3
          BY <1>3, <5>2
        <5>3. CASE Len(a) = 4
          BY <1>3, <5>3
        <5> QED
          BY <5>1, <5>2, <5>3
      <4> QED
        BY <4>5, <4>6
    <3>2. /\ e \in 1 .. n + k /\ e + 1 \in 1 .. n + k /\ e # n + 1 /\ e + 1 # n + 1
          /\ e \in 1 .. Len(X) - 1 /\ e \in 0 .. Len(X) /\ e + 1 \in 0 .. Len(X)
          /\ Len(X) - (e + 1) \in {0, 1} /\ n + 1 \in 1 .. e /\ n + 1 \in 1 .. n + k
      BY <1>3, <1>5, <1>7, <3>1
    <3>3. e \in Ends(X)
      BY <2>1, <3>2 DEF Ends
    <3>4. Skip(X, e + 1) \in Clean
      <4>1. /\ Skip(X, e + 1) \in Seq(Tokens) /\ Len(Skip(X, e + 1)) = Len(X) - (e + 1)
            /\ \A i \in 1 .. Len(X) - (e + 1) : Skip(X, e + 1)[i] = X[e + 1 + i]
        BY <1>6, <3>2, SkipProperties
      <4>2. ASSUME NEW i \in 1 .. Len(X) - (e + 1) PROVE X[e + 1 + i] = NL
        <5>1. e + 1 + i \in 1 .. n + k /\ e + 1 + i # n + 1
          BY <1>3, <1>5, <1>7
        <5> QED
          BY <2>1, <5>1
      <4> QED
        BY <3>2, <4>1, <4>2, ShortIsClean
    <3>5. Text(SubSeq(X, 1, e)) = <<r>>
      <4>1. /\ SubSeq(X, 1, e) \in Seq(Tokens) /\ Len(SubSeq(X, 1, e)) = e
            /\ \A i \in 1 .. e : SubSeq(X, 1, e)[i] = X[i]
        BY <1>6, <3>2, FrontProperties
      <4>2. \A i \in 1 .. e : i \in 1 .. n + k
        BY <1>5, <3>2
      <4>3. OneText(SubSeq(X, 1, e), r) /\ SubSeq(X, 1, e)[n + 1] = r
        BY <2>1, <3>2, <4>1, <4>2 DEF OneText
      <4> QED
        BY <3>2, <4>1, <4>3, TextOf
    <3> QED
      BY <3>3, <3>4, <3>5 DEF Own
  <2>5. \A j \in Ends(X) : e <= j
    BY <1>5, <2>3 DEF Ends
  <2>6. Good(X, r)
    BY <2>2, <2>4, <2>5 DEF Good
  <2> QED
    BY <1>6, <2>6 DEF X, f
<1> QED
  BY <1>2, <1>8, <1>9

\* What readLines makes of a line, of the front of one, or of nothing.
LineTaken(s, r, text, rest) ==
    /\ s = <<r, NL>> => text = <<r>> /\ rest = <<>>
    /\ s # <<r, NL>> => text = <<>> /\ rest = s
    /\ <<r>> # <<>> /\ <<r, NL>> # <<>> /\ <<r>> # <<r, NL>>

LEMMA TakenLines ==
    ASSUME NEW r, NEW s \in {<<>>, <<r>>, <<r, NL>>}, s = <<>> \/ r \in Requests
    PROVE  LineTaken(s, r, Text(SubSeq(s, 1, LastNL(s))), Skip(s, LastNL(s)))
<1> DEFINE P(i) == /\ i = 0 \/ s[i] = NL
                   /\ \A j \in i + 1 .. Len(s) : s[j] # NL
           m == LastNL(s)
<1>1. /\ s \in Seq(Tokens) /\ Len(s) \in {0, 1, 2}
      /\ s = <<r, NL>> => r # NL /\ Len(s) = 2 /\ s[1] = r /\ s[2] = NL
      /\ s = <<r>> => r # NL /\ Len(s) = 1 /\ s[1] = r
      /\ s = <<>> => Len(s) = 0
  <2>1. r \in Requests => r # NL /\ r \in Tokens /\ NL \in Tokens
    BY TokensAssumption DEF Tokens
  <2>2. CASE s = <<>>
    BY <2>2, EmptySeq
  <2>3. CASE s = <<r>> /\ r \in Requests
    BY <2>1, <2>3
  <2>4. CASE s = <<r, NL>> /\ r \in Requests
    BY <2>1, <2>4
  <2> QED
    BY <2>2, <2>3, <2>4
<1>2. ASSUME NEW i \in 0 .. Len(s), P(i), \A j \in 0 .. Len(s) : P(j) => j = i PROVE m = i
  BY <1>2 DEF LastNL
<1>3. <<r>> # <<>> /\ <<r, NL>> # <<>> /\ <<r>> # <<r, NL>>
  OBVIOUS
<1>4. CASE s = <<r, NL>>
  <2>1. P(2) /\ ~P(0) /\ ~P(1)
    BY <1>1, <1>4
  <2>2. 2 \in 0 .. Len(s) /\ \A j \in 0 .. Len(s) : P(j) => j = 2
    BY <1>1, <1>4, <2>1
  <2>3. m = 2
    BY <1>2, <2>1, <2>2
  <2>4. /\ SubSeq(s, 1, 2) \in Seq(Tokens) /\ Len(SubSeq(s, 1, 2)) = 2
        /\ \A i \in 1 .. 2 : SubSeq(s, 1, 2)[i] = s[i]
    BY <1>1, <2>2, FrontProperties
  <2>5. Text(SubSeq(s, 1, 2)) = <<r>>
    <3>1. \A i \in 1 .. 2 : i # 1 => SubSeq(s, 1, 2)[i] = NL
      BY <1>1, <1>4, <2>4
    <3>2. SubSeq(s, 1, 2)[1] = r /\ r # NL /\ 1 \in 1 .. 2
      BY <1>1, <1>4, <2>4
    <3> QED
      BY <2>4, <3>1, <3>2, TextOne
  <2>6. Skip(s, 2) \in Seq(Tokens) /\ Len(Skip(s, 2)) = 0
    <3>1. Skip(s, 2) \in Seq(Tokens) /\ Len(Skip(s, 2)) = Len(s) - 2
      BY <1>1, <2>2, SkipProperties
    <3>2. Len(s) - 2 = 0
      BY <1>1, <1>4
    <3> QED
      BY <3>1, <3>2
  <2>7. Skip(s, 2) = <<>>
    BY <2>6, EmptySeq
  <2> QED
    BY <1>4, <1>3, <2>3, <2>5, <2>7 DEF LineTaken
<1>5. CASE s # <<r, NL>>
  <2>1. P(0) /\ (1 \in 0 .. Len(s) => ~P(1))
    BY <1>1, <1>5
  <2>2. 0 \in 0 .. Len(s) /\ \A j \in 0 .. Len(s) : P(j) => j = 0
    BY <1>1, <1>5, <2>1
  <2>3. m = 0
    BY <1>2, <2>1, <2>2
  <2>4. SubSeq(s, 1, 0) \in Seq(Tokens) /\ Len(SubSeq(s, 1, 0)) = 0
    BY <1>1, <2>2, FrontProperties
  <2>5. Text(SubSeq(s, 1, 0)) = <<>>
    <3>1. \A i \in 1 .. Len(SubSeq(s, 1, 0)) : SubSeq(s, 1, 0)[i] = NL
      BY <2>4
    <3> QED
      BY <2>4, <3>1, TextNone
  <2>6. /\ Skip(s, 0) \in Seq(Tokens) /\ Len(Skip(s, 0)) = Len(s)
        /\ \A i \in 1 .. Len(s) : Skip(s, 0)[i] = s[i]
    <3>1. /\ Skip(s, 0) \in Seq(Tokens) /\ Len(Skip(s, 0)) = Len(s) - 0
          /\ \A i \in 1 .. Len(s) - 0 : Skip(s, 0)[i] = s[0 + i]
      BY <1>1, <2>2, SkipProperties
    <3> QED
      BY <1>1, <3>1
  <2>7. Skip(s, 0) = s
    BY <1>1, <2>6, SeqEqual
  <2> QED
    BY <1>5, <1>3, <2>3, <2>5, <2>7 DEF LineTaken
<1> QED
  BY <1>4, <1>5

LEMMA FrontOfLine ==
    ASSUME NEW a \in Seq(Tokens), NEW b \in Seq(Tokens), NEW r \in Requests,
           a \o b = <<r, NL>>
    PROVE  /\ a \in {<<>>, <<r>>, <<r, NL>>}
           /\ b = <<>> <=> a = <<r, NL>>
<1>1. r \in Tokens /\ NL \in Tokens
  BY DEF Tokens
<1>2. /\ Len(a \o b) = Len(a) + Len(b)
      /\ \A i \in 1 .. Len(a) + Len(b) : (a \o b)[i] = IF i <= Len(a) THEN a[i] ELSE b[i - Len(a)]
  BY ConcatProperties
<1>3. /\ <<r, NL>> \in Seq(Tokens) /\ Len(<<r, NL>>) = 2 /\ <<r, NL>>[1] = r /\ <<r, NL>>[2] = NL
      /\ <<r>> \in Seq(Tokens) /\ Len(<<r>>) = 1 /\ <<r>>[1] = r
  BY <1>1
<1>4. Len(a) \in Nat /\ Len(b) \in Nat /\ Len(a) + Len(b) = 2
  BY <1>2, <1>3, LenProperties
<1>5. \A i \in 1 .. Len(a) : a[i] = <<r, NL>>[i]
  BY <1>2, <1>4
<1>6. Len(a) \in {0, 1, 2}
  <2> DEFINE n == Len(a)
             m == Len(b)
  <2>1. n \in Nat /\ m \in Nat /\ n + m = 2
    BY <1>4
  <2> HIDE DEF n, m
  <2>2. n \in {0, 1, 2}
    BY <2>1
  <2> QED
    BY <2>2 DEF n
<1>7. CASE Len(a) = 0
  BY <1>4, <1>7, EmptySeq
<1>8. CASE Len(a) = 1
  <2>1. \A i \in 1 .. Len(a) : a[i] = <<r>>[i]
    BY <1>3, <1>5, <1>8
  <2>2. a = <<r>>
    BY <1>3, <1>8, <2>1, SeqEqual
  <2>3. Len(b) = 1
    BY <1>4, <1>8
  <2> QED
    BY <2>2, <2>3, EmptySeq
<1>9. CASE Len(a) = 2
  <2>1. Len(b) = 0
    BY <1>4, <1>9
  <2>2. a = <<r, NL>> /\ b = <<>>
    BY <1>3, <1>5, <1>9, <2>1, SeqEqual, EmptySeq
  <2> QED
    BY <2>2
<1> QED
  BY <1>6, <1>7, <1>8, <1>9

-----------------------------------------------------------------------------
(* The invariant *)

In(c) == inbox[c] \o up[c]
Out(c) == outbox[c] \o down[c]

\* The lines of c that wait to be executed.
Mine(c) == IF serving = c THEN lines ELSE <<>>

\* A client in state st whose last request is r: in and rest are what is on its
\* way to the daemon and what is still to be written, mine what the daemon has
\* read of it and not executed, out what is on its way back, and text what the
\* client showed last.  The request is in one place, and after it the answer.
ExchangeOK(st, r, in, rest, mine, out, text) ==
    /\ in \in {<<>>, <<r>>, <<r, NL>>} /\ mine \in {<<>>, <<r>>}
    /\ in # <<>> \/ mine # <<>> => r \in Requests
    /\ mine # <<>> => in = <<>> /\ st \in {"waiting", "gone"}
    /\ st = "off" => r = NoRequest /\ in = <<>> /\ out = <<>>
    /\ st = "prompt" => in = <<>> /\ out \in Clean /\ (r.n > 0 => Own(text, r))
    /\ st = "sending" => r \in Requests /\ in \o rest = <<r, NL>> /\ in # <<r, NL>>
                         /\ out \in Clean
    /\ st = "waiting" => /\ r \in Requests /\ in \in {<<>>, <<r, NL>>} /\ Good(out, r)
                         /\ in # <<>> \/ mine # <<>> => out \in Clean

Exchange(c) ==
    ExchangeOK(client[c], request[c], In(c), unsent[c], Mine(c), Out(c), shown[c])

ClientInv ==
    /\ TypeOK
    /\ serving = Nobody => lines = <<>>
    /\ \A c \in Clients : Exchange(c) /\ (client[c] = "off" => conn[c] = "none")

LEMMA RequestFields ==
    /\ \A r \in Requests \cup {NoRequest} : r.n \in Nat /\ r.kind \in Kinds
    /\ \A r \in Requests : r # NL /\ <<r>> # <<>> /\ <<r, NL>> # <<>> /\ <<r>> # <<r, NL>>
<1>1. \A r \in Requests : r.n \in Nat /\ r.kind \in Kinds
  BY RequestsAssumption DEF Requests
<1>2. NoRequest.n \in Nat /\ NoRequest.kind \in Kinds
  BY DEF NoRequest, Kinds
<1>3. \A r \in Requests : r # NL /\ <<r>> # <<>> /\ <<r, NL>> # <<>> /\ <<r>> # <<r, NL>>
  BY TokensAssumption
<1> QED
  BY <1>1, <1>2, <1>3

LEMMA InitClient == Init => ClientInv
<1> SUFFICES ASSUME Init PROVE ClientInv
  OBVIOUS
<1>1. TypeOK
  BY EmptySeq DEF Init, TypeOK
<1>2. ASSUME NEW c \in Clients PROVE Exchange(c) /\ conn[c] = "none"
  <2>1. /\ client[c] = "off" /\ request[c] = NoRequest /\ conn[c] = "none" /\ serving # c
        /\ inbox[c] = <<>> /\ up[c] = <<>> /\ outbox[c] = <<>> /\ down[c] = <<>>
    BY <1>2, TokensAssumption DEF Init
  <2>2. In(c) = <<>> /\ Out(c) = <<>> /\ Mine(c) = <<>>
    BY <2>1 DEF In, Out, Mine
  <2> QED
    BY <2>1, <2>2 DEF Exchange, ExchangeOK
<1> QED
  BY <1>1, <1>2 DEF Init, ClientInv

\* A step that is about c leaves the others where they are.
LEMMA OneClient ==
    ASSUME ClientInv, NEW c \in Clients, TypeOK', serving' = Nobody => lines' = <<>>,
           Exchange(c)', client'[c] = "off" => conn'[c] = "none",
           \A d \in Clients \ {c} :
             /\ client'[d] = client[d] /\ request'[d] = request[d] /\ unsent'[d] = unsent[d]
             /\ inbox'[d] = inbox[d] /\ up'[d] = up[d] /\ outbox'[d] = outbox[d]
             /\ down'[d] = down[d] /\ shown'[d] = shown[d] /\ conn'[d] = conn[d]
             /\ Mine(d)' = Mine(d)
    PROVE  ClientInv'
<1>1. ASSUME NEW d \in Clients, d # c
      PROVE  Exchange(d)' /\ (client'[d] = "off" => conn'[d] = "none")
  <2>1. In(d)' = In(d) /\ Out(d)' = Out(d)
    BY <1>1 DEF In, Out
  <2> QED
    BY <1>1, <2>1 DEF ClientInv, Exchange
<1> QED
  BY <1>1 DEF ClientInv

LEMMA ConnectOK == ASSUME ClientInv, NEW c \in Clients, Connect(c) PROVE ClientInv'
<1>1. /\ client[c] = "off" /\ client' = [client EXCEPT ![c] = "prompt"]
      /\ conn' = [conn EXCEPT ![c] = "queued"]
      /\ UNCHANGED <<daemon, inbox, serving, lines, request, unsent, outbox, shown, up, down>>
  BY DEF Connect
<1>2. client'[c] = "prompt" /\ TypeOK'
  BY <1>1 DEF ClientInv, TypeOK
<1>3. Exchange(c) /\ request[c] = NoRequest /\ In(c) = <<>> /\ Out(c) = <<>> /\ Mine(c) = <<>>
  BY <1>1 DEF ClientInv, Exchange, ExchangeOK
<1>4. In(c)' = In(c) /\ Out(c)' = Out(c) /\ \A d \in Clients : Mine(d)' = Mine(d)
  BY <1>1 DEF In, Out, Mine
<1>5. ~(request[c].n > 0) /\ Out(c) \in Clean
  BY <1>3 DEF NoRequest, Clean
<1>6. Exchange(c)'
  BY <1>1, <1>2, <1>3, <1>4, <1>5 DEF Exchange, ExchangeOK
<1> QED
  BY <1>1, <1>2, <1>4, <1>6, OneClient DEF ClientInv, TypeOK

LEMMA TypeStepOK == ASSUME ClientInv, NEW c \in Clients, Type(c) PROVE ClientInv'
<1>1. PICK k \in Kinds :
        /\ request' = [request EXCEPT ![c] = [n |-> request[c].n + 1, kind |-> k]]
        /\ unsent' = [unsent EXCEPT ![c] = <<[n |-> request[c].n + 1, kind |-> k], NL>>]
  BY KindsAssumption DEF Type
<1> DEFINE r == [n |-> request[c].n + 1, kind |-> k]
<1>2. /\ client[c] = "prompt" /\ request[c].n < MaxRequests[c]
      /\ client' = [client EXCEPT ![c] = "sending"]
      /\ UNCHANGED <<daemon, conn, inbox, serving, lines, outbox, shown, up, down>>
  BY DEF Type, daemonVars
<1>3. r \in Requests
  <2>1. request[c].n \in Nat /\ MaxRequests[c] \in Nat
    BY RequestFields, RequestsAssumption DEF ClientInv, TypeOK
  <2>2. request[c].n + 1 \in 1 .. MaxRequests[c]
    BY <1>2, <2>1
  <2> QED
    BY <2>2 DEF Requests
<1>4. <<r, NL>> \in Seq(Tokens)
  BY <1>3 DEF Tokens
<1>5. TypeOK /\ Exchange(c)
  BY DEF ClientInv
<1> HIDE DEF r
<1>6. /\ client'[c] = "sending" /\ request'[c] = r /\ unsent'[c] = <<r, NL>> /\ TypeOK'
  BY <1>1, <1>2, <1>3, <1>4, <1>5 DEF TypeOK, r
<1>7. In(c) = <<>> /\ Mine(c) = <<>> /\ Out(c) \in Clean
  BY <1>2, <1>5 DEF Exchange, ExchangeOK
<1>8. In(c)' = In(c) /\ Out(c)' = Out(c) /\ \A d \in Clients : Mine(d)' = Mine(d)
  BY <1>2 DEF In, Out, Mine
<1>9. <<>> \o <<r, NL>> = <<r, NL>>
  BY <1>4, ConcatEmptySeq
<1>10. Exchange(c)'
  BY <1>3, <1>6, <1>7, <1>8, <1>9 DEF Exchange, ExchangeOK
<1> QED
  BY <1>1, <1>2, <1>5, <1>6, <1>8, <1>10, OneClient DEF ClientInv, TypeOK

\* A client that goes leaves what it has sent, or a part of it, and nobody reads
\* what is sent to it.
LEMMA Gone ==
    ASSUME ClientInv, NEW c \in Clients, client[c] \in {"prompt", "sending", "waiting"},
           client' = [client EXCEPT ![c] = "gone"],
           UNCHANGED <<conn, inbox, serving, lines, request, unsent, up>>,
           shown' \in [Clients -> Seq(Requests)],
           outbox' \in [Clients -> Seq(Tokens)], down' \in [Clients -> Seq(Tokens)],
           \A d \in Clients \ {c} :
             outbox'[d] = outbox[d] /\ down'[d] = down[d] /\ shown'[d] = shown[d],
           daemon' = daemon
    PROVE  ClientInv'
<1>1. TypeOK /\ Exchange(c)
  BY DEF ClientInv
<1>2. TypeOK' /\ client'[c] = "gone" /\ \A d \in Clients \ {c} : client'[d] = client[d]
  BY <1>1 DEF TypeOK
<1>3. In(c)' = In(c) /\ \A d \in Clients : Mine(d)' = Mine(d)
  BY DEF In, Mine
<1>4. Exchange(c)'
  <2> DEFINE r == request[c]
  <2>1. /\ In(c) \in {<<>>, <<r>>, <<r, NL>>} /\ Mine(c) \in {<<>>, <<r>>}
        /\ In(c) # <<>> \/ Mine(c) # <<>> => r \in Requests
        /\ Mine(c) # <<>> => In(c) = <<>>
    BY <1>1 DEF Exchange, ExchangeOK
  <2> QED
    BY <1>2, <1>3, <2>1 DEF Exchange, ExchangeOK
<1> QED
  BY <1>2, <1>3, <1>4, OneClient DEF ClientInv

LEMMA sendCommandOK == ASSUME ClientInv, NEW c \in Clients, sendCommand(c) PROVE ClientInv'
<1>1. /\ client[c] = "sending" /\ UNCHANGED <<daemon, conn, inbox, serving, lines>>
      /\ UNCHANGED <<request, outbox, shown, down>>
  BY DEF sendCommand, daemonVars
<1>2. TypeOK /\ Exchange(c)
  BY DEF ClientInv
<1>3. CASE HungUp(c)
  <2>1. client' = [client EXCEPT ![c] = "gone"] /\ UNCHANGED <<unsent, up>>
    BY <1>3 DEF sendCommand
  <2> QED
    BY <1>1, <1>2, <2>1, Gone DEF TypeOK
<1>4. CASE ~HungUp(c)
  <2>1. PICK k \in 1 .. Len(unsent[c]) :
          /\ up' = [up EXCEPT ![c] = @ \o SubSeq(unsent[c], 1, k)]
          /\ unsent' = [unsent EXCEPT ![c] = Skip(@, k)]
          /\ client' = [client EXCEPT
                ![c] = IF k = Len(unsent[c]) THEN "waiting" ELSE "sending"]
    BY <1>4 DEF sendCommand
  <2> DEFINE u == up[c]
             w == unsent[c]
             n == inbox[c]
             r == request[c]
             f == SubSeq(w, 1, k)
             u2 == u \o f
             w2 == Skip(w, k)
  <2>2. u \in Seq(Tokens) /\ w \in Seq(Tokens) /\ n \in Seq(Tokens) /\ k \in 0 .. Len(w)
    <3>1. Len(unsent[c]) \in Nat
      BY <1>2, LenProperties DEF TypeOK
    <3> QED
      BY <1>2, <3>1 DEF TypeOK
  <2>3. In(c) = n \o u /\ In(c) \o w = <<r, NL>> /\ r \in Requests /\ Out(c) \in Clean
        /\ Mine(c) = <<>>
    BY <1>1, <1>2 DEF Exchange, ExchangeOK, In
  <2>4. Kept(n \o u, f, w2, w) /\ (n \o u) \o f = n \o u2 /\ u2 \in Seq(Tokens)
    BY <2>2, WriteKeeps
  <2>5. w2 \in Seq(Tokens) /\ Len(w2) = Len(w) - k
    BY <2>2, SkipProperties
  <2> HIDE DEF u, w, n, f, w2, u2
  <2>7. n \o u2 \in Seq(Tokens) /\ (n \o u2) \o w2 = <<r, NL>>
    BY <2>3, <2>4 DEF Kept
  <2>8. /\ up'[c] = u2 /\ unsent'[c] = w2 /\ client'[c] \in {"sending", "waiting"}
        /\ client'[c] = "waiting" <=> Len(w2) = 0
        /\ TypeOK'
        /\ \A d \in Clients \ {c} : up'[d] = up[d] /\ unsent'[d] = unsent[d] /\ client'[d] = client[d]
    <3>1. up' = [up EXCEPT ![c] = u2] /\ unsent' = [unsent EXCEPT ![c] = w2]
      BY <2>1 DEF u2, w2, f, u, w
    <3>2. Len(w) \in Nat
      BY <2>2, LenProperties
    <3>3. /\ client' \in [Clients -> {"off", "prompt", "sending", "waiting", "gone"}]
          /\ client'[c] = IF k = Len(w) THEN "waiting" ELSE "sending"
          /\ \A d \in Clients \ {c} : client'[d] = client[d]
      BY <1>2, <2>1 DEF TypeOK, w
    <3>4. /\ up' \in [Clients -> Seq(Tokens)] /\ up'[c] = u2
          /\ \A d \in Clients \ {c} : up'[d] = up[d]
      BY <1>2, <2>4, <3>1 DEF TypeOK
    <3>5. /\ unsent' \in [Clients -> Seq(Tokens)] /\ unsent'[c] = w2
          /\ \A d \in Clients \ {c} : unsent'[d] = unsent[d]
      BY <1>2, <2>5, <3>1 DEF TypeOK
    <3>6. TypeOK'
      BY <1>1, <1>2, <3>3, <3>4, <3>5 DEF TypeOK
    <3>7. client'[c] = "waiting" <=> Len(w2) = 0
      BY <2>2, <2>5, <3>2, <3>3
    <3> QED
      BY <3>3, <3>4, <3>5, <3>6, <3>7
  <2>9. In(c)' = n \o u2 /\ Out(c)' = Out(c) /\ \A d \in Clients : Mine(d)' = Mine(d)
    BY <1>1, <2>8 DEF In, Out, Mine, n
  <2> DEFINE v == n \o u2
  <2>10. v \in {<<>>, <<r>>, <<r, NL>>} /\ (Len(w2) = 0 <=> v = <<r, NL>>)
    <3>1. v \in Seq(Tokens) /\ w2 \in Seq(Tokens) /\ v \o w2 = <<r, NL>> /\ r \in Requests
      BY <2>3, <2>5, <2>7
    <3> HIDE DEF v, r
    <3>2. v \in {<<>>, <<r>>, <<r, NL>>} /\ (w2 = <<>> <=> v = <<r, NL>>)
      BY <3>1, FrontOfLine
    <3>3. Len(w2) = 0 <=> w2 = <<>>
      BY <3>1, EmptySeq
    <3> QED
      BY <3>2, <3>3
  <2>11. Good(Out(c), r)
    BY <2>3, CleanProperties
  <2>12. request'[c] = r
    BY <1>1
  <2> HIDE DEF r, v
  <2>13. Exchange(c)'
    <3>1. In(c)' = v /\ v \o w2 = <<r, NL>>
      BY <2>7, <2>9 DEF v
    <3>2. /\ \/ client'[c] = "sending" /\ v # <<r, NL>>
             \/ client'[c] = "waiting" /\ v = <<r, NL>>
          /\ request'[c] = r /\ Out(c)' \in Clean /\ Good(Out(c)', r) /\ Mine(c)' = <<>>
          /\ unsent'[c] = w2
      BY <2>3, <2>8, <2>9, <2>10, <2>11, <2>12
    <3> QED
      BY <2>3, <2>10, <3>1, <3>2 DEF Exchange, ExchangeOK
  <2> QED
    BY <1>1, <2>8, <2>9, <2>13, OneClient DEF ClientInv
<1> QED
  BY <1>3, <1>4

LEMMA readResponseOK == ASSUME ClientInv, NEW c \in Clients, readResponse(c) PROVE ClientInv'
<1>1. /\ client[c] = "waiting" /\ UNCHANGED <<daemon, conn, inbox, serving, lines>>
      /\ UNCHANGED <<request, unsent, up>>
  BY DEF readResponse, daemonVars
<1>2. TypeOK /\ Exchange(c)
  BY DEF ClientInv
<1> DEFINE r == request[c]
           o == outbox[c]
           d == down[c]
<1>3. PICK k \in 0 .. Len(d) :
        LET s == o \o SubSeq(d, 1, k)
        IN  /\ down' = [down EXCEPT ![c] = Skip(@, k)]
            /\ IF Ends(s) # {}
               THEN /\ takeResponse(c, s)
                    /\ client' = [client EXCEPT ![c] =
                          IF r.kind = "shutdown" THEN "gone" ELSE "prompt"]
               ELSE outbox' = [outbox EXCEPT ![c] = s] /\ UNCHANGED <<client, shown>>
  BY DEF readResponse
<1> DEFINE s == o \o SubSeq(d, 1, k)
           b == Skip(d, k)
           x == o \o d
<1>4. o \in Seq(Tokens) /\ d \in Seq(Tokens)
  BY <1>2 DEF TypeOK
<1>5. s \in Seq(Tokens) /\ b \in Seq(Tokens) /\ x \in Seq(Tokens) /\ s \o b = x
      /\ Len(x) = Len(s) + Len(b)
  <2>1. Kept(o, SubSeq(d, 1, k), Skip(d, k), d)
    BY <1>4, ReadKeeps
  <2> QED
    BY <2>1 DEF Kept
<1>6. /\ r \in Requests /\ In(c) \in {<<>>, <<r, NL>>} /\ Mine(c) \in {<<>>, <<r>>}
      /\ Good(x, r) /\ (In(c) # <<>> \/ Mine(c) # <<>> => x \in Clean)
      /\ Mine(c) # <<>> => In(c) = <<>>
  BY <1>1, <1>2 DEF Exchange, ExchangeOK, Out
<1>7. /\ down' = [down EXCEPT ![c] = b]
      /\ \/ /\ Ends(s) # {} /\ takeResponse(c, s)
            /\ client' = [client EXCEPT ![c] = IF r.kind = "shutdown" THEN "gone" ELSE "prompt"]
         \/ outbox' = [outbox EXCEPT ![c] = s] /\ UNCHANGED <<client, shown>>
  BY <1>3
<1>8. In(c)' = In(c) /\ request'[c] = r /\ \A e \in Clients : Mine(e)' = Mine(e)
  BY <1>1 DEF In, Mine
<1> HIDE DEF r, o, d, s, b, x
<1>9. CASE outbox' = [outbox EXCEPT ![c] = s] /\ UNCHANGED <<client, shown>>
  <2>1. TypeOK' /\ outbox'[c] = s /\ down'[c] = b
        /\ \A e \in Clients \ {c} : outbox'[e] = outbox[e] /\ down'[e] = down[e]
    BY <1>1, <1>2, <1>5, <1>7, <1>9 DEF TypeOK
  <2>2. Out(c)' = Out(c)
    BY <1>5, <2>1 DEF Out, x, o, d
  <2>3. Exchange(c)'
    BY <1>1, <1>2, <1>8, <1>9, <2>2 DEF Exchange, r
  <2> QED
    BY <1>1, <1>8, <1>9, <2>1, <2>3, OneClient DEF ClientInv
<1>10. CASE /\ Ends(s) # {} /\ takeResponse(c, s)
            /\ client' = [client EXCEPT ![c] = IF r.kind = "shutdown" THEN "gone" ELSE "prompt"]
  <2> DEFINE o2 == Skip(s, FirstEnd(s) + 1)
             z == Text(SubSeq(s, 1, FirstEnd(s)))
  <2>1. o2 \in Seq(Tokens) /\ o2 \o b \in Clean /\ Own(z, r)
    BY <1>5, <1>6, <1>10, Took
  <2>2. shown' = [shown EXCEPT ![c] = z] /\ outbox' = [outbox EXCEPT ![c] = o2]
    BY <1>10 DEF takeResponse
  <2> HIDE DEF o2, z
  <2>3. z \in Seq(Requests)
    <3>1. <<r>> \in Seq(Requests) /\ <<>> \in Seq(Requests)
      BY <1>6, EmptySeq
    <3> QED
      BY <2>1, <3>1 DEF Own
  <2>4. /\ outbox'[c] = o2 /\ down'[c] = b /\ shown'[c] = z
        /\ client'[c] \in {"prompt", "gone"} /\ TypeOK'
        /\ \A e \in Clients \ {c} : /\ outbox'[e] = outbox[e] /\ down'[e] = down[e]
                                    /\ shown'[e] = shown[e] /\ client'[e] = client[e]
    BY <1>1, <1>2, <1>5, <1>7, <1>10, <2>1, <2>2, <2>3 DEF TypeOK
  <2>5. Out(c)' = o2 \o b
    BY <2>4 DEF Out
  <2>6. In(c) = <<>> /\ Mine(c) = <<>>
    <3>1. ~(x \in Clean)
      <4>1. ASSUME x \in Clean PROVE FALSE
        <5>1. Len(x) \in {0, 1}
          BY <4>1, CleanProperties
        <5>2. Len(x) = Len(s) + Len(b) /\ Len(s) \in Nat /\ Len(b) \in Nat
          BY <1>5, LenProperties
        <5>3. Len(s) <= 1
          BY <5>1, <5>2
        <5> QED
          BY <1>10, <5>2, <5>3 DEF Ends
      <4> QED
        BY <4>1
    <3> QED
      BY <1>6, <3>1
  <2>7. Exchange(c)'
    BY <1>6, <1>8, <2>1, <2>4, <2>5, <2>6 DEF Exchange, ExchangeOK
  <2> QED
    BY <1>1, <1>8, <2>4, <2>7, OneClient DEF ClientInv
<1> QED
  BY <1>7, <1>9, <1>10

LEMMA readHangupOK == ASSUME ClientInv, NEW c \in Clients, readHangup(c) PROVE ClientInv'
<1>1. TypeOK /\ Exchange(c) /\ client[c] = "waiting" /\ down[c] = <<>>
  BY DEF ClientInv, readHangup
<1>2. /\ shown' = [shown EXCEPT ![c] = Text(outbox[c])]
      /\ outbox' = [outbox EXCEPT ![c] = <<>>] /\ client' = [client EXCEPT ![c] = "gone"]
      /\ UNCHANGED <<daemon, conn, inbox, serving, lines, request, unsent, up, down>>
  BY DEF readHangup, daemonVars
<1>3. Text(outbox[c]) \in Seq(Requests)
  <2>1. outbox[c] \in Seq(Tokens)
    BY <1>1 DEF TypeOK
  <2>2. Out(c) = outbox[c]
    BY <1>1, <2>1, ConcatEmptySeq DEF Out
  <2>3. request[c] \in Requests /\ Good(Out(c), request[c])
    BY <1>1 DEF Exchange, ExchangeOK
  <2>4. OneText(outbox[c], request[c])
    BY <2>2, <2>3 DEF Good
  <2> QED
    BY <2>1, <2>3, <2>4, TextOf
<1>4. shown' \in [Clients -> Seq(Requests)] /\ outbox' \in [Clients -> Seq(Tokens)]
  BY <1>1, <1>2, <1>3, EmptySeq DEF TypeOK
<1>5. \A d \in Clients \ {c} : outbox'[d] = outbox[d] /\ shown'[d] = shown[d]
  BY <1>1, <1>2 DEF TypeOK
<1> QED
  BY <1>1, <1>2, <1>4, <1>5, Gone DEF TypeOK

LEMMA LeaveOK == ASSUME ClientInv, NEW c \in Clients, Leave(c) PROVE ClientInv'
<1>1. TypeOK /\ client[c] \in {"prompt", "sending", "waiting"}
  BY DEF ClientInv, Leave
<1>2. /\ client' = [client EXCEPT ![c] = "gone"]
      /\ UNCHANGED <<daemon, conn, inbox, serving, lines, request, unsent, outbox, shown, up, down>>
  BY DEF Leave, daemonVars
<1> QED
  BY <1>1, <1>2, Gone DEF TypeOK

\* Steps that touch none of what the exchanges are made of.
LEMMA Aside ==
    ASSUME ClientInv, TypeOK',
           UNCHANGED <<inbox, client, request, unsent, outbox, shown, up, down>>,
           \A c \in Clients : Mine(c)' = Mine(c), serving' = Nobody => lines' = <<>>,
           \A c \in Clients : conn'[c] # conn[c] => conn[c] # "none"
    PROVE  ClientInv'
<1>1. \A c \in Clients : In(c)' = In(c) /\ Out(c)' = Out(c)
  BY DEF In, Out
<1>2. \A c \in Clients : Exchange(c)'
  BY <1>1 DEF ClientInv, Exchange
<1> QED
  BY <1>2 DEF ClientInv

LEMMA AsideSteps ==
    ASSUME ClientInv,
           \/ \E c \in Clients : handleNewConnection(c)
           \/ messageDone \/ removeClosedConnections \/ exitDaemon \/ UNCHANGED vars
    PROVE  ClientInv'
<1>1. TypeOK /\ (serving = Nobody => lines = <<>>)
  BY DEF ClientInv
<1>2. ASSUME NEW c \in Clients, handleNewConnection(c) PROVE ClientInv'
  <2>1. /\ conn[c] = "queued" /\ conn' = [conn EXCEPT ![c] = "open"]
        /\ UNCHANGED <<daemon, inbox, serving, lines>>
        /\ UNCHANGED <<client, request, unsent, outbox, shown, up, down>>
    BY <1>2 DEF handleNewConnection, clientVars
  <2>2. TypeOK' /\ \A d \in Clients : conn'[d] # conn[d] => conn[d] # "none"
    BY <1>1, <2>1 DEF TypeOK
  <2>3. \A d \in Clients : Mine(d)' = Mine(d)
    BY <2>1 DEF Mine
  <2> QED
    BY <1>1, <2>1, <2>2, <2>3, Aside
<1>3. CASE messageDone
  <2>1. /\ lines = <<>> /\ serving' = Nobody /\ UNCHANGED <<daemon, conn, inbox, lines>>
        /\ UNCHANGED <<client, request, unsent, outbox, shown, up, down>>
    BY <1>3 DEF messageDone, clientVars
  <2>2. TypeOK'
    BY <1>1, <2>1 DEF TypeOK
  <2>3. \A d \in Clients : Mine(d)' = Mine(d)
    BY <2>1 DEF Mine
  <2> QED
    BY <2>1, <2>2, <2>3, Aside
<1>4. CASE removeClosedConnections
  <2>1. /\ conn' = [c \in Clients |-> IF conn[c] = "closed" THEN "removed" ELSE conn[c]]
        /\ UNCHANGED <<daemon, inbox, serving, lines>>
        /\ UNCHANGED <<client, request, unsent, outbox, shown, up, down>>
    BY <1>4 DEF removeClosedConnections, clientVars
  <2>2. TypeOK' /\ \A d \in Clients : conn'[d] # conn[d] => conn[d] # "none"
    BY <1>1, <2>1 DEF TypeOK
  <2>3. \A d \in Clients : Mine(d)' = Mine(d)
    BY <2>1 DEF Mine
  <2> QED
    BY <1>1, <2>1, <2>2, <2>3, Aside
<1>5. CASE exitDaemon
  <2>1. /\ daemon' = "left" /\ UNCHANGED <<conn, inbox, serving, lines>>
        /\ UNCHANGED <<client, request, unsent, outbox, shown, up, down>>
    BY <1>5 DEF exitDaemon, clientVars
  <2>2. TypeOK'
    BY <1>1, <2>1 DEF TypeOK
  <2>3. \A d \in Clients : Mine(d)' = Mine(d)
    BY <2>1 DEF Mine
  <2> QED
    BY <1>1, <2>1, <2>2, <2>3, Aside
<1>6. CASE UNCHANGED vars
  <2>1. /\ UNCHANGED <<daemon, conn, inbox, serving, lines>>
        /\ UNCHANGED <<client, request, unsent, outbox, shown, up, down>>
    BY <1>6 DEF vars
  <2>2. TypeOK'
    BY <1>1, <2>1 DEF TypeOK
  <2>3. \A d \in Clients : Mine(d)' = Mine(d)
    BY <2>1 DEF Mine
  <2> QED
    BY <1>1, <2>1, <2>2, <2>3, Aside
<1> QED
  BY <1>2, <1>3, <1>4, <1>5, <1>6

LEMMA handleClientMessageOK ==
    ASSUME ClientInv, NEW c \in Clients, handleClientMessage(c) PROVE ClientInv'
<1> DEFINE s == In(c)
           l == Text(SubSeq(s, 1, LastNL(s)))
           w == Skip(s, LastNL(s))
           r == request[c]
<1>1. /\ serving = Nobody /\ conn[c] = "open" /\ serving' = c /\ UNCHANGED daemon
      /\ UNCHANGED <<client, request, unsent, outbox, shown>>
      /\ lines' = l /\ inbox' = [inbox EXCEPT ![c] = w] /\ up' = [up EXCEPT ![c] = <<>>]
      /\ noticeEnd(c)
  BY DEF handleClientMessage, readLines, takeLines, In, clientVars
<1>2. TypeOK /\ Exchange(c) /\ lines = <<>> /\ client[c] # "off"
  BY <1>1 DEF ClientInv
<1>3. /\ s \in {<<>>, <<r>>, <<r, NL>>}
      /\ s # <<>> => r \in Requests
  BY <1>2 DEF Exchange, ExchangeOK
<1>4. LineTaken(s, r, l, w)
  <2> HIDE DEF s, r
  <2>1. s = <<>> \/ r \in Requests
    BY <1>3
  <2> QED
    BY <1>3, <2>1, TakenLines
<1>5. inbox[c] \in Seq(Tokens) /\ up[c] \in Seq(Tokens)
  BY <1>2 DEF TypeOK
<1>6. s \in Seq(Tokens)
  BY <1>5, ConcatProperties DEF In
<1> HIDE DEF s, l, w, r
<1>7. w \in Seq(Tokens) /\ w \o <<>> = w
  <2>1. w \in Seq(Tokens)
    BY <1>4, <1>6, EmptySeq DEF LineTaken
  <2> QED
    BY <2>1, ConcatEmptySeq
<1>8. l \in Seq(Requests)
  <2>1. CASE s = <<r, NL>>
    <3>1. r \in Requests
      BY <1>3, <1>4, <2>1 DEF LineTaken
    <3>2. <<r>> \in Seq(Requests)
      BY <3>1
    <3> QED
      BY <1>4, <2>1, <3>2 DEF LineTaken
  <2>2. CASE s # <<r, NL>>
    BY <1>4, <2>2, EmptySeq DEF LineTaken
  <2> QED
    BY <2>1, <2>2
<1>9. /\ conn' \in [Clients -> {"none", "queued", "open", "closed", "removed"}]
      /\ down' \in [Clients -> Seq(Tokens)]
      /\ \A d \in Clients \ {c} : conn'[d] = conn[d] /\ down'[d] = down[d]
      /\ client[c] # "gone" => down'[c] = down[c]
  <2>1. /\ conn \in [Clients -> {"none", "queued", "open", "closed", "removed"}]
        /\ down \in [Clients -> Seq(Tokens)] /\ <<>> \in Seq(Tokens)
    BY <1>2, EmptySeq DEF TypeOK
  <2>2. CASE UNCHANGED <<conn, down>>
    BY <2>1, <2>2
  <2>3. CASE client[c] = "gone" /\ down' = [down EXCEPT ![c] = <<>>] /\ UNCHANGED conn
    BY <2>1, <2>3
  <2>4. CASE client[c] = "gone" /\ conn' = [conn EXCEPT ![c] = "closed"] /\ UNCHANGED down
    BY <2>1, <2>4
  <2> QED
    BY <1>1, <2>2, <2>3, <2>4 DEF noticeEnd
<1>10. /\ inbox' \in [Clients -> Seq(Tokens)] /\ inbox'[c] = w
       /\ up' \in [Clients -> Seq(Tokens)] /\ up'[c] = <<>>
       /\ \A d \in Clients \ {c} : inbox'[d] = inbox[d] /\ up'[d] = up[d]
  BY <1>1, <1>2, <1>7, EmptySeq DEF TypeOK
<1>11. TypeOK'
  BY <1>1, <1>2, <1>8, <1>9, <1>10 DEF TypeOK
<1>12. In(c)' = w
  BY <1>7, <1>10 DEF In
<1>13. Mine(c)' = l /\ Mine(c) = <<>> /\ \A d \in Clients \ {c} : Mine(d)' = Mine(d)
  BY <1>1, <1>2 DEF Mine
<1>14. client[c] # "gone" => Out(c)' = Out(c)
  BY <1>1, <1>9 DEF Out
<1>15. request'[c] = r /\ client'[c] = client[c] /\ unsent'[c] = unsent[c] /\ shown'[c] = shown[c]
  BY <1>1 DEF r
<1>16. Exchange(c)'
  <2>1. ExchangeOK(client[c], r, s, unsent[c], <<>>, Out(c), shown[c])
    BY <1>2, <1>13 DEF Exchange, s, r
  <2>2. ExchangeOK(client[c], r, w, unsent[c], l, Out(c)', shown[c])
    <3>1. CASE s = <<r, NL>>
      <4>1. client[c] \in {"waiting", "gone"} /\ r \in Requests
        BY <1>2, <1>3, <1>4, <2>1, <3>1 DEF ExchangeOK, TypeOK, LineTaken
      <4> QED
        BY <1>4, <1>14, <2>1, <3>1, <4>1 DEF ExchangeOK, LineTaken
    <3>2. CASE s # <<r, NL>>
      <4>1. l = <<>> /\ w = s
        BY <1>4, <3>2 DEF LineTaken
      <4>2. CASE client[c] = "gone"
        BY <2>1, <4>1, <4>2 DEF ExchangeOK
      <4>3. CASE client[c] # "gone"
        BY <1>14, <2>1, <4>1, <4>3
      <4> QED
        BY <4>2, <4>3
    <3> QED
      BY <3>1, <3>2
  <2> QED
    BY <1>12, <1>13, <1>15, <2>2 DEF Exchange
<1>17. c # Nobody
  BY TokensAssumption
<1> QED
  BY <1>1, <1>2, <1>9, <1>10, <1>11, <1>13, <1>15, <1>16, <1>17, OneClient

\* The answer to r, or the front of it, written behind what is clean.
LEMMA AnswerWritten ==
    ASSUME NEW o \in Seq(Tokens), NEW d \in Seq(Tokens), o \o d \in Clean,
           NEW r \in Requests, NEW a \in Answers(r), NEW k \in 0 .. Len(a)
    PROVE  /\ d \o SubSeq(a, 1, k) \in Seq(Tokens)
           /\ Good(o \o (d \o SubSeq(a, 1, k)), r)
<1> DEFINE f == SubSeq(a, 1, k)
<1>1. a \in Seq(Tokens)
  <2>1. r \in Tokens /\ NL \in Tokens
    BY DEF Tokens
  <2>2. CASE a = <<r, NL, NL>>
    BY <2>1, <2>2
  <2>3. CASE a = <<r, NL, NL, NL>>
    BY <2>1, <2>3
  <2>4. CASE a = <<NL, NL>>
    BY <2>1, <2>4
  <2> QED
    BY <2>2, <2>3, <2>4 DEF Answers
<1>2. f \in Seq(Tokens)
  BY <1>1, FrontProperties
<1>3. Good((o \o d) \o f, r)
  BY Answered
<1> HIDE DEF f
<1>4. (o \o d) \o f = o \o (d \o f)
  BY <1>2, ConcatAssociative
<1>5. d \o f \in Seq(Tokens)
  BY <1>2, ConcatProperties
<1> QED
  BY <1>3, <1>4, <1>5 DEF f

LEMMA WholeAnswer ==
    ASSUME NEW r \in Requests, NEW a \in Answers(r)
    PROVE  Len(a) \in Nat /\ SubSeq(a, 1, Len(a)) = a
<1>1. r \in Tokens /\ NL \in Tokens
  BY DEF Tokens
<1>2. a \in Seq(Tokens)
  <2>1. CASE a = <<r, NL, NL>>
    BY <1>1, <2>1
  <2>2. CASE a = <<r, NL, NL, NL>>
    BY <1>1, <2>2
  <2>3. CASE a = <<NL, NL>>
    BY <1>1, <2>3
  <2> QED
    BY <2>1, <2>2, <2>3 DEF Answers
<1>3. Len(a) \in Nat
  BY <1>2, LenProperties
<1>4. /\ SubSeq(a, 1, Len(a)) \in Seq(Tokens) /\ Len(SubSeq(a, 1, Len(a))) = Len(a)
      /\ \A i \in 1 .. Len(a) : SubSeq(a, 1, Len(a))[i] = a[i]
  <2>1. Len(a) \in 0 .. Len(a)
    BY <1>3
  <2> QED
    BY <1>2, <2>1, FrontProperties
<1> QED
  BY <1>2, <1>3, <1>4, SeqEqual

LEMMA executeLineOK == ASSUME ClientInv, executeLine PROVE ClientInv'
<1> DEFINE c == serving
           r == request[c]
<1>1. /\ serving # Nobody /\ lines # <<>> /\ lines' = Tail(lines)
      /\ UNCHANGED <<inbox, serving, client, request, unsent, outbox, shown, up>>
  BY DEF executeLine, clientVars
<1>2. TypeOK /\ c \in Clients
  BY <1>1 DEF ClientInv, TypeOK
<1>3. Exchange(c) /\ (client[c] = "off" => conn[c] = "none") /\ Mine(c) = lines
  BY <1>2 DEF ClientInv, Mine
<1>4. /\ lines = <<r>> /\ r \in Requests /\ In(c) = <<>>
      /\ client[c] \in {"waiting", "gone"}
      /\ client[c] = "waiting" => Good(Out(c), r) /\ Out(c) \in Clean
  BY <1>1, <1>3 DEF Exchange, ExchangeOK
<1>5. Head(lines) = r /\ lines' = <<>>
  <2>1. Head(<<r>>) = r /\ Tail(<<r>>) = <<>>
    OBVIOUS
  <2> QED
    BY <1>1, <1>4, <2>1
<1>6. outbox[c] \in Seq(Tokens) /\ down[c] \in Seq(Tokens)
  BY <1>2 DEF TypeOK
<1>7. /\ daemon' \in {"up", "leaving", "left", "killed"}
      /\ conn' \in [Clients -> {"none", "queued", "open", "closed", "removed"}]
      /\ down' \in [Clients -> Seq(Tokens)]
      /\ \A d \in Clients \ {c} : conn'[d] = conn[d] /\ down'[d] = down[d]
      /\ client[c] = "waiting" => Good(outbox[c] \o down'[c], r)
  <2>1. /\ conn \in [Clients -> {"none", "queued", "open", "closed", "removed"}]
        /\ down \in [Clients -> Seq(Tokens)] /\ daemon \in {"up", "leaving", "left", "killed"}
    BY <1>2 DEF TypeOK
  <2>2. CASE UNCHANGED <<daemon, conn, down>>
    BY <1>4, <2>1, <2>2 DEF Out
  <2>3. CASE r.kind # "blank"
    <3>1. PICK a \in Answers(r) : send(c, a)
      BY <1>5, <2>3 DEF executeLine
    <3> HIDE DEF r
    <3>2. Len(a) \in Nat /\ SubSeq(a, 1, Len(a)) = a
      BY <1>4, WholeAnswer
    <3>3. CASE client[c] = "gone" /\ daemon' = "killed" /\ UNCHANGED <<conn, down>>
      BY <2>1, <3>3
    <3>4. ASSUME NEW k \in 0 .. Len(a), client[c] # "gone",
                 down' = [down EXCEPT ![c] = @ \o SubSeq(a, 1, k)]
          PROVE  /\ down' \in [Clients -> Seq(Tokens)]
                 /\ \A d \in Clients \ {c} : down'[d] = down[d]
                 /\ Good(outbox[c] \o down'[c], r)
      <4> DEFINE z == down[c] \o SubSeq(a, 1, k)
      <4>1. outbox[c] \o down[c] \in Clean
        BY <1>4, <3>4 DEF Out
      <4>2. z \in Seq(Tokens) /\ Good(outbox[c] \o z, r)
        BY <1>4, <1>6, <4>1, AnswerWritten
      <4>3. down' = [down EXCEPT ![c] = z]
        BY <3>4
      <4> HIDE DEF z
      <4> QED
        BY <1>2, <2>1, <4>2, <4>3
    <3>5. CASE /\ client[c] # "gone" /\ down' = [down EXCEPT ![c] = @ \o a]
               /\ UNCHANGED conn
               /\ daemon' = IF Head(lines).kind \in {"shutdown", "shutdown."}
                            THEN "leaving" ELSE daemon
      <4>1. Len(a) \in 0 .. Len(a)
        BY <3>2
      <4>2. down' = [down EXCEPT ![c] = @ \o SubSeq(a, 1, Len(a))]
        BY <3>2, <3>5
      <4> QED
        BY <2>1, <3>4, <3>5, <4>1, <4>2
    <3>6. CASE /\ client[c] # "gone"
               /\ \E k \in 0 .. Len(a) - 1 : down' = [down EXCEPT ![c] = @ \o SubSeq(a, 1, k)]
               /\ conn' = [conn EXCEPT ![c] = "closed"] /\ UNCHANGED daemon
      <4>1. PICK k \in 0 .. Len(a) - 1 : down' = [down EXCEPT ![c] = @ \o SubSeq(a, 1, k)]
        BY <3>6
      <4>2. k \in 0 .. Len(a)
        BY <3>2
      <4>3. /\ conn' \in [Clients -> {"none", "queued", "open", "closed", "removed"}]
            /\ \A d \in Clients \ {c} : conn'[d] = conn[d]
        BY <2>1, <3>6
      <4> QED
        BY <2>1, <3>4, <3>6, <4>1, <4>2, <4>3
    <3> QED
      BY <3>1, <3>3, <3>5, <3>6 DEF send
  <2> QED
    BY <1>5, <2>2, <2>3 DEF executeLine
<1>8. TypeOK'
  BY <1>1, <1>2, <1>5, <1>7, EmptySeq DEF TypeOK
<1>9. /\ In(c)' = In(c) /\ Out(c)' = outbox[c] \o down'[c] /\ Mine(c)' = <<>>
      /\ \A d \in Clients \ {c} : Mine(d)' = Mine(d)
  BY <1>1, <1>5 DEF In, Out, Mine
<1>10. Exchange(c)'
  <2>1. ExchangeOK(client[c], r, <<>>, unsent[c], <<>>, outbox[c] \o down'[c], shown[c])
    <3>1. client[c] = "waiting" => Good(outbox[c] \o down'[c], r)
      BY <1>7
    <3> QED
      BY <1>4, <3>1 DEF ExchangeOK
  <2> QED
    BY <1>1, <1>4, <1>9, <2>1 DEF Exchange
<1>11. client'[c] # "off"
  BY <1>1, <1>4
<1> QED
  BY <1>1, <1>2, <1>5, <1>7, <1>8, <1>9, <1>10, <1>11, OneClient

LEMMA NextClient == ClientInv /\ [Next]_vars => ClientInv'
<1> SUFFICES ASSUME ClientInv, [Next]_vars PROVE ClientInv'
  OBVIOUS
<1>1. ASSUME NEW c \in Clients, handleNewConnection(c) PROVE ClientInv'
  BY <1>1, AsideSteps
<1>2. ASSUME NEW c \in Clients, handleClientMessage(c) PROVE ClientInv'
  BY <1>2, handleClientMessageOK
<1>3. CASE executeLine
  BY <1>3, executeLineOK
<1>4. CASE messageDone \/ removeClosedConnections \/ exitDaemon
  BY <1>4, AsideSteps
<1>5. ASSUME NEW c \in Clients, Connect(c) PROVE ClientInv'
  BY <1>5, ConnectOK
<1>6. ASSUME NEW c \in Clients, Type(c) PROVE ClientInv'
  BY <1>6, TypeStepOK
<1>7. ASSUME NEW c \in Clients, sendCommand(c) PROVE ClientInv'
  BY <1>7, sendCommandOK
<1>8. ASSUME NEW c \in Clients, readResponse(c) PROVE ClientInv'
  BY <1>8, readResponseOK
<1>9. ASSUME NEW c \in Clients, readHangup(c) PROVE ClientInv'
  BY <1>9, readHangupOK
<1>10. ASSUME NEW c \in Clients, Leave(c) PROVE ClientInv'
  BY <1>10, LeaveOK
<1>11. CASE Stopped \/ UNCHANGED vars
  BY <1>11, AsideSteps DEF Stopped
<1> QED
  BY <1>1, <1>2, <1>3, <1>4, <1>5, <1>6, <1>7, <1>8, <1>9, <1>10, <1>11
     DEF Next, DaemonStep, ClientStep

LEMMA ClientInvariance == Spec => []ClientInv
<1> QED
  BY InitClient, NextClient, PTL DEF Spec

-----------------------------------------------------------------------------

(* What the two buffers and the two directions of the socket hold is made of  *)
(* the newline and the texts of requests; only lines that a client typed are  *)
(* executed, and only their answers are shown.                                *)
THEOREM ConnectionType == Spec => []TypeOK
<1>1. ClientInv => TypeOK
  BY DEF ClientInv
<1> QED
  BY <1>1, ClientInvariance, PTL

(* However the stream is cut, and however many requests went before, a client *)
(* at its prompt has at most one newline left over from the last answer, so   *)
(* readResponse never takes the end of one answer for the end of the next.    *)
THEOREM NothingLeftOver == Spec => []PromptIsClean
<1>1. ASSUME ClientInv, NEW c \in Clients, client[c] = "prompt" PROVE Out(c) \in Clean
  BY <1>1 DEF ClientInv, Exchange, ExchangeOK
<1>2. ClientInv => PromptIsClean
  BY <1>1 DEF PromptIsClean, Out, Clean
<1> QED
  BY <1>2, ClientInvariance, PTL

(* What the client shows when it is back at its prompt is the answer to the   *)
(* line it typed last, whole, and nothing of another one; a status of no      *)
(* program is the only answer without text.                                   *)
THEOREM AnswersMatch == Spec => []ShowsOwnAnswer
<1>1. ASSUME ClientInv, NEW c \in Clients, client[c] = "prompt", request[c].n > 0
      PROVE  Own(shown[c], request[c])
  BY <1>1 DEF ClientInv, Exchange, ExchangeOK
<1>2. ClientInv => ShowsOwnAnswer
  BY <1>1 DEF ShowsOwnAnswer, Own
<1> QED
  BY <1>2, ClientInvariance, PTL
=============================================================================
