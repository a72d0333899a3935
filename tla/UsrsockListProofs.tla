------------------------- MODULE UsrsockListProofs -------------------------
(***************************************************************************)
(* Theorems about the lists of the usrsock sockets: the two lists every    *)
(* connection structure is in one of, the callback list of each            *)
(* connection, and what an abort means for a connection.                   *)
(*                                                                         *)
(* The properties rest on who may work on a connection: socket() and       *)
(* close() have theirs to themselves, and a connection without references  *)
(* is one that socket() is still making (OwnInv). Every step of a thread   *)
(* is a CallStep on one connection, every step of the daemon leaves lists, *)
(* references and calls undisturbed (Undisturbed).                         *)
(***************************************************************************)
EXTENDS UsrsockProofs

-----------------------------------------------------------------------------
(* Lists without repetitions                                               *)

Distinct(s) == \A i, j \in 1 .. Len(s) : s[i] = s[j] => i = j

(* Contains is membership in the range of a list.                          *)
LEMMA ContainsRange ==
  ASSUME NEW S, NEW s \in Seq(S), NEW e
  PROVE  Contains(s, e) <=> e \in Range(s)
BY LenProperties DEF Contains, Range

(* The empty list.                                                         *)
LEMMA EmptyList == Distinct(<< >>) /\ Range(<< >>) = {}
<1>1. Len(<< >>) = 0 /\ DOMAIN << >> = {}
  OBVIOUS
<1> QED
  BY <1>1 DEF Distinct, Range

(* sq_addlast of an element that is not in the list.                       *)
LEMMA AppendList ==
  ASSUME NEW S, NEW s \in Seq(S), NEW e \in S
  PROVE  /\ Range(Append(s, e)) = Range(s) \cup {e}
         /\ Distinct(s) /\ e \notin Range(s) => Distinct(Append(s, e))
<1> DEFINE a == Append(s, e)
           n == Len(s)
<1>1. /\ n \in Nat /\ DOMAIN s = 1 .. n /\ a \in Seq(S) /\ Len(a) = n + 1
      /\ DOMAIN a = 1 .. (n + 1) /\ \A i \in 1 .. n : a[i] = s[i]
      /\ a[n + 1] = e
  BY AppendProperties, LenProperties
<1> HIDE DEF a, n
<1>2. Range(a) = Range(s) \cup {e}
  <2>1. ASSUME NEW x \in Range(a) PROVE x \in Range(s) \cup {e}
    BY <1>1 DEF Range
  <2>2. ASSUME NEW x \in Range(s) PROVE x \in Range(a)
    BY <1>1 DEF Range
  <2>3. e \in Range(a)
    BY <1>1 DEF Range
  <2> QED
    BY <2>1, <2>2, <2>3
<1>3. ASSUME Distinct(s), e \notin Range(s) PROVE Distinct(a)
  <2>1. \A i \in 1 .. n : s[i] # e
    BY <1>1, <1>3 DEF Range
  <2> QED
    BY <1>1, <1>3, <2>1 DEF Distinct, n
<1> QED
  BY <1>2, <1>3 DEF a

(* A callback is put at the head of its list.                              *)
LEMMA PrependList ==
  ASSUME NEW S, NEW s \in Seq(S), NEW e \in S
  PROVE  /\ Range(<<e>> \o s) = Range(s) \cup {e}
         /\ Distinct(s) /\ e \notin Range(s) => Distinct(<<e>> \o s)
<1> DEFINE a == <<e>> \o s
           n == Len(s)
<1>1. /\ n \in Nat /\ DOMAIN s = 1 .. n /\ a \in Seq(S) /\ Len(a) = n + 1
      /\ DOMAIN a = 1 .. (n + 1) /\ \A i \in 2 .. (n + 1) : a[i] = s[i - 1]
      /\ a[1] = e
  <2>1. <<e>> \in Seq(S) /\ Len(<<e>>) = 1 /\ <<e>>[1] = e
    OBVIOUS
  <2>2. n \in Nat /\ DOMAIN s = 1 .. n
    BY LenProperties
  <2>3. /\ a \in Seq(S) /\ Len(a) = 1 + n
        /\ \A i \in 1 .. (1 + n) : a[i] = IF i <= 1 THEN <<e>>[i] ELSE s[i - 1]
    BY <2>1, ConcatProperties
  <2>4. DOMAIN a = 1 .. Len(a)
    BY <2>3, LenProperties
  <2> HIDE DEF a, n
  <2> QED
    BY <2>1, <2>2, <2>3, <2>4
<1> HIDE DEF a, n
<1>2. Range(a) = Range(s) \cup {e}
  <2>1. ASSUME NEW x \in Range(a) PROVE x \in Range(s) \cup {e}
    <3>1. PICK i \in 1 .. (n + 1) : x = a[i]
      BY <1>1 DEF Range
    <3>2. CASE i = 1
      BY <1>1, <3>1, <3>2
    <3>3. CASE i # 1
      <4>1. i - 1 \in 1 .. n /\ x = s[i - 1]
        BY <1>1, <3>1, <3>3
      <4> QED
        BY <1>1, <4>1 DEF Range
    <3> QED
      BY <3>2, <3>3
  <2>2. ASSUME NEW x \in Range(s) PROVE x \in Range(a)
    <3>1. PICK i \in 1 .. n : x = s[i]
      BY <1>1 DEF Range
    <3>2. i + 1 \in 1 .. (n + 1) /\ a[i + 1] = x
      <4>1. i + 1 \in 2 .. (n + 1) /\ (i + 1) - 1 = i
        BY <1>1
      <4> QED
        BY <1>1, <3>1, <4>1
    <3> QED
      BY <1>1, <3>2 DEF Range
  <2>3. e \in Range(a)
    BY <1>1 DEF Range
  <2> QED
    BY <2>1, <2>2, <2>3
<1>3. ASSUME Distinct(s), e \notin Range(s) PROVE Distinct(a)
  <2>1. \A i \in 1 .. n : s[i] # e
    BY <1>1, <1>3 DEF Range
  <2>2. ASSUME NEW i \in 1 .. (n + 1), NEW j \in 1 .. (n + 1), a[i] = a[j], i < j
        PROVE  FALSE
    <3>1. j \in 2 .. (n + 1) /\ j - 1 \in 1 .. n
      BY <1>1, <2>2
    <3>2. CASE i = 1
      BY <1>1, <2>1, <2>2, <3>1, <3>2
    <3>3. CASE i # 1
      <4>1. i \in 2 .. (n + 1) /\ i - 1 \in 1 .. n
        BY <1>1, <3>3
      <4>2. s[i - 1] = s[j - 1]
        BY <1>1, <2>2, <3>1, <4>1
      <4>3. i - 1 = j - 1
        BY <1>3, <3>1, <4>1, <4>2 DEF Distinct, n
      <4> QED
        BY <2>2, <4>3
    <3> QED
      BY <3>2, <3>3
  <2>3. ASSUME NEW i \in 1 .. Len(a), NEW j \in 1 .. Len(a), a[i] = a[j]
        PROVE  i = j
    <3>1. i \in 1 .. (n + 1) /\ j \in 1 .. (n + 1)
      BY <1>1
    <3>2. ~(i < j) /\ ~(j < i)
      BY <2>2, <2>3, <3>1
    <3> QED
      BY <1>1, <3>1, <3>2
  <2> QED
    BY <2>3 DEF Distinct
<1> QED
  BY <1>2, <1>3 DEF a

(* sq_remfirst.                                                            *)
LEMMA TailList ==
  ASSUME NEW S, NEW s \in Seq(S), s # << >>, Distinct(s)
  PROVE  /\ Head(s) \in Range(s)
         /\ Range(Tail(s)) = Range(s) \ {Head(s)}
         /\ Distinct(Tail(s))
<1> DEFINE a == Tail(s)
           n == Len(s)
<1>1. /\ n \in Nat \ {0} /\ DOMAIN s = 1 .. n /\ a \in Seq(S) /\ Len(a) = n - 1
      /\ DOMAIN a = 1 .. (n - 1) /\ \A i \in 1 .. (n - 1) : a[i] = s[i + 1]
      /\ Head(s) = s[1]
  <2>1. n \in Nat \ {0} /\ DOMAIN s = 1 .. n
    BY LenProperties, EmptySeq
  <2>2. /\ a \in Seq(S) /\ Len(a) = n - 1
        /\ \A i \in 1 .. Len(a) : a[i] = s[i + 1]
    BY HeadTailProperties
  <2>3. DOMAIN a = 1 .. Len(a)
    BY <2>2, LenProperties
  <2>4. Head(s) = s[1]
    OBVIOUS
  <2> HIDE DEF a, n
  <2> QED
    BY <2>1, <2>2, <2>3, <2>4
<1>2. \A i, j \in 1 .. n : s[i] = s[j] => i = j
  BY DEF Distinct
<1> HIDE DEF a, n
<1>3. Head(s) \in Range(s)
  BY <1>1 DEF Range
<1>4. ASSUME NEW x \in Range(a) PROVE x \in Range(s) \ {Head(s)}
  <2>1. PICK i \in 1 .. (n - 1) : x = s[i + 1]
    BY <1>1 DEF Range
  <2>2. i + 1 \in 1 .. n /\ 1 \in 1 .. n /\ i + 1 # 1
    BY <1>1
  <2>3. x # s[1]
    BY <1>2, <2>1, <2>2
  <2> QED
    BY <1>1, <2>1, <2>2, <2>3 DEF Range
<1>5. ASSUME NEW x \in Range(s), x # Head(s) PROVE x \in Range(a)
  <2>1. PICK i \in 1 .. n : x = s[i]
    BY <1>1 DEF Range
  <2>2. i # 1
    BY <1>1, <1>5, <2>1
  <2>3. i - 1 \in 1 .. (n - 1) /\ (i - 1) + 1 = i
    BY <1>1, <2>2
  <2>4. a[i - 1] = x
    BY <1>1, <2>1, <2>3
  <2> QED
    BY <1>1, <2>3, <2>4 DEF Range
<1>6. ASSUME NEW i \in 1 .. Len(a), NEW j \in 1 .. Len(a), a[i] = a[j]
      PROVE  i = j
  <2>1. /\ i \in 1 .. (n - 1) /\ j \in 1 .. (n - 1)
        /\ i + 1 \in 1 .. n /\ j + 1 \in 1 .. n
    BY <1>1
  <2>2. s[i + 1] = s[j + 1]
    BY <1>1, <1>6, <2>1
  <2>3. i + 1 = j + 1
    BY <1>2, <2>1, <2>2
  <2> QED
    BY <2>1, <2>3
<1> QED
  BY <1>3, <1>4, <1>5, <1>6 DEF Distinct, a

(* sq_rem, and the removal of a callback from its list.                    *)
LEMMA RemoveList ==
  ASSUME NEW S, NEW s \in Seq(S), NEW e, Distinct(s)
  PROVE  /\ Range(RemoveFirst(s, e)) = Range(s) \ {e}
         /\ Distinct(RemoveFirst(s, e))
         /\ \A i, j \in 1 .. Len(RemoveFirst(s, e)) :
              i < j => \E g, h \in 1 .. Len(s) :
                         /\ g < h
                         /\ s[g] = RemoveFirst(s, e)[i]
                         /\ s[h] = RemoveFirst(s, e)[j]
<1> DEFINE n == Len(s)
<1>0. n \in Nat /\ DOMAIN s = 1 .. n /\ \A i, j \in 1 .. n : s[i] = s[j] => i = j
  BY LenProperties DEF Distinct
<1>1. CASE ~ \E i \in 1 .. n : s[i] = e
  <2>1. RemoveFirst(s, e) = s
    BY <1>1 DEF RemoveFirst
  <2> QED
    BY <1>0, <1>1, <2>1 DEF Range
<1>2. CASE \E i \in 1 .. n : s[i] = e
  <2> DEFINE I == {i \in 1 .. n : s[i] = e}
             k == Min(I)
             l == SubSeq(s, 1, k - 1)
             r == SubSeq(s, k + 1, n)
             a == l \o r
  <2>1. I \in SUBSET Nat /\ I # {}
    BY <1>0, <1>2
  <2>2. k \in 1 .. n /\ s[k] = e
    BY <2>1, MinInSet
  <2>3. RemoveFirst(s, e) = a
    BY <1>2, <2>1 DEF RemoveFirst, RemoveAt, SelectInSeq
  <2> HIDE DEF k, I
  <2>4. /\ l \in Seq(S) /\ Len(l) = k - 1 /\ \A i \in 1 .. (k - 1) : l[i] = s[i]
        /\ r \in Seq(S) /\ Len(r) = n - k /\ \A i \in 1 .. (n - k) : r[i] = s[k + i]
    <3>1. \A i \in 1 .. n : s[i] \in S
      BY ElementOfSeq
    <3>2. /\ l \in Seq(S)
          /\ Len(l) = IF 1 <= k - 1 THEN (k - 1) - 1 + 1 ELSE 0
          /\ \A i \in 1 .. (k - 1) - 1 + 1 : l[i] = s[1 + i - 1]
      <4>1. 1 \in Int /\ k - 1 \in Int /\ \A i \in 1 .. (k - 1) : s[i] \in S
        BY <1>0, <2>2, <3>1
      <4> HIDE DEF n
      <4> QED
        BY <4>1, SubSeqProperties
    <3>3. /\ r \in Seq(S)
          /\ Len(r) = IF k + 1 <= n THEN n - (k + 1) + 1 ELSE 0
          /\ \A i \in 1 .. n - (k + 1) + 1 : r[i] = s[(k + 1) + i - 1]
      <4>1. k + 1 \in Int /\ n \in Int /\ \A i \in (k + 1) .. n : s[i] \in S
        BY <1>0, <2>2, <3>1
      <4> HIDE DEF n
      <4> QED
        BY <4>1, SubSeqProperties
    <3> HIDE DEF l, r, n
    <3> QED
      BY <1>0, <2>2, <3>2, <3>3
  <2> HIDE DEF l, r
  <2>5. /\ a \in Seq(S) /\ Len(a) = n - 1
        /\ \A i \in 1 .. (n - 1) : a[i] = IF i < k THEN s[i] ELSE s[i + 1]
    <3>1. /\ a \in Seq(S) /\ Len(a) = Len(l) + Len(r)
          /\ \A i \in 1 .. Len(l) + Len(r) : a[i] = IF i <= Len(l) THEN l[i] ELSE r[i - Len(l)]
      BY <2>4, ConcatProperties
    <3> HIDE DEF a, n
    <3>2. Len(l) + Len(r) = n - 1
      BY <1>0, <2>2, <2>4
    <3>3. ASSUME NEW i \in 1 .. (n - 1)
          PROVE  a[i] = IF i < k THEN s[i] ELSE s[i + 1]
      <4>1. CASE i < k
        BY <1>0, <2>2, <2>4, <3>1, <3>2, <4>1
      <4>2. CASE ~(i < k)
        <5>1. i - (k - 1) \in 1 .. (n - k) /\ k + (i - (k - 1)) = i + 1
          BY <1>0, <2>2, <4>2
        <5>2. a[i] = r[i - (k - 1)]
          BY <1>0, <2>2, <2>4, <3>1, <3>2, <4>2
        <5>3. r[i - (k - 1)] = s[k + (i - (k - 1))]
          BY <2>4, <5>1
        <5> QED
          BY <4>2, <5>1, <5>2, <5>3
      <4> QED
        BY <4>1, <4>2
    <3> QED
      BY <3>1, <3>2, <3>3
  <2>6. DOMAIN a = 1 .. (n - 1)
    BY <2>5, LenProperties
  <2> HIDE DEF a, n
  <2>7. ASSUME NEW x \in Range(a) PROVE x \in Range(s) \ {e}
    <3>1. PICK i \in 1 .. (n - 1) : x = a[i]
      BY <2>6 DEF Range
    <3>2. \E j \in 1 .. n : j # k /\ x = s[j]
      <4> DEFINE j == IF i < k THEN i ELSE i + 1
      <4>1. j \in 1 .. n /\ j # k
        BY <1>0, <2>2
      <4>2. x = s[j]
        BY <2>5, <3>1
      <4> HIDE DEF j
      <4> QED
        BY <4>1, <4>2
    <3> QED
      BY <1>0, <2>2, <3>2 DEF Range
  <2>8. ASSUME NEW x \in Range(s), x # e PROVE x \in Range(a)
    <3>1. PICK j \in 1 .. n : x = s[j]
      BY <1>0 DEF Range
    <3>2. j # k
      BY <2>2, <2>8, <3>1
    <3>3. CASE j < k
      <4>1. j \in 1 .. (n - 1) /\ a[j] = x
        BY <1>0, <2>2, <2>5, <3>1, <3>3
      <4> QED
        BY <2>6, <4>1 DEF Range
    <3>4. CASE k < j
      <4>1. j - 1 \in 1 .. (n - 1) /\ ~(j - 1 < k) /\ (j - 1) + 1 = j
        BY <1>0, <2>2, <3>4
      <4>2. a[j - 1] = x
        BY <2>5, <3>1, <4>1
      <4> QED
        BY <2>6, <4>1, <4>2 DEF Range
    <3> QED
      BY <1>0, <2>2, <3>2, <3>3, <3>4
  <2>9. Distinct(a)
    <3>1. ASSUME NEW i \in 1 .. (n - 1), NEW j \in 1 .. (n - 1), a[i] = a[j]
          PROVE  i = j
      <4> DEFINE p == IF i < k THEN i ELSE i + 1
                 q == IF j < k THEN j ELSE j + 1
      <4>1. p \in 1 .. n /\ q \in 1 .. n
        BY <1>0, <2>2
      <4>2. s[p] = a[i] /\ s[q] = a[j]
        BY <2>5
      <4>3. p = q
        <5> HIDE DEF p, q
        <5> QED
          BY <1>0, <3>1, <4>1, <4>2
      <4> QED
        BY <1>0, <2>2, <4>3
    <3> QED
      BY <2>5, <3>1 DEF Distinct
  <2>10. ASSUME NEW i \in 1 .. (n - 1), NEW j \in 1 .. (n - 1), i < j
         PROVE  \E g, h \in 1 .. n : g < h /\ s[g] = a[i] /\ s[h] = a[j]
    <3> DEFINE g == IF i < k THEN i ELSE i + 1
               h == IF j < k THEN j ELSE j + 1
    <3>1. g \in 1 .. n /\ h \in 1 .. n /\ g < h
      BY <1>0, <2>2, <2>10
    <3>2. s[g] = a[i] /\ s[h] = a[j]
      BY <2>5
    <3> HIDE DEF g, h
    <3> QED
      BY <3>1, <3>2
  <2>11. Len(a) = n - 1
    BY <2>5
  <2> QED
    BY <2>3, <2>7, <2>8, <2>9, <2>10, <2>11 DEF n
<1> QED
  BY <1>1, <1>2 DEF n

(* Two lists without repetitions that share nothing, one after the other.  *)
LEMMA ConcatList ==
  ASSUME NEW S, NEW s \in Seq(S), NEW r \in Seq(S)
  PROVE  /\ Range(s \o r) = Range(s) \cup Range(r)
         /\ IsInjective(s \o r) <=> /\ Distinct(s) /\ Distinct(r)
                                    /\ Range(s) \cap Range(r) = {}
<1> DEFINE a == s \o r
           n == Len(s)
           m == Len(r)
<1>1. /\ n \in Nat /\ DOMAIN s = 1 .. n /\ m \in Nat /\ DOMAIN r = 1 .. m
      /\ a \in Seq(S) /\ Len(a) = n + m
      /\ \A i \in 1 .. (n + m) : a[i] = IF i <= n THEN s[i] ELSE r[i - n]
  BY LenProperties, ConcatProperties
<1>2. DOMAIN a = 1 .. (n + m)
  BY <1>1, LenProperties
<1> HIDE DEF a
<1>3. \A i \in 1 .. n : i \in DOMAIN a /\ a[i] = s[i]
  <2> HIDE DEF n, m
  <2> QED
    BY <1>1, <1>2
<1>4. \A i \in 1 .. m : n + i \in DOMAIN a /\ a[n + i] = r[i]
  <2> HIDE DEF n, m
  <2>1. ASSUME NEW i \in 1 .. m
        PROVE  n + i \in 1 .. (n + m) /\ ~(n + i <= n) /\ (n + i) - n = i
    BY <1>1
  <2> QED
    BY <1>1, <1>2, <2>1
<1>5. \A i \in DOMAIN a : \/ i \in 1 .. n /\ a[i] = s[i]
                          \/ i - n \in 1 .. m /\ a[i] = r[i - n] /\ i = n + (i - n)
  <2> HIDE DEF n, m
  <2> QED
    BY <1>1, <1>2
<1>6. Range(a) = Range(s) \cup Range(r)
  <2> HIDE DEF n, m
  <2>1. ASSUME NEW x \in Range(a) PROVE x \in Range(s) \cup Range(r)
    <3>1. PICK i \in DOMAIN a : x = a[i]
      BY DEF Range
    <3> QED
      BY <1>1, <1>5, <3>1 DEF Range
  <2>2. ASSUME NEW x \in Range(s) PROVE x \in Range(a)
    BY <1>1, <1>3 DEF Range
  <2>3. ASSUME NEW x \in Range(r) PROVE x \in Range(a)
    <3>1. PICK i \in 1 .. m : x = r[i]
      BY <1>1 DEF Range
    <3>2. n + i \in DOMAIN a /\ a[n + i] = x
      BY <1>4, <3>1
    <3> QED
      BY <3>2 DEF Range
  <2> QED
    BY <2>1, <2>2, <2>3
<1>7. ASSUME IsInjective(a) PROVE Distinct(s) /\ Distinct(r) /\ Range(s) \cap Range(r) = {}
  <2>1. \A i, j \in DOMAIN a : a[i] = a[j] => i = j
    BY <1>7 DEF IsInjective
  <2>2. \A i, j \in 1 .. n : s[i] = s[j] => i = j
    BY <1>3, <2>1
  <2>3. ASSUME NEW i \in 1 .. m, NEW j \in 1 .. m, r[i] = r[j] PROVE i = j
    <3>1. n + i = n + j
      BY <1>4, <2>1, <2>3
    <3> HIDE DEF n, m
    <3> QED
      BY <1>1, <3>1
  <2>4. ASSUME NEW i \in 1 .. n, NEW j \in 1 .. m, s[i] = r[j] PROVE FALSE
    <3>1. i = n + j
      BY <1>3, <1>4, <2>1, <2>4
    <3> HIDE DEF n, m
    <3> QED
      BY <1>1, <3>1
  <2>5. Distinct(s) /\ Distinct(r)
    BY <2>2, <2>3 DEF Distinct
  <2>6. Range(s) \cap Range(r) = {}
    <3> HIDE DEF n, m
    <3> QED
      BY <1>1, <2>4 DEF Range
  <2> QED
    BY <2>5, <2>6
<1>8. ASSUME Distinct(s), Distinct(r), Range(s) \cap Range(r) = {} PROVE IsInjective(a)
  <2>1. /\ \A i, j \in 1 .. n : s[i] = s[j] => i = j
        /\ \A i, j \in 1 .. m : r[i] = r[j] => i = j
    BY <1>8 DEF Distinct
  <2> HIDE DEF n, m
  <2>2. \A i \in 1 .. n, j \in 1 .. m : s[i] # r[j]
    BY <1>1, <1>8 DEF Range
  <2>3. ASSUME NEW i \in DOMAIN a, NEW j \in DOMAIN a, a[i] = a[j] PROVE i = j
    BY <1>5, <2>1, <2>2, <2>3
  <2> QED
    BY <2>3 DEF IsInjective
<1> QED
  BY <1>6, <1>7, <1>8 DEF a

-----------------------------------------------------------------------------
(* Who works on a connection                                               *)

(* The places where a call has a callback in the list of its connection.   *)
WaitPlaces == {"reqwait", "linegot", "ackwait", "respwait", "rdywait", "pollwait"}

(* A thread between two calls has no connection; socket() works on a       *)
(* connection nobody has a reference to, every other call on one that has  *)
(* some; and who makes or closes a socket works on it alone.               *)
OwnInv ==
  /\ \A t \in Threads : thr[t].pc = "idle" => thr[t].conn = NoConn
  /\ \A t \in Threads : thr[t].pc = "alloced" => thr[t].op = "socket"
  /\ \A t \in Threads : thr[t].pc = "freeing" => thr[t].op = "close"
  /\ \A t \in Threads : thr[t].conn # NoConn =>
       (thr[t].op = "socket" <=> conn[thr[t].conn].crefs = 0)
  /\ \A t, u \in Threads :
       /\ thr[t].conn # NoConn /\ thr[t].conn = thr[u].conn
       /\ thr[t].op \in {"socket", "close"}
       => t = u

(* The connection lists, as sets.                                          *)
ListInv ==
  /\ Distinct(active) /\ Distinct(free)
  /\ Range(active) \cap Range(free) = {}
  /\ Range(active) \cup Range(free) = Conns
  /\ \A t \in Threads : thr[t].conn # NoConn => thr[t].conn \in Range(active)
  /\ \A c \in Conns : conn[c].crefs > 0 => c \in Range(active)

(* The callback lists, as sets.                                            *)
CallbackInv ==
  \A c \in Conns :
    /\ Distinct(conn[c].list)
    /\ \A t \in Threads :
         t \in Range(conn[c].list) <=> thr[t].conn = c /\ thr[t].pc \in WaitPlaces

ConnInv == Inv /\ OwnInv /\ ListInv /\ CallbackInv

-----------------------------------------------------------------------------
(* The steps of a call                                                     *)

(* What an API call may do to the state of a connection.                   *)
StateKept(old, new) ==
  \/ new = old
  \/ new = "UNINITIALIZED"
  \/ old = "READY" /\ new = "CONNECTING"

(* cm is what a step of thread t on connection c makes of the connections: *)
(* only c changes, and in its callback list only thread t comes or goes.   *)
LeftList(t, c, cm, waits) ==
  /\ cm \in ConnFun
  /\ \A d \in Conns \ {c} : cm[d] = conn[d]
  /\ Distinct(cm[c].list)
  /\ Range(cm[c].list) = (Range(conn[c].list) \ {t}) \cup (IF waits THEN {t} ELSE {})
  /\ StateKept(conn[c].state, cm[c].state)

Left(t, c, cm, waits) ==
  /\ LeftList(t, c, cm, waits)
  /\ cm[c].crefs = conn[c].crefs

(* Thread t may be in call op on connection c: it was already, or it may   *)
(* begin it now.                                                           *)
MayBeIn(t, c, op) ==
  \/ thr[t].conn = c /\ op = thr[t].op
  \/ /\ thr[t].conn = NoConn /\ op # "socket"
     /\ conn[c].crefs > 0
     /\ \A u \in Threads : thr[u].conn = c => thr[u].op # "close"
     /\ op = "close" => \A u \in Threads \ {t} : thr[u].conn # c

SameCall(s, r) ==
  /\ r.op = s.op /\ r.conn = s.conn
  /\ r.pc = s.pc \/ {r.pc, s.pc} \subseteq WaitPlaces

(* Thread t goes on, or starts, or returns from a call on connection c;    *)
(* the other threads stay in the calls they are in.                        *)
Moves(t, c) ==
  /\ thr[t].conn \in {NoConn, c}
  /\ \A u \in Threads \ {t} : SameCall(thr[u], thr'[u])
  /\ thr'[t].conn = IF thr'[t].pc = "idle" THEN NoConn ELSE c
  /\ thr'[t].pc = "alloced" => thr'[t].op = "socket"
  /\ thr'[t].pc = "freeing" => thr'[t].op = "close"

GoesOn(t, c) ==
  /\ LeftList(t, c, conn', thr'[t].pc \in WaitPlaces)
  /\ conn'[c].crefs > 0 <=> conn[c].crefs > 0
  /\ thr'[t].pc # "idle" => MayBeIn(t, c, thr'[t].op)
  /\ UNCHANGED lists

Makes(t, c) ==
  /\ LeftList(t, c, conn', FALSE)
  /\ conn'[c].crefs > 0
  /\ thr[t].conn = c /\ thr[t].op = "socket"
  /\ thr'[t].pc = "idle"
  /\ UNCHANGED lists

Allocates(t, c) ==
  /\ thr[t].conn = NoConn
  /\ free # << >>
  /\ usrsock_alloc(t, c)
  /\ thr'[t].pc = "alloced" /\ thr'[t].op = "socket"

Frees(t, c) ==
  /\ thr[t].conn = c /\ thr[t].op \in {"socket", "close"}
  /\ active' = RemoveFirst(active, c) /\ free' = Append(free, c)
  /\ \A d \in Conns \ {c} : conn'[d] = conn[d]
  /\ conn'[c] = ClearedConn
  /\ thr'[t].pc = "idle"

CallStep(t) ==
  \E c \in Conns :
    /\ Moves(t, c)
    /\ GoesOn(t, c) \/ Makes(t, c) \/ Allocates(t, c) \/ Frees(t, c)

(* ConnInv gives the facts about one connection and one thread that the    *)
(* steps below use.                                                        *)
LEMMA ConnFacts ==
  ASSUME ConnInv
  PROVE  /\ conn \in ConnFun /\ thr \in [Threads -> ThreadRecords]
         /\ active \in Seq(Conns) /\ free \in Seq(Conns)
         /\ \A c \in Conns : /\ conn[c] \in ConnRecords /\ conn[c].crefs \in Nat
                             /\ conn[c].list \in Seq(Threads)
         /\ \A t \in Threads : thr[t].conn \in {NoConn} \cup Conns
         /\ \A t \in Threads : thr[t].conn = NoConn <=> thr[t].pc = "idle"
<1>1. /\ conn \in ConnFun /\ thr \in [Threads -> ThreadRecords]
      /\ active \in Seq(Conns) /\ free \in Seq(Conns)
  BY DEF ConnInv, Inv, TypeOK, ConnFun
<1>2. ASSUME NEW c \in Conns
      PROVE  conn[c] \in ConnRecords /\ conn[c].crefs \in Nat /\ conn[c].list \in Seq(Threads)
  BY <1>1 DEF ConnFun, ConnRecords
<1>3. ASSUME NEW t \in Threads
      PROVE  thr[t].conn \in {NoConn} \cup Conns /\ (thr[t].conn = NoConn <=> thr[t].pc = "idle")
  <2>1. thr[t].conn \in {NoConn} \cup Conns
    BY <1>1 DEF ThreadRecords
  <2> QED
    BY <2>1 DEF ConnInv, OwnInv, Inv, PlaceInv
<1> QED
  BY <1>1, <1>2, <1>3

(* Going on with a call, or returning from it, keeps the lists.            *)
LEMMA GoesOnKeeps ==
  ASSUME ConnInv, Inv', NEW t \in Threads, NEW c \in Conns, Moves(t, c),
         GoesOn(t, c) \/ Makes(t, c)
  PROVE  OwnInv' /\ ListInv' /\ CallbackInv'
<1>1. /\ LeftList(t, c, conn', thr'[t].pc \in WaitPlaces)
      /\ UNCHANGED <<active, free>>
      /\ conn[c].crefs > 0 => conn'[c].crefs > 0
      /\ conn'[c].crefs > 0 => conn[c].crefs > 0 \/ thr[t].conn = c
  <2>1. CASE GoesOn(t, c)
    BY <2>1 DEF GoesOn, lists
  <2>2. CASE Makes(t, c)
    <3>1. thr'[t].pc \notin WaitPlaces
      BY <2>2 DEF Makes, WaitPlaces
    <3> QED
      BY <2>2, <3>1 DEF Makes, LeftList, lists
  <2> QED
    BY <2>1, <2>2
<1>2. /\ \A d \in Conns : conn[d].crefs \in Nat /\ conn'[d].crefs \in Nat
      /\ \A u \in Threads : thr[u].conn \in {NoConn} \cup Conns
      /\ NoConn \notin Conns
  <2>1. conn' \in ConnFun
    BY <1>1 DEF LeftList
  <2> QED
    BY <2>1, ConnFacts, NoConnFacts DEF ConnFun, ConnRecords
<1>3. \A d \in Conns \ {c} : conn'[d] = conn[d]
  BY <1>1 DEF LeftList
<1>4. OwnInv'
  <2>1. ASSUME NEW u \in Threads, u # t
        PROVE  /\ thr'[u].op = thr[u].op /\ thr'[u].conn = thr[u].conn
               /\ thr'[u].pc = "idle" <=> thr[u].pc = "idle"
               /\ thr'[u].pc = "alloced" <=> thr[u].pc = "alloced"
               /\ thr'[u].pc = "freeing" <=> thr[u].pc = "freeing"
    BY <2>1 DEF Moves, SameCall, WaitPlaces
  <2>2. ASSUME NEW u \in Threads, thr'[u].conn # NoConn
        PROVE  thr'[u].op = "socket" <=> conn'[thr'[u].conn].crefs = 0
    <3>1. CASE u = t
      <4>1. thr'[t].pc # "idle" /\ thr'[t].conn = c
        BY <2>2, <3>1 DEF Moves
      <4>2. GoesOn(t, c) /\ MayBeIn(t, c, thr'[t].op)
        BY <4>1 DEF GoesOn, Makes
      <4>3. thr'[t].op = "socket" <=> conn[c].crefs = 0
        BY <1>2, <4>2 DEF MayBeIn, ConnInv, OwnInv
      <4> QED
        BY <1>2, <3>1, <4>1, <4>2, <4>3 DEF GoesOn
    <3>2. CASE u # t /\ thr[u].conn # c
      BY <1>2, <1>3, <2>1, <2>2, <3>2 DEF ConnInv, OwnInv
    <3>3. CASE u # t /\ thr[u].conn = c
      <4>1. GoesOn(t, c)
        BY <1>2, <3>3 DEF Makes, ConnInv, OwnInv
      <4>2. thr[u].op = "socket" <=> conn[c].crefs = 0
        BY <1>2, <3>3 DEF ConnInv, OwnInv
      <4> QED
        BY <1>2, <2>1, <3>3, <4>1, <4>2 DEF GoesOn
    <3> QED
      BY <3>1, <3>2, <3>3
  <2>3. ASSUME NEW u \in Threads, NEW v \in Threads, thr'[u].conn # NoConn,
               thr'[u].conn = thr'[v].conn, thr'[u].op \in {"socket", "close"}
        PROVE  u = v
    <3>1. CASE u # t /\ v # t
      BY <2>1, <2>3, <3>1 DEF ConnInv, OwnInv
    <3>2. CASE u = t /\ v # t
      <4>1. thr'[t].pc # "idle" /\ thr'[t].conn = c /\ thr[v].conn = c
        BY <2>1, <2>3, <3>2 DEF Moves
      <4>2. MayBeIn(t, c, thr'[t].op)
        BY <4>1 DEF GoesOn, Makes
      <4> QED
        BY <1>2, <2>3, <3>2, <4>1, <4>2 DEF MayBeIn, ConnInv, OwnInv
    <3>3. CASE u # t /\ v = t
      <4>1. /\ thr'[t].pc # "idle" /\ thr'[t].conn = c /\ thr[u].conn = c
            /\ thr[u].op \in {"socket", "close"}
        BY <2>1, <2>3, <3>3 DEF Moves
      <4>2. MayBeIn(t, c, thr'[t].op)
        BY <4>1 DEF GoesOn, Makes
      <4>3. thr[u].op = "socket" => conn[c].crefs = 0
        BY <1>2, <4>1 DEF ConnInv, OwnInv
      <4> QED
        BY <1>2, <3>3, <4>1, <4>2, <4>3 DEF MayBeIn, ConnInv, OwnInv
    <3> QED
      BY <3>1, <3>2, <3>3
  <2>4. \A u \in Threads : /\ thr'[u].pc = "idle" => thr'[u].conn = NoConn
                           /\ thr'[u].pc = "alloced" => thr'[u].op = "socket"
                           /\ thr'[u].pc = "freeing" => thr'[u].op = "close"
    BY <2>1 DEF Moves, ConnInv, OwnInv
  <2> QED
    BY <2>2, <2>3, <2>4 DEF OwnInv
<1>5. ListInv'
  <2>1. ASSUME NEW u \in Threads, thr'[u].conn # NoConn
        PROVE  thr'[u].conn \in Range(active)
    <3>1. CASE u # t
      BY <2>1, <3>1 DEF Moves, SameCall, ConnInv, ListInv
    <3>2. CASE u = t
      <4>1. thr'[t].conn = c /\ MayBeIn(t, c, thr'[t].op)
        BY <2>1, <3>2 DEF Moves, GoesOn, Makes
      <4> QED
        BY <1>2, <3>2, <4>1 DEF MayBeIn, ConnInv, ListInv
    <3> QED
      BY <3>1, <3>2
  <2>2. ASSUME NEW d \in Conns, conn'[d].crefs > 0
        PROVE  d \in Range(active)
    BY <1>1, <1>2, <1>3, <2>2 DEF ConnInv, ListInv
  <2> QED
    BY <1>1, <2>1, <2>2 DEF ConnInv, ListInv
<1>6. CallbackInv'
  <2>1. ASSUME NEW d \in Conns PROVE Distinct(conn'[d].list)
    BY <1>1, <1>3 DEF LeftList, ConnInv, CallbackInv
  <2>2. ASSUME NEW d \in Conns, NEW u \in Threads
        PROVE  u \in Range(conn'[d].list) <=> thr'[u].conn = d /\ thr'[u].pc \in WaitPlaces
    <3>1. CASE u # t
      <4>1. u \in Range(conn'[d].list) <=> u \in Range(conn[d].list)
        BY <1>1, <1>3, <3>1 DEF LeftList
      <4>2. /\ thr'[u].conn = thr[u].conn
            /\ thr'[u].pc \in WaitPlaces <=> thr[u].pc \in WaitPlaces
        BY <3>1 DEF Moves, SameCall
      <4> QED
        BY <4>1, <4>2 DEF ConnInv, CallbackInv
    <3>2. CASE u = t /\ d = c
      <4>1. t \in Range(conn'[c].list) <=> thr'[t].pc \in WaitPlaces
        BY <1>1 DEF LeftList
      <4> QED
        BY <3>2, <4>1 DEF Moves, WaitPlaces
    <3>3. CASE u = t /\ d # c
      <4>1. t \notin Range(conn[d].list)
        BY <1>2, <3>3 DEF Moves, ConnInv, CallbackInv
      <4>2. thr'[t].conn # d
        BY <1>2, <3>3 DEF Moves
      <4> QED
        BY <1>3, <3>3, <4>1, <4>2
    <3> QED
      BY <3>1, <3>2, <3>3
  <2> QED
    BY <2>1, <2>2 DEF CallbackInv
<1> QED
  BY <1>4, <1>5, <1>6

(* usrsock_alloc moves a connection nobody works on to the active list.    *)
LEMMA AllocatesKeeps ==
  ASSUME ConnInv, NEW t \in Threads, NEW c \in Conns, Moves(t, c), Allocates(t, c)
  PROVE  OwnInv' /\ ListInv' /\ CallbackInv'
<1>1. /\ c = Head(free) /\ free' = Tail(free) /\ active' = Append(active, c)
      /\ conn' = [conn EXCEPT ![c] = ClearedConn]
      /\ thr'[t].pc = "alloced" /\ thr'[t].op = "socket" /\ thr'[t].conn = c
      /\ thr[t].conn = NoConn
  BY DEF Allocates, usrsock_alloc, Moves
<1>2. /\ c \in Range(free) /\ Range(free') = Range(free) \ {c} /\ Distinct(free')
  BY <1>1, TailList, ConnFacts DEF Allocates, ConnInv, ListInv
<1>3. c \notin Range(active)
  BY <1>2 DEF ConnInv, ListInv
<1>4. Range(active') = Range(active) \cup {c} /\ Distinct(active')
  BY <1>1, <1>3, AppendList, ConnFacts DEF ConnInv, ListInv
<1>5. /\ \A d \in Conns \ {c} : conn'[d] = conn[d]
      /\ conn'[c].crefs = 0 /\ conn'[c].list = << >>
  BY <1>1, ConnFacts DEF ConnFun, ClearedConn
<1>6. \A u \in Threads : thr[u].conn # c
  BY <1>3, NoConnFacts DEF ConnInv, ListInv
<1>7. ASSUME NEW u \in Threads, u # t
      PROVE  /\ thr'[u].op = thr[u].op /\ thr'[u].conn = thr[u].conn
             /\ thr'[u].pc = "idle" <=> thr[u].pc = "idle"
             /\ thr'[u].pc = "alloced" <=> thr[u].pc = "alloced"
             /\ thr'[u].pc = "freeing" <=> thr[u].pc = "freeing"
             /\ thr'[u].pc \in WaitPlaces <=> thr[u].pc \in WaitPlaces
  BY <1>7 DEF Moves, SameCall, WaitPlaces
<1>8. OwnInv'
  <2>1. ASSUME NEW u \in Threads, thr'[u].conn # NoConn
        PROVE  thr'[u].op = "socket" <=> conn'[thr'[u].conn].crefs = 0
    <3>1. CASE u = t
      BY <1>1, <1>5, <3>1
    <3>2. CASE u # t
      <4>1. thr[u].conn \in Conns \ {c}
        BY <1>6, <1>7, <2>1, <3>2, ConnFacts
      <4> QED
        BY <1>5, <1>7, <2>1, <3>2, <4>1 DEF ConnInv, OwnInv
    <3> QED
      BY <3>1, <3>2
  <2>2. ASSUME NEW u \in Threads, NEW v \in Threads, thr'[u].conn # NoConn,
               thr'[u].conn = thr'[v].conn, thr'[u].op \in {"socket", "close"}
        PROVE  u = v
    BY <1>1, <1>6, <1>7, <2>2 DEF ConnInv, OwnInv
  <2>3. \A u \in Threads : /\ thr'[u].pc = "idle" => thr'[u].conn = NoConn
                           /\ thr'[u].pc = "alloced" => thr'[u].op = "socket"
                           /\ thr'[u].pc = "freeing" => thr'[u].op = "close"
    BY <1>1, <1>7 DEF ConnInv, OwnInv
  <2> QED
    BY <2>1, <2>2, <2>3 DEF OwnInv
<1>9. ListInv'
  <2>1. \A u \in Threads : thr'[u].conn # NoConn => thr'[u].conn \in Range(active')
    BY <1>1, <1>4, <1>7 DEF ConnInv, ListInv
  <2>2. \A d \in Conns : conn'[d].crefs > 0 => d \in Range(active')
    BY <1>4, <1>5 DEF ConnInv, ListInv
  <2> QED
    BY <1>2, <1>3, <1>4, <2>1, <2>2 DEF ConnInv, ListInv
<1>10. CallbackInv'
  <2>1. ASSUME NEW d \in Conns, d # c
        PROVE  /\ Distinct(conn'[d].list)
               /\ \A u \in Threads : u \in Range(conn'[d].list) <=>
                    thr'[u].conn = d /\ thr'[u].pc \in WaitPlaces
    <3>1. t \notin Range(conn[d].list)
      BY <1>1, NoConnFacts DEF ConnInv, CallbackInv
    <3> QED
      BY <1>1, <1>5, <1>7, <2>1, <3>1 DEF ConnInv, CallbackInv
  <2>2. /\ Distinct(conn'[c].list)
        /\ \A u \in Threads : u \in Range(conn'[c].list) <=>
             thr'[u].conn = c /\ thr'[u].pc \in WaitPlaces
    BY <1>1, <1>5, <1>6, <1>7, EmptyList DEF WaitPlaces
  <2> QED
    BY <2>1, <2>2 DEF CallbackInv
<1> QED
  BY <1>8, <1>9, <1>10

(* usrsock_free takes the connection of a socket() or close(), on which    *)
(* nobody else works, back to the free list.                               *)
LEMMA FreesKeeps ==
  ASSUME ConnInv, NEW t \in Threads, NEW c \in Conns, Moves(t, c), Frees(t, c)
  PROVE  OwnInv' /\ ListInv' /\ CallbackInv'
<1>1. /\ active' = RemoveFirst(active, c) /\ free' = Append(free, c)
      /\ thr[t].conn = c /\ thr[t].op \in {"socket", "close"}
      /\ thr'[t].pc = "idle" /\ thr'[t].conn = NoConn
      /\ \A d \in Conns \ {c} : conn'[d] = conn[d]
  BY DEF Frees, Moves
<1>2. conn'[c].crefs = 0 /\ conn'[c].list = << >>
  BY DEF Frees, ClearedConn
<1>3. c \in Range(active) /\ c \notin Range(free)
  BY <1>1, NoConnFacts DEF ConnInv, ListInv
<1>4. Range(active') = Range(active) \ {c} /\ Distinct(active')
  BY <1>1, RemoveList, ConnFacts DEF ConnInv, ListInv
<1>5. Range(free') = Range(free) \cup {c} /\ Distinct(free')
  BY <1>1, <1>3, AppendList, ConnFacts DEF ConnInv, ListInv
<1>6. \A u \in Threads \ {t} : thr[u].conn # c
  BY <1>1, NoConnFacts DEF ConnInv, OwnInv
<1>7. ASSUME NEW u \in Threads, u # t
      PROVE  /\ thr'[u].op = thr[u].op /\ thr'[u].conn = thr[u].conn
             /\ thr'[u].pc = "idle" <=> thr[u].pc = "idle"
             /\ thr'[u].pc = "alloced" <=> thr[u].pc = "alloced"
             /\ thr'[u].pc = "freeing" <=> thr[u].pc = "freeing"
             /\ thr'[u].pc \in WaitPlaces <=> thr[u].pc \in WaitPlaces
  BY <1>7 DEF Moves, SameCall, WaitPlaces
<1>8. OwnInv'
  <2>1. ASSUME NEW u \in Threads, thr'[u].conn # NoConn
        PROVE  thr'[u].op = "socket" <=> conn'[thr'[u].conn].crefs = 0
    <3>1. u # t /\ thr[u].conn \in Conns \ {c}
      BY <1>1, <1>6, <1>7, <2>1, ConnFacts
    <3> QED
      BY <1>1, <1>7, <2>1, <3>1 DEF ConnInv, OwnInv
  <2>2. ASSUME NEW u \in Threads, NEW v \in Threads, thr'[u].conn # NoConn,
               thr'[u].conn = thr'[v].conn, thr'[u].op \in {"socket", "close"}
        PROVE  u = v
    BY <1>1, <1>7, <2>2 DEF ConnInv, OwnInv
  <2>3. \A u \in Threads : /\ thr'[u].pc = "idle" => thr'[u].conn = NoConn
                           /\ thr'[u].pc = "alloced" => thr'[u].op = "socket"
                           /\ thr'[u].pc = "freeing" => thr'[u].op = "close"
    BY <1>1, <1>7 DEF ConnInv, OwnInv
  <2> QED
    BY <2>1, <2>2, <2>3 DEF OwnInv
<1>9. ListInv'
  <2>1. \A u \in Threads : thr'[u].conn # NoConn => thr'[u].conn \in Range(active')
    BY <1>1, <1>4, <1>6, <1>7 DEF ConnInv, ListInv
  <2>2. \A d \in Conns : conn'[d].crefs > 0 => d \in Range(active')
    BY <1>1, <1>2, <1>4 DEF ConnInv, ListInv
  <2> QED
    BY <1>3, <1>4, <1>5, <2>1, <2>2 DEF ConnInv, ListInv
<1>10. CallbackInv'
  <2>1. ASSUME NEW d \in Conns, d # c
        PROVE  /\ Distinct(conn'[d].list)
               /\ \A u \in Threads : u \in Range(conn'[d].list) <=>
                    thr'[u].conn = d /\ thr'[u].pc \in WaitPlaces
    <3>1. t \notin Range(conn[d].list)
      BY <1>1, <2>1 DEF ConnInv, CallbackInv
    <3> QED
      BY <1>1, <1>7, <2>1, <3>1, NoConnFacts DEF ConnInv, CallbackInv
  <2>2. /\ Distinct(conn'[c].list)
        /\ \A u \in Threads : u \in Range(conn'[c].list) <=>
             thr'[u].conn = c /\ thr'[u].pc \in WaitPlaces
    BY <1>1, <1>2, <1>6, <1>7, EmptyList, NoConnFacts
  <2> QED
    BY <2>1, <2>2 DEF CallbackInv
<1> QED
  BY <1>8, <1>9, <1>10

(* Every step of a call keeps the lists.                                   *)
LEMMA CallStepKeeps ==
  ASSUME ConnInv, Inv', NEW t \in Threads, CallStep(t)
  PROVE  ConnInv'
BY GoesOnKeeps, AllocatesKeeps, FreesKeeps DEF CallStep, ConnInv

-----------------------------------------------------------------------------
(* The steps of the daemon                                                 *)

(* What the daemon may do to the state of connection c: abort it, complete *)
(* its connect(), or make it the socket a socket() call is waiting for.    *)
StateRaised(c) ==
  \/ conn'[c].state \in {conn[c].state, "ABORTED"}
  \/ conn[c].state = "CONNECTING" /\ conn'[c].state = "READY"
  \/ /\ conn'[c].state = "READY"
     /\ dmn.pc = "open"
     /\ \E t \in Threads : thr[t].conn = c /\ thr[t].op = "socket"

(* No step of the daemon changes a list or a reference count, or takes a   *)
(* thread out of its call; neither does a thread that only waits on.       *)
Undisturbed ==
  /\ \A u \in Threads : SameCall(thr[u], thr'[u])
  /\ \A c \in Conns : /\ conn'[c].list = conn[c].list
                      /\ conn'[c].crefs = conn[c].crefs
                      /\ StateRaised(c)
  /\ UNCHANGED lists

(* Such a step keeps the lists' invariants.                                *)
LEMMA UndisturbedKeeps ==
  ASSUME ConnInv, Inv', Undisturbed
  PROVE  ConnInv'
<1>1. ASSUME NEW u \in Threads
      PROVE  /\ thr'[u].op = thr[u].op /\ thr'[u].conn = thr[u].conn
             /\ thr'[u].pc = "idle" <=> thr[u].pc = "idle"
             /\ thr'[u].pc = "alloced" <=> thr[u].pc = "alloced"
             /\ thr'[u].pc = "freeing" <=> thr[u].pc = "freeing"
             /\ thr'[u].pc \in WaitPlaces <=> thr[u].pc \in WaitPlaces
  BY DEF Undisturbed, SameCall, WaitPlaces
<1>2. \A c \in Conns : conn'[c].list = conn[c].list /\ conn'[c].crefs = conn[c].crefs
  BY DEF Undisturbed
<1>3. active' = active /\ free' = free
  BY DEF Undisturbed, lists
<1>4. OwnInv'
  <2>1. \A u \in Threads : thr[u].conn # NoConn => thr[u].conn \in Conns
    BY ConnFacts
  <2> QED
    BY <1>1, <1>2, <2>1 DEF ConnInv, OwnInv
<1>5. ListInv'
  BY <1>1, <1>2, <1>3 DEF ConnInv, ListInv
<1>6. CallbackInv'
  BY <1>1, <1>2 DEF ConnInv, CallbackInv
<1> QED
  BY <1>4, <1>5, <1>6 DEF ConnInv

-----------------------------------------------------------------------------
(* What a call leaves of the connections                                   *)

(* The connections are a step's starting point: a thread between two calls *)
(* has no callback anywhere.                                               *)
LEMMA LeftIdle ==
  ASSUME ConnInv, NEW t \in Threads, NEW c \in Conns, thr[t].conn = NoConn
  PROVE  Left(t, c, conn, FALSE)
<1>1. t \notin Range(conn[c].list) /\ Distinct(conn[c].list)
  BY NoConnFacts DEF ConnInv, CallbackInv
<1> QED
  BY <1>1, ConnFacts DEF Left, LeftList, StateKept

(* usrsock_teardown_request_callback.                                      *)
LEMMA LeftReleased ==
  ASSUME ConnInv, NEW t \in Threads, NEW c \in Conns
  PROVE  Left(t, c, Released(c, t), FALSE)
<1> DEFINE cm == Released(c, t)
<1>1. conn[c] \in ConnRecords /\ conn \in ConnFun
  BY ConnFacts
<1>2. cm \in ConnFun /\ cm[c] = TeardownCallback(conn[c], t)
      /\ \A d \in Conns \ {c} : cm[d] = conn[d]
  BY <1>1, ReleasedType DEF ConnInv, Released, ConnFun
<1>3. /\ TeardownCallback(conn[c], t).list = RemoveFirst(conn[c].list, t)
      /\ TeardownCallback(conn[c], t).crefs = conn[c].crefs
      /\ TeardownCallback(conn[c], t).state = conn[c].state
  BY <1>1 DEF TeardownCallback, ConnRecords
<1>4. /\ Range(RemoveFirst(conn[c].list, t)) = Range(conn[c].list) \ {t}
      /\ Distinct(RemoveFirst(conn[c].list, t))
  BY RemoveList, ConnFacts DEF ConnInv, CallbackInv
<1> QED
  BY <1>2, <1>3, <1>4 DEF Left, LeftList, StateKept

(* A change of the connection that leaves its callbacks alone.             *)
LEMMA LeftUpdate ==
  ASSUME NEW t \in Threads, NEW c \in Conns, NEW w \in BOOLEAN, NEW cm, Left(t, c, cm, w),
         NEW cr \in ConnRecords, cr.list = cm[c].list, cr.crefs = cm[c].crefs,
         StateKept(conn[c].state, cr.state)
  PROVE  Left(t, c, [cm EXCEPT ![c] = cr], w)
<1>1. cm \in ConnFun
  BY DEF Left, LeftList
<1>2. /\ [cm EXCEPT ![c] = cr] \in ConnFun /\ [cm EXCEPT ![c] = cr][c] = cr
      /\ \A d \in Conns \ {c} : [cm EXCEPT ![c] = cr][d] = cm[d]
  BY <1>1 DEF ConnFun
<1> QED
  BY <1>2 DEF Left, LeftList

(* setup_conn_getsockopt and its copies with a null buffer.                *)
LEMMA LeftWithoutData ==
  ASSUME NEW t \in Threads, NEW c \in Conns, NEW op, NEW cm, Left(t, c, cm, FALSE)
  PROVE  Left(t, c, WithoutData(c, op, cm), FALSE)
<1> DEFINE cr == [cm[c] EXCEPT !.datain = NoThread]
<1>1. cm \in ConnFun /\ cm[c] \in ConnRecords
  BY DEF Left, LeftList, ConnFun
<1>2. /\ cr \in ConnRecords /\ cr.list = cm[c].list /\ cr.crefs = cm[c].crefs
      /\ cr.state = cm[c].state
  BY <1>1 DEF ConnRecords
<1>3. [cm EXCEPT ![c].datain = NoThread] = [cm EXCEPT ![c] = cr]
  BY <1>1 DEF ConnFun
<1>4. StateKept(conn[c].state, cr.state)
  BY <1>2 DEF Left, LeftList
<1>5. FALSE \in BOOLEAN
  OBVIOUS
<1>6. Left(t, c, [cm EXCEPT ![c] = cr], FALSE)
  <2> HIDE DEF cr
  <2> QED
    BY <1>2, <1>4, <1>5, LeftUpdate
<1> QED
  BY <1>3, <1>6 DEF WithoutData

(* usrsock_setup_request_callback: the thread's callback is in the list.   *)
LEMMA LeftSetup ==
  ASSUME NEW t \in Threads, NEW c \in Conns, NEW cm, Left(t, c, cm, FALSE),
         NEW cr \in ConnRecords, cr.list = <<t>> \o cm[c].list, cr.crefs = cm[c].crefs,
         cr.state = cm[c].state
  PROVE  Left(t, c, [cm EXCEPT ![c] = cr], TRUE)
<1>1. cm \in ConnFun /\ cm[c].list \in Seq(Threads)
  BY DEF Left, LeftList, ConnFun, ConnRecords
<1>2. /\ [cm EXCEPT ![c] = cr] \in ConnFun /\ [cm EXCEPT ![c] = cr][c] = cr
      /\ \A d \in Conns \ {c} : [cm EXCEPT ![c] = cr][d] = cm[d]
  BY <1>1 DEF ConnFun
<1>3. /\ Range(cm[c].list) = Range(conn[c].list) \ {t}
      /\ Distinct(cm[c].list) /\ t \notin Range(cm[c].list)
  BY DEF Left, LeftList
<1>4. /\ Range(cr.list) = Range(cm[c].list) \cup {t}
      /\ Distinct(cr.list)
  BY <1>1, <1>3, PrependList
<1>5. Range(cr.list) = (Range(conn[c].list) \ {t}) \cup {t}
  BY <1>3, <1>4
<1> QED
  BY <1>2, <1>4, <1>5 DEF Left, LeftList

-----------------------------------------------------------------------------
(* The ways a call goes on, each a CallStep                                *)

(* The call returns.                                                       *)
LEMMA ReturnStep ==
  ASSUME ConnInv, NEW t \in Threads, NEW c \in Conns, thr[t].conn \in {NoConn, c},
         Left(t, c, conn', FALSE), thr'[t] = IdleThread,
         \A u \in Threads \ {t} : SameCall(thr[u], thr'[u]), UNCHANGED lists
  PROVE  CallStep(t)
<1>1. /\ thr'[t].pc = "idle" /\ thr'[t].conn = NoConn
      /\ thr'[t].pc \in WaitPlaces <=> FALSE
  BY DEF IdleThread, WaitPlaces
<1>2. Moves(t, c)
  BY <1>1 DEF Moves
<1>3. GoesOn(t, c)
  BY <1>1 DEF GoesOn, Left, LeftList
<1> QED
  BY <1>2, <1>3 DEF CallStep

(* The others stay where they are.                                         *)
LEMMA OthersStay ==
  ASSUME ConnInv, NEW t \in Threads, NEW r, thr' = [thr EXCEPT ![t] = r]
  PROVE  thr'[t] = r /\ \A u \in Threads \ {t} : SameCall(thr[u], thr'[u])
BY ConnFacts DEF SameCall

(* The call returns by Finish.                                             *)
LEMMA FinishStep ==
  ASSUME ConnInv, NEW t \in Threads, NEW c \in Conns, thr[t].conn \in {NoConn, c},
         NEW op, NEW d, NEW val, NEW cm,
         Left(t, c, cm, FALSE), Finish(t, op, d, val, cm), UNCHANGED lists
  PROVE  CallStep(t)
BY ReturnStep, OthersStay DEF Finish

(* The call waits with its callback set up.                                *)
LEMMA WaitStep ==
  ASSUME ConnInv, NEW t \in Threads, NEW c \in Conns, thr[t].conn \in {NoConn, c},
         Left(t, c, conn', TRUE), thr'[t].pc \in WaitPlaces, thr'[t].conn = c,
         MayBeIn(t, c, thr'[t].op),
         \A u \in Threads \ {t} : SameCall(thr[u], thr'[u]), UNCHANGED lists
  PROVE  CallStep(t)
<1>1. thr'[t].pc \notin {"idle", "alloced", "freeing"}
  BY DEF WaitPlaces
<1>2. Moves(t, c)
  BY <1>1 DEF Moves
<1>3. GoesOn(t, c)
  BY <1>1 DEF GoesOn, Left, LeftList
<1> QED
  BY <1>2, <1>3 DEF CallStep

(* The call goes to the request line.                                      *)
LEMMA RequestStep ==
  ASSUME ConnInv, NEW t \in Threads, NEW c \in Conns, thr[t].conn \in {NoConn, c},
         NEW op \in ApiCalls \cup {"none"}, NEW nonblock \in BOOLEAN, NEW cm,
         Left(t, c, cm, FALSE), MayBeIn(t, c, op),
         usrsockdev_do_request(t, op, c, nonblock, cm), UNCHANGED lists
  PROVE  CallStep(t)
<1> DEFINE flags == {"ABORT", "REQ_COMPLETE"}
           r     == [Armed(op, c, nonblock, flags) EXCEPT !.pc = LineWait]
           cs    == SetupCallback(cm[c], t)
           d     == IF op \in DataRequests THEN t ELSE cs.datain
           cr    == [cs EXCEPT !.xid = c, !.result = EACCES, !.datain = d]
<1>1. r.pc \in WaitPlaces /\ r.conn = c /\ r.op = op
  <2>1. flags \in SUBSET Events /\ LineWait \in Places /\ LineWait \in WaitPlaces
    BY DEF Events, InternalEvents, ExternalEvents, LineWait, WaitPlaces, Places
  <2> HIDE DEF flags
  <2>2. r \in ThreadRecords /\ r.pc = LineWait /\ r.conn = c /\ r.op = op
    BY <2>1, ArmedType
  <2> HIDE DEF r
  <2> QED
    BY <2>1, <2>2
<1>2. cm \in ConnFun /\ cm[c] \in ConnRecords
  BY DEF Left, LeftList, ConnFun
<1>3. /\ cs \in ConnRecords /\ cs.list = <<t>> \o cm[c].list
      /\ cs.crefs = cm[c].crefs /\ cs.state = cm[c].state
  <2>1. cs \in ConnRecords
    BY <1>2, CallbackType
  <2> QED
    BY <1>2, <2>1 DEF SetupCallback, ConnRecords
<1>4. d \in Threads \cup {NoThread} /\ EACCES \in Int
  BY <1>3, ErrnoTypes DEF ConnRecords
<1>5. /\ cr \in ConnRecords /\ cr.list = cs.list
      /\ cr.crefs = cs.crefs /\ cr.state = cs.state
  <2>1. ASSUME NEW x \in ConnRecords, NEW e \in Int, NEW y \in Threads \cup {NoThread}
        PROVE  LET z == [x EXCEPT !.xid = c, !.result = e, !.datain = y]
               IN  /\ z \in ConnRecords /\ z.list = x.list
                   /\ z.crefs = x.crefs /\ z.state = x.state
    BY DEF ConnRecords
  <2> HIDE DEF cs, d
  <2> QED
    BY <1>3, <1>4, <2>1
<1>6. conn' = [cm EXCEPT ![c] = cr] /\ thr' = [thr EXCEPT ![t] = r]
  BY <1>2 DEF usrsockdev_do_request, usrsockdev_get_xid, ConnFun
<1>7. Left(t, c, conn', TRUE)
  <2> HIDE DEF cr, cs
  <2> QED
    BY <1>3, <1>5, <1>6, LeftSetup
<1> HIDE DEF r, cr, cs, d, flags
<1>8. thr'[t] = r /\ \A u \in Threads \ {t} : SameCall(thr[u], thr'[u])
  BY <1>6, OthersStay
<1>9. thr'[t].pc \in WaitPlaces /\ thr'[t].conn = c /\ MayBeIn(t, c, thr'[t].op)
  BY <1>1, <1>8
<1> QED
  BY <1>7, <1>8, <1>9, WaitStep

(* A request that may fail before it reaches the line.                     *)
LEMMA StartStep ==
  ASSUME ConnInv, NEW t \in Threads, NEW c \in Conns, thr[t].conn \in {NoConn, c},
         NEW op \in ApiCalls \cup {"none"}, NEW nonblock \in BOOLEAN, NEW cm, NEW marked,
         Left(t, c, cm, FALSE), Left(t, c, marked, FALSE), MayBeIn(t, c, op),
         StartRequest(t, op, c, nonblock, cm, marked), UNCHANGED lists
  PROVE  CallStep(t)
<1>1. CASE Finish(t, op, c, EBUSY, cm)
  BY <1>1, FinishStep
<1>2. CASE Finish(t, op, c, ENETDOWN, WithoutData(c, op, marked))
  BY <1>2, FinishStep, LeftWithoutData
<1>3. CASE usrsockdev_do_request(t, op, c, nonblock, marked)
  BY <1>3, RequestStep
<1> QED
  BY <1>1, <1>2, <1>3 DEF StartRequest

-----------------------------------------------------------------------------
(* Every step of a thread                                                  *)

(* Who may use a socket may begin any call on it but socket() and close(). *)
LEMMA UseFacts ==
  ASSUME ConnInv, NEW t \in Threads, NEW c \in Conns, MayUse(t, c)
  PROVE  /\ thr[t].conn = NoConn
         /\ Left(t, c, conn, FALSE)
         /\ \A op : op \notin {"socket", "close"} => MayBeIn(t, c, op)
<1>1. thr[t].conn = NoConn
  BY ConnFacts DEF MayUse
<1>2. Left(t, c, conn, FALSE)
  BY <1>1, LeftIdle
<1> QED
  BY <1>1, <1>2 DEF MayUse, MayBeIn

(* A call that waits is in a call on its connection.                       *)
LEMMA WaitFacts ==
  ASSUME ConnInv, NEW t \in Threads, thr[t].pc # "idle"
  PROVE  /\ thr[t].conn \in Conns
         /\ MayBeIn(t, thr[t].conn, thr[t].op)
         /\ Left(t, thr[t].conn, Released(thr[t].conn, t), FALSE)
<1>1. thr[t].conn \in Conns
  BY ConnFacts
<1> QED
  BY <1>1, LeftReleased DEF MayBeIn

(* usrsock_free at the end of a failed socket().                           *)
LEMMA FailSocketStep ==
  ASSUME ConnInv, NEW t \in Threads, NEW c \in Conns, thr[t].conn = c,
         thr[t].op = "socket", NEW err, NEW cm, Left(t, c, cm, FALSE),
         FailSocket(t, c, err, cm)
  PROVE  CallStep(t)
<1>1. /\ thr'[t] = IdleThread /\ thr'[t].pc = "idle" /\ thr'[t].conn = NoConn
      /\ \A u \in Threads \ {t} : SameCall(thr[u], thr'[u])
  <2>1. /\ thr'[t] = IdleThread
        /\ \A u \in Threads \ {t} : SameCall(thr[u], thr'[u])
    BY OthersStay DEF FailSocket
  <2> QED
    BY <2>1 DEF IdleThread
<1>2. Moves(t, c)
  BY <1>1 DEF Moves
<1>3. cm \in ConnFun /\ \A d \in Conns \ {c} : cm[d] = conn[d]
  BY DEF Left, LeftList
<1>4. conn'[c] = ClearedConn /\ \A d \in Conns \ {c} : conn'[d] = conn[d]
  BY <1>3 DEF FailSocket, usrsock_free, ConnFun
<1>5. Frees(t, c)
  BY <1>1, <1>4 DEF Frees, FailSocket, usrsock_free
<1> QED
  BY <1>2, <1>5 DEF CallStep

(* socket() up to usrsock_alloc.                                           *)
LEMMA SocketCallStep ==
  ASSUME ConnInv, NEW t \in Threads, SocketCall(t)
  PROVE  CallStep(t)
<1>1. thr[t].conn = NoConn
  BY ConnFacts DEF SocketCall
<1>2. CASE Finish(t, "socket", NoConn, ENOMEM, conn) /\ UNCHANGED lists
  <2>1. 1 \in Conns
    BY ConnAssumption DEF ConnAssumption, Conns
  <2> QED
    BY <1>1, <1>2, <2>1, LeftIdle, FinishStep
<1>3. ASSUME NEW c \in Conns, free # << >>, usrsock_alloc(t, c),
             thr' = [thr EXCEPT ![t] = [IdleThread EXCEPT !.pc = "alloced",
                                          !.op = "socket", !.conn = c]]
      PROVE  CallStep(t)
  <2> DEFINE r == [IdleThread EXCEPT !.pc = "alloced", !.op = "socket", !.conn = c]
  <2>1. r.pc = "alloced" /\ r.op = "socket" /\ r.conn = c
    BY DEF IdleThread
  <2>2. thr' = [thr EXCEPT ![t] = r]
    BY <1>3
  <2> HIDE DEF r
  <2>3. thr'[t] = r /\ \A u \in Threads \ {t} : SameCall(thr[u], thr'[u])
    BY <2>2, OthersStay
  <2>4. Moves(t, c)
    BY <1>1, <2>1, <2>3 DEF Moves
  <2>5. Allocates(t, c)
    BY <1>1, <1>3, <2>1, <2>3 DEF Allocates
  <2> QED
    BY <2>4, <2>5 DEF CallStep
<1> QED
  BY <1>2, <1>3 DEF SocketCall

(* usrsock_socket: the request, or the connection is freed.                *)
LEMMA SocketStep ==
  ASSUME ConnInv, NEW t \in Threads, usrsock_socket(t)
  PROVE  CallStep(t)
<1> DEFINE c == thr[t].conn
<1>1. c \in Conns /\ thr[t].op = "socket" /\ thr[t].pc = "alloced"
  BY ConnFacts DEF usrsock_socket, ConnInv, OwnInv
<1>2. Left(t, c, conn, FALSE)
  <2>1. t \notin Range(conn[c].list) /\ Distinct(conn[c].list)
    BY <1>1 DEF ConnInv, CallbackInv, WaitPlaces
  <2> QED
    BY <1>1, <2>1, ConnFacts DEF Left, LeftList, StateKept
<1>3. MayBeIn(t, c, "socket")
  BY <1>1 DEF MayBeIn
<1>4. CASE usrsockdev_do_request(t, "socket", c, FALSE, conn) /\ UNCHANGED lists
  <2>1. "socket" \in ApiCalls \cup {"none"} /\ FALSE \in BOOLEAN
    BY DEF ApiCalls, Requests
  <2> HIDE DEF c
  <2>2. thr[t].conn \in {NoConn, c}
    BY DEF c
  <2> QED
    BY <1>1, <1>2, <1>3, <1>4, <2>1, <2>2, RequestStep
<1>5. ASSUME NEW err, FailSocket(t, c, err, conn)
      PROVE  CallStep(t)
  BY <1>1, <1>2, <1>5, FailSocketStep
<1> QED
  BY <1>4, <1>5 DEF usrsock_socket

(* usrsock_close's close_out: close() is about to free the connection.     *)
LEMMA CloseOutStep ==
  ASSUME ConnInv, NEW t \in Threads, NEW c \in Conns, thr[t].conn \in {NoConn, c},
         NEW cm, Left(t, c, cm, FALSE), MayBeIn(t, c, "close"), CloseOut(t, c, cm),
         UNCHANGED lists
  PROVE  CallStep(t)
<1> DEFINE r  == [IdleThread EXCEPT !.pc = "freeing", !.op = "close", !.conn = c]
           cr == [cm[c] EXCEPT !.state = "UNINITIALIZED", !.usockid = -1]
<1>1. r.pc = "freeing" /\ r.op = "close" /\ r.conn = c
  BY DEF IdleThread
<1>2. cm \in ConnFun /\ cm[c] \in ConnRecords
  BY DEF Left, LeftList, ConnFun
<1>3. /\ cr \in ConnRecords /\ cr.list = cm[c].list /\ cr.crefs = cm[c].crefs
      /\ cr.state = "UNINITIALIZED"
  <2>1. ASSUME NEW x \in ConnRecords, NEW n \in Int
        PROVE  LET y == [x EXCEPT !.state = "UNINITIALIZED", !.usockid = n]
               IN  /\ y \in ConnRecords /\ y.list = x.list /\ y.crefs = x.crefs
                   /\ y.state = "UNINITIALIZED"
    BY DEF ConnRecords, ConnStates
  <2>2. -1 \in Int
    OBVIOUS
  <2> QED
    BY <1>2, <2>1, <2>2, Zenon
<1>4. conn' = [cm EXCEPT ![c] = cr] /\ thr' = [thr EXCEPT ![t] = r]
  BY <1>2 DEF CloseOut, ConnFun
<1> HIDE DEF r, cr
<1>5. Left(t, c, conn', FALSE)
  <2>1. FALSE \in BOOLEAN /\ StateKept(conn[c].state, cr.state)
    BY <1>3 DEF StateKept
  <2> QED
    BY <1>3, <1>4, <2>1, LeftUpdate
<1>6. thr'[t] = r /\ \A u \in Threads \ {t} : SameCall(thr[u], thr'[u])
  BY <1>4, OthersStay
<1>7. thr'[t].pc = "freeing" /\ thr'[t].op = "close" /\ thr'[t].conn = c
      /\ (thr'[t].pc \in WaitPlaces <=> FALSE)
  BY <1>1, <1>6 DEF WaitPlaces
<1>8. Moves(t, c)
  BY <1>6, <1>7 DEF Moves
<1>9. GoesOn(t, c)
  BY <1>5, <1>7 DEF GoesOn, Left, LeftList
<1> QED
  BY <1>8, <1>9 DEF CallStep

(* A change of the reference count that leaves the socket open.            *)
LEMMA CountStep ==
  ASSUME ConnInv, NEW t \in Threads, NEW c \in Conns, MayUse(t, c),
         NEW n \in Nat, n > 0, conn' = [conn EXCEPT ![c].crefs = n],
         thr'[t].pc = "idle", thr'[t].conn = NoConn,
         \A u \in Threads \ {t} : SameCall(thr[u], thr'[u]), UNCHANGED lists
  PROVE  CallStep(t)
<1> DEFINE cr == [conn[c] EXCEPT !.crefs = n]
<1>1. conn \in ConnFun /\ conn[c] \in ConnRecords
  BY ConnFacts
<1>2. /\ cr \in ConnRecords /\ cr.list = conn[c].list /\ cr.crefs = n
      /\ cr.state = conn[c].state
  BY <1>1 DEF ConnRecords
<1>3. conn' = [conn EXCEPT ![c] = cr]
  BY <1>1 DEF ConnFun
<1> HIDE DEF cr
<1>4. /\ conn' \in ConnFun /\ conn'[c] = cr
      /\ \A d \in Conns \ {c} : conn'[d] = conn[d]
  BY <1>1, <1>2, <1>3 DEF ConnFun
<1>5. Left(t, c, conn, FALSE) /\ thr[t].conn = NoConn
  BY UseFacts
<1>6. thr'[t].pc \in WaitPlaces <=> FALSE
  BY DEF WaitPlaces
<1>7. LeftList(t, c, conn', thr'[t].pc \in WaitPlaces)
  BY <1>2, <1>4, <1>5, <1>6 DEF Left, LeftList, StateKept
<1>8. GoesOn(t, c)
  BY <1>2, <1>4, <1>7 DEF GoesOn, MayUse
<1>9. Moves(t, c)
  BY <1>5 DEF Moves
<1> QED
  BY <1>8, <1>9 DEF CallStep

(* usrsock_close.                                                          *)
LEMMA CloseStep ==
  ASSUME ConnInv, NEW t \in Threads, NEW c \in Conns, usrsock_close(t, c)
  PROVE  CallStep(t)
<1>1. MayUse(t, c) /\ UNCHANGED lists
  BY DEF usrsock_close
<1>2. /\ thr[t].conn = NoConn /\ thr[t].conn \in {NoConn, c} /\ Left(t, c, conn, FALSE)
  BY <1>1, UseFacts
<1>3. MayBeIn(t, c, "close")
  BY <1>2 DEF usrsock_close, MayUse, MayBeIn
<1>4. CASE /\ conn[c].crefs > 1
           /\ Finish(t, "close", c, 0, [conn EXCEPT ![c].crefs = @ - 1])
  <2>1. conn[c].crefs \in Nat
    BY ConnFacts
  <2>2. conn[c].crefs - 1 \in Nat /\ conn[c].crefs - 1 > 0
    BY <1>4, <2>1
  <2>3. conn' = [conn EXCEPT ![c].crefs = conn[c].crefs - 1]
    BY <1>4, ConnFacts DEF Finish, ConnFun
  <2>4. thr'[t] = IdleThread /\ \A u \in Threads \ {t} : SameCall(thr[u], thr'[u])
    BY <1>4, OthersStay DEF Finish
  <2>5. thr'[t].pc = "idle" /\ thr'[t].conn = NoConn
    BY <2>4 DEF IdleThread
  <2> QED
    BY <1>1, <2>2, <2>3, <2>4, <2>5, CountStep
<1>5. CASE CloseOut(t, c, conn)
  BY <1>1, <1>2, <1>3, <1>5, CloseOutStep
<1>6. CASE Finish(t, "close", c, EBUSY, conn)
  BY <1>1, <1>2, <1>6, FinishStep
<1>7. CASE usrsockdev_do_request(t, "close", c, FALSE, conn)
  <2>1. "close" \in ApiCalls \cup {"none"} /\ FALSE \in BOOLEAN
    BY DEF ApiCalls, Requests
  <2> QED
    BY <1>1, <1>2, <1>3, <1>7, <2>1, RequestStep
<1> QED
  BY <1>4, <1>5, <1>6, <1>7 DEF usrsock_close

(* psock_close frees the connection.                                       *)
LEMMA PsockCloseStep ==
  ASSUME ConnInv, NEW t \in Threads, psock_close(t)
  PROVE  CallStep(t)
<1> DEFINE c == thr[t].conn
<1>1. c \in Conns /\ thr[t].op = "close"
  BY ConnFacts DEF psock_close, ConnInv, OwnInv
<1>2. thr'[t] = IdleThread /\ \A u \in Threads \ {t} : SameCall(thr[u], thr'[u])
  BY OthersStay DEF psock_close
<1>3. thr'[t].pc = "idle" /\ thr'[t].conn = NoConn
  BY <1>2 DEF IdleThread
<1>4. Moves(t, c)
  BY <1>2, <1>3 DEF Moves
<1>5. conn'[c] = ClearedConn /\ \A d \in Conns \ {c} : conn'[d] = conn[d]
  BY <1>1, ConnFacts DEF psock_close, usrsock_free, ConnFun
<1>6. Frees(t, c)
  BY <1>1, <1>3, <1>5 DEF Frees, psock_close, usrsock_free
<1> QED
  BY <1>1, <1>4, <1>6 DEF CallStep

(* net_clone.                                                              *)
LEMMA CloneStep ==
  ASSUME ConnInv, NEW t \in Threads, NEW c \in Conns, net_clone(t, c)
  PROVE  CallStep(t)
<1>1. conn[c].crefs + 1 \in Nat /\ conn[c].crefs + 1 > 0
  BY ConnFacts
<1>2. conn' = [conn EXCEPT ![c].crefs = conn[c].crefs + 1]
  BY ConnFacts DEF net_clone, ConnFun
<1>3. /\ MayUse(t, c) /\ UNCHANGED lists /\ thr' = thr
      /\ \A u \in Threads : SameCall(thr[u], thr'[u])
  BY DEF net_clone, SameCall
<1>4. thr'[t].pc = "idle" /\ thr'[t].conn = NoConn
  BY <1>3, UseFacts DEF MayUse
<1> QED
  BY <1>1, <1>2, <1>3, <1>4, CountStep

(* bind(), setsockopt(), getsockopt() and getsockname().                   *)
LEMMA SimpleStep ==
  ASSUME ConnInv, NEW t \in Threads, NEW c \in Conns, NEW op \in SimpleOps,
         SimpleRequest(t, op, c) \/ BadOption(t, op, c)
  PROVE  CallStep(t)
<1>1. /\ MayUse(t, c) /\ UNCHANGED lists /\ op \in ApiCalls \cup {"none"}
      /\ op \notin {"socket", "close"} /\ FALSE \in BOOLEAN
  BY DEF SimpleRequest, BadOption, ApiCalls, Requests, SimpleOps
<1>2. thr[t].conn \in {NoConn, c} /\ Left(t, c, conn, FALSE) /\ MayBeIn(t, c, op)
  BY <1>1, UseFacts
<1>3. CASE \E val : Finish(t, op, c, val, conn)
  BY <1>1, <1>2, <1>3, FinishStep
<1>4. CASE StartRequest(t, op, c, FALSE, conn, conn)
  BY <1>1, <1>2, <1>4, StartStep
<1>5. CASE Finish(t, op, c, EINVAL, WithoutData(c, op, conn))
  BY <1>1, <1>2, <1>5, FinishStep, LeftWithoutData
<1> QED
  BY <1>3, <1>4, <1>5 DEF SimpleRequest, BadOption

(* usrsock_connect marks a READY connection as connecting.                 *)
LEMMA ConnectStep ==
  ASSUME ConnInv, NEW t \in Threads, NEW c \in Conns, usrsock_connect(t, c)
  PROVE  CallStep(t)
<1>1. /\ MayUse(t, c) /\ UNCHANGED lists /\ "connect" \in ApiCalls \cup {"none"}
  BY DEF usrsock_connect, ApiCalls, Requests
<1>2. thr[t].conn \in {NoConn, c} /\ Left(t, c, conn, FALSE) /\ MayBeIn(t, c, "connect")
  BY <1>1, UseFacts
<1>3. CASE \E val : Finish(t, "connect", c, val, conn)
  BY <1>1, <1>2, <1>3, FinishStep
<1>4. ASSUME NEW nonblock \in NonBlock, conn[c].state = "READY",
             StartRequest(t, "connect", c, nonblock, conn,
                          [conn EXCEPT ![c].state = "CONNECTING"])
      PROVE  CallStep(t)
  <2> DEFINE cr == [conn[c] EXCEPT !.state = "CONNECTING"]
  <2>1. nonblock \in BOOLEAN /\ FALSE \in BOOLEAN
    BY UsrsockAssumption DEF UsrsockAssumption
  <2>2. /\ cr \in ConnRecords /\ cr.list = conn[c].list /\ cr.crefs = conn[c].crefs
        /\ cr.state = "CONNECTING"
    <3>1. conn[c] \in ConnRecords
      BY ConnFacts
    <3> QED
      BY <3>1 DEF ConnRecords, ConnStates
  <2>3. [conn EXCEPT ![c].state = "CONNECTING"] = [conn EXCEPT ![c] = cr]
    BY ConnFacts DEF ConnFun
  <2> HIDE DEF cr
  <2>4. StateKept(conn[c].state, cr.state)
    BY <1>4, <2>2 DEF StateKept
  <2>5. Left(t, c, [conn EXCEPT ![c] = cr], FALSE)
    BY <1>2, <2>1, <2>2, <2>4, LeftUpdate
  <2>6. Left(t, c, [conn EXCEPT ![c].state = "CONNECTING"], FALSE)
    BY <2>3, <2>5
  <2> QED
    BY <1>1, <1>2, <1>4, <2>1, <2>6, StartStep
<1> QED
  BY <1>3, <1>4 DEF usrsock_connect

(* sendto() and recvfrom() wait for readiness.                             *)
LEMMA WaitReadyStep ==
  ASSUME ConnInv, NEW t \in Threads, NEW c \in Conns, thr[t].conn \in {NoConn, c},
         NEW op \in ApiCalls \cup {"none"}, NEW nonblock \in BOOLEAN, NEW cm,
         Left(t, c, cm, FALSE), MayBeIn(t, c, op),
         WaitReady(t, op, c, nonblock, cm), UNCHANGED lists
  PROVE  CallStep(t)
<1> DEFINE flags == {"ABORT", "REMOTE_CLOSED", ReadyEvent(op)}
           r     == [Armed(op, c, nonblock, flags) EXCEPT !.pc = "rdywait"]
           cr    == SetupCallback(cm[c], t)
<1>1. r.pc = "rdywait" /\ r.conn = c /\ r.op = op
  <2>1. flags \in SUBSET Events /\ "rdywait" \in Places
    BY DEF Events, InternalEvents, ExternalEvents, DataEvents, ReadyEvent, Places
  <2> HIDE DEF flags
  <2>2. r \in ThreadRecords /\ r.pc = "rdywait" /\ r.conn = c /\ r.op = op
    BY <2>1, ArmedType
  <2> QED
    BY <2>2
<1>2. cm \in ConnFun /\ cm[c] \in ConnRecords
  BY DEF Left, LeftList, ConnFun
<1>3. /\ cr \in ConnRecords /\ cr.list = <<t>> \o cm[c].list
      /\ cr.crefs = cm[c].crefs /\ cr.state = cm[c].state
  <2>1. cr \in ConnRecords
    BY <1>2, CallbackType
  <2> QED
    BY <1>2, <2>1 DEF SetupCallback, ConnRecords
<1>4. conn' = [cm EXCEPT ![c] = cr] /\ thr' = [thr EXCEPT ![t] = r]
  BY <1>2 DEF WaitReady, ConnFun
<1> HIDE DEF cr, r, flags
<1>5. Left(t, c, conn', TRUE)
  BY <1>3, <1>4, LeftSetup
<1>6. thr'[t] = r /\ \A u \in Threads \ {t} : SameCall(thr[u], thr'[u])
  BY <1>4, OthersStay
<1>7. thr'[t].pc \in WaitPlaces /\ thr'[t].conn = c /\ MayBeIn(t, c, thr'[t].op)
  BY <1>1, <1>6 DEF WaitPlaces
<1> QED
  BY <1>5, <1>6, <1>7, WaitStep

(* One turn of the loop of sendto() or recvfrom().                         *)
LEMMA IoLoopStep ==
  ASSUME ConnInv, NEW t \in Threads, NEW c \in Conns, thr[t].conn \in {NoConn, c},
         NEW op \in ApiCalls \cup {"none"}, NEW nonblock \in BOOLEAN, NEW cm,
         Left(t, c, cm, FALSE), MayBeIn(t, c, op),
         IoLoop(t, op, c, nonblock, cm), UNCHANGED lists
  PROVE  CallStep(t)
<1>1. CASE \E val : Finish(t, op, c, val, cm)
  BY <1>1, FinishStep
<1>2. CASE WaitReady(t, op, c, nonblock, cm)
  BY <1>2, WaitReadyStep
<1>3. CASE StartRequest(t, op, c, nonblock, cm, cm)
  BY <1>3, StartStep
<1> QED
  BY <1>1, <1>2, <1>3 DEF IoLoop

(* sendto() and recvfrom().                                                *)
LEMMA IoCallStep ==
  ASSUME ConnInv, NEW t \in Threads, NEW c \in Conns, NEW op \in IoCalls,
         \/ IoCall(t, op, c)
         \/ SendtoWithAddress(t, c)
         \/ RecvfromBadBuffer(t, c)
  PROVE  CallStep(t)
<1>1. /\ MayUse(t, c) /\ UNCHANGED lists /\ op \in ApiCalls \cup {"none"}
      /\ op \notin {"socket", "close"}
  BY DEF IoCall, SendtoWithAddress, RecvfromBadBuffer, IoCalls, ApiCalls, Requests
<1>2. thr[t].conn \in {NoConn, c} /\ Left(t, c, conn, FALSE) /\ MayBeIn(t, c, op)
  BY <1>1, UseFacts
<1>3. CASE \E o, val : Finish(t, o, c, val, conn)
  BY <1>1, <1>2, <1>3, FinishStep
<1>4. ASSUME NEW nonblock \in NonBlock, IoLoop(t, op, c, nonblock, conn)
      PROVE  CallStep(t)
  <2>1. nonblock \in BOOLEAN
    BY UsrsockAssumption DEF UsrsockAssumption
  <2> QED
    BY <1>1, <1>2, <1>4, <2>1, IoLoopStep
<1> QED
  BY <1>3, <1>4 DEF IoCall, SendtoWithAddress, RecvfromBadBuffer

(* The wait for readiness is over.                                         *)
LEMMA IoReadyStep ==
  ASSUME ConnInv, NEW t \in Threads, IoReady(t)
  PROVE  CallStep(t)
<1> DEFINE c  == thr[t].conn
           op == thr[t].op
           cm == Released(c, t)
<1>1. thr[t].pc # "idle" /\ UNCHANGED lists
  BY DEF IoReady
<1>2. /\ c \in Conns /\ Left(t, c, cm, FALSE) /\ MayBeIn(t, c, op)
      /\ op \in ApiCalls \cup {"none"} /\ thr[t].nonblock \in BOOLEAN
      /\ thr[t].conn \in {NoConn, c}
  BY <1>1, WaitFacts, ConnType DEF ConnInv
<1>3. CASE \E val : Finish(t, op, c, val, cm)
  <2> HIDE DEF c, op, cm
  <2> QED
    BY <1>1, <1>2, <1>3, FinishStep
<1>4. CASE StartRequest(t, op, c, thr[t].nonblock, cm, cm)
  <2> HIDE DEF c, op, cm
  <2> QED
    BY <1>1, <1>2, <1>4, StartStep
<1> QED
  BY <1>3, <1>4 DEF IoReady

(* usrsock_pollsetup.                                                      *)
LEMMA PollsetupStep ==
  ASSUME ConnInv, NEW t \in Threads, NEW c \in Conns, NEW wanted \in PollMasks,
         usrsock_pollsetup(t, c, wanted)
  PROVE  CallStep(t)
<1>1. MayUse(t, c) /\ UNCHANGED lists
  BY DEF usrsock_pollsetup
<1>2. thr[t].conn \in {NoConn, c} /\ Left(t, c, conn, FALSE) /\ MayBeIn(t, c, "poll")
  BY <1>1, UseFacts
<1>3. CASE Finish(t, "poll", c, EBUSY, conn)
  BY <1>1, <1>2, <1>3, FinishStep
<1>4. CASE ~Finish(t, "poll", c, EBUSY, conn)
  <2> DEFINE p  == PollState(conn[c], wanted)
             f  == ExternalEvents \cup {"CONNECT_RESP"}
             r  == [Armed("poll", c, FALSE, f)
                      EXCEPT !.pc = "pollwait", !.events = wanted, !.revents = p]
             cr == SetupCallback(conn[c], t)
  <2>1. r.pc = "pollwait" /\ r.conn = c /\ r.op = "poll"
    BY DEF Armed, IdleThread
  <2>2. conn \in ConnFun /\ conn[c] \in ConnRecords
    BY ConnFacts
  <2>3. /\ cr \in ConnRecords /\ cr.list = <<t>> \o conn[c].list
        /\ cr.crefs = conn[c].crefs /\ cr.state = conn[c].state
    <3>1. cr \in ConnRecords
      BY <2>2, CallbackType
    <3> QED
      BY <2>2, <3>1 DEF SetupCallback, ConnRecords
  <2>4. conn' = [conn EXCEPT ![c] = cr] /\ thr' = [thr EXCEPT ![t] = r]
    BY <1>4, <2>2 DEF usrsock_pollsetup, ConnFun
  <2> HIDE DEF cr, r, p, f
  <2>5. Left(t, c, conn', TRUE)
    BY <1>2, <2>3, <2>4, LeftSetup
  <2>6. thr'[t] = r /\ \A u \in Threads \ {t} : SameCall(thr[u], thr'[u])
    BY <2>4, OthersStay
  <2>7. thr'[t].pc \in WaitPlaces /\ thr'[t].conn = c /\ MayBeIn(t, c, thr'[t].op)
    BY <1>2, <2>1, <2>6 DEF WaitPlaces
  <2> QED
    BY <1>1, <1>2, <2>5, <2>6, <2>7, WaitStep
<1> QED
  BY <1>3, <1>4

(* usrsock_pollteardown, and a connect() that a signal interrupts.         *)
LEMMA PollteardownStep ==
  ASSUME ConnInv, NEW t \in Threads, usrsock_pollteardown(t) \/ ConnectInterrupted(t)
  PROVE  CallStep(t)
<1> DEFINE c  == thr[t].conn
           cm == Released(c, t)
<1>1. thr[t].pc # "idle" /\ UNCHANGED lists
  BY DEF usrsock_pollteardown, ConnectInterrupted
<1>2. c \in Conns /\ Left(t, c, cm, FALSE) /\ thr[t].conn \in {NoConn, c}
  BY <1>1, WaitFacts
<1>3. \E op, val : Finish(t, op, c, val, cm)
  BY DEF usrsock_pollteardown, ConnectInterrupted
<1> HIDE DEF c, cm
<1> QED
  BY <1>1, <1>2, <1>3, FinishStep

(* socket() has its answer: the new socket is the caller's, or the         *)
(* connection is freed.                                                    *)
LEMMA SocketDoneStep ==
  ASSUME ConnInv, NEW t \in Threads, NEW c \in Conns, thr[t].conn = c, SocketDone(t, c)
  PROVE  CallStep(t)
<1>1. Left(t, c, Released(c, t), FALSE) /\ thr[t].op = "socket"
  BY LeftReleased DEF SocketDone
<1>2. CASE FailSocket(t, c, thr[t].result, Released(c, t))
  BY <1>1, <1>2, FailSocketStep
<1>3. ASSUME NEW stream \in StreamTypes, UNCHANGED lists,
             Finish(t, "socket", c, 0,
                    [conn EXCEPT ![c] = [TeardownCallback(@, t) EXCEPT
                       !.stream = stream, !.crefs = 1, !.owner = t]])
      PROVE  CallStep(t)
  <2> DEFINE tc == TeardownCallback(conn[c], t)
             cr == [tc EXCEPT !.stream = stream, !.crefs = 1, !.owner = t]
  <2>1. conn \in ConnFun /\ conn[c] \in ConnRecords /\ stream \in BOOLEAN
    BY ConnFacts, UsrsockAssumption DEF UsrsockAssumption
  <2>2. tc \in ConnRecords
    BY <2>1, CallbackType
  <2>3. ASSUME NEW x \in ConnRecords
        PROVE  LET y == [x EXCEPT !.stream = stream, !.crefs = 1, !.owner = t]
               IN  /\ y \in ConnRecords /\ y.list = x.list /\ y.crefs = 1
                   /\ y.state = x.state
    BY <2>1 DEF ConnRecords
  <2>4. /\ cr \in ConnRecords /\ cr.list = tc.list /\ cr.crefs = 1 /\ cr.state = tc.state
    <3> HIDE DEF tc
    <3> QED
      BY <2>2, <2>3
  <2>5. Released(c, t)[c] = tc
    BY <2>1 DEF Released, ConnFun
  <2>6. conn' = [conn EXCEPT ![c] = cr] /\ thr' = [thr EXCEPT ![t] = IdleThread]
    BY <1>3, <2>1 DEF Finish, ConnFun
  <2> HIDE DEF cr, tc
  <2>7. /\ conn' \in ConnFun /\ conn'[c] = cr
        /\ \A d \in Conns \ {c} : conn'[d] = conn[d]
    BY <2>1, <2>4, <2>6 DEF ConnFun
  <2>8. thr'[t] = IdleThread /\ \A u \in Threads \ {t} : SameCall(thr[u], thr'[u])
    BY <2>6, OthersStay
  <2>9. thr'[t].pc = "idle" /\ thr'[t].conn = NoConn
    BY <2>8 DEF IdleThread
  <2>10. LeftList(t, c, conn', FALSE)
    BY <1>1, <2>4, <2>5, <2>7 DEF Left, LeftList
  <2>11. Makes(t, c)
    <3>1. conn'[c].crefs > 0
      BY <2>4, <2>7
    <3> QED
      BY <1>1, <1>3, <2>9, <2>10, <3>1, Zenon DEF Makes
  <2>12. Moves(t, c)
    BY <2>8, <2>9 DEF Moves
  <2> QED
    BY <2>11, <2>12 DEF CallStep
<1> QED
  BY <1>2, <1>3 DEF SocketDone

(* A completed request.                                                    *)
LEMMA RequestDoneStep ==
  ASSUME ConnInv, NEW t \in Threads, RequestDone(t)
  PROVE  CallStep(t)
<1> DEFINE c  == thr[t].conn
           op == thr[t].op
           cm == Released(c, t)
<1>1. /\ c \in Conns /\ Left(t, c, cm, FALSE) /\ MayBeIn(t, c, op)
      /\ op \in ApiCalls \cup {"none"} /\ thr[t].nonblock \in BOOLEAN
      /\ thr[t].conn \in {NoConn, c}
  BY WaitFacts, ConnType DEF RequestDone, ConnInv
<1>2. CASE SocketDone(t, c)
  BY <1>1, <1>2, SocketDoneStep
<1>3. CASE CloseDone(t, c)
  <2>1. CloseOut(t, c, cm) /\ UNCHANGED lists /\ op = "close"
    BY <1>3 DEF CloseDone
  <2>2. MayBeIn(t, c, "close")
    BY <1>1, <2>1
  <2> HIDE DEF c, cm, op
  <2> QED
    BY <1>1, <2>1, <2>2, CloseOutStep
<1>4. CASE SimpleDone(t, c) \/ ConnectDone(t, c)
  <2>1. PICK o, val : \/ Finish(t, o, c, val, cm)
                      \/ Finish(t, o, c, val, WithoutData(c, o, cm))
    BY <1>4 DEF SimpleDone, ConnectDone
  <2>2. UNCHANGED lists
    BY <1>4 DEF SimpleDone, ConnectDone
  <2> HIDE DEF c, cm
  <2>3. Left(t, c, WithoutData(c, o, cm), FALSE)
    BY <1>1, LeftWithoutData
  <2> QED
    BY <1>1, <2>1, <2>2, <2>3, FinishStep
<1>5. CASE IoDone(t, c)
  <2> DEFINE cw == WithoutData(c, op, cm)
  <2>1. Left(t, c, cw, FALSE)
    <3> HIDE DEF c, cm, op
    <3> QED
      BY <1>1, LeftWithoutData
  <2>2. /\ UNCHANGED lists
        /\ (\E val : Finish(t, op, c, val, cw)) \/ IoLoop(t, op, c, thr[t].nonblock, cw)
    BY <1>5 DEF IoDone
  <2> HIDE DEF c, cm, op, cw
  <2> QED
    BY <1>1, <2>1, <2>2, FinishStep, IoLoopStep
<1> QED
  BY <1>2, <1>3, <1>4, <1>5 DEF RequestDone

(* Giving the semaphore of the line to a waiter leaves everybody in the    *)
(* call it is in.                                                          *)
LEMMA SemgiveCalls ==
  ASSUME NEW th \in [Threads -> ThreadRecords], NEW dv, NEW dm,
         usrsockdev_semgive(th, dv, dm)
  PROVE  \A u \in Threads : /\ SameCall(th[u], thr'[u])
                            /\ th[u].pc # "reqwait" => thr'[u] = th[u]
<1>1. CASE thr' = th
  BY <1>1 DEF SameCall
<1>2. ASSUME NEW v \in Threads, th[v].pc = "reqwait",
             thr' = [th EXCEPT ![v].pc = "linegot"]
      PROVE  \A u \in Threads : /\ SameCall(th[u], thr'[u])
                                /\ th[u].pc # "reqwait" => thr'[u] = th[u]
  <2>1. \A u \in Threads \ {v} : thr'[u] = th[u]
    BY <1>2
  <2>2. th[v] \in ThreadRecords /\ thr'[v] = [th[v] EXCEPT !.pc = "linegot"]
    BY <1>2
  <2>3. SameCall(th[v], thr'[v])
    BY <1>2, <2>2 DEF SameCall, WaitPlaces, ThreadRecords
  <2> QED
    BY <1>2, <2>1, <2>3 DEF SameCall
<1> QED
  BY <1>1, <1>2 DEF usrsockdev_semgive

(* usrsockdev_do_request returns: the call waits on, or connect() does.    *)
LEMMA AfterRequestStep ==
  ASSUME ConnInv, NEW t \in Threads, thr[t].pc \in {"linegot", "ackwait"}, NEW dv,
         AfterRequest(t, dv), UNCHANGED lists
  PROVE  CallStep(t) \/ Undisturbed
<1> DEFINE c     == thr[t].conn
           early == thr[t].op = "connect" /\ conn[c].inprogress /\ thr[t].nonblock
           r     == IF early THEN IdleThread ELSE [thr[t] EXCEPT !.pc = "respwait"]
           th    == [thr EXCEPT ![t] = r]
<1>1. /\ thr \in [Threads -> ThreadRecords] /\ thr[t] \in ThreadRecords
      /\ c \in Conns /\ Left(t, c, Released(c, t), FALSE)
  BY ConnFacts, WaitFacts
<1>2. /\ conn' = IF early THEN Released(c, t) ELSE conn
      /\ \E d : usrsockdev_semgive(th, d, dmn)
  BY <1>1 DEF AfterRequest
<1>3. r \in ThreadRecords /\ r.pc # "reqwait"
  <2>1. [thr[t] EXCEPT !.pc = "respwait"] \in ThreadRecords
        /\ [thr[t] EXCEPT !.pc = "respwait"].pc = "respwait"
    BY <1>1 DEF ThreadRecords, Places
  <2>2. IdleThread \in ThreadRecords /\ IdleThread.pc = "idle"
    BY ConstantTypes DEF IdleThread
  <2> QED
    BY <2>1, <2>2
<1>4. /\ th \in [Threads -> ThreadRecords] /\ th[t] = r
      /\ \A u \in Threads \ {t} : th[u] = thr[u]
  <2> HIDE DEF r
  <2> QED
    BY <1>1, <1>3
<1>5. /\ thr'[t] = r
      /\ \A u \in Threads \ {t} : SameCall(thr[u], thr'[u])
  <2> HIDE DEF r, th
  <2> QED
    BY <1>2, <1>3, <1>4, SemgiveCalls
<1>6. CASE early
  <2>1. thr'[t] = IdleThread /\ conn' = Released(c, t) /\ thr[t].conn \in {NoConn, c}
    BY <1>2, <1>5, <1>6
  <2> HIDE DEF c
  <2> QED
    BY <1>1, <1>5, <2>1, ReturnStep
<1>7. CASE ~early
  <2>1. conn' = conn /\ thr'[t] = [thr[t] EXCEPT !.pc = "respwait"]
    BY <1>2, <1>5, <1>7
  <2>2. SameCall(thr[t], thr'[t])
    BY <1>1, <2>1 DEF SameCall, WaitPlaces, ThreadRecords
  <2> QED
    BY <1>5, <2>1, <2>2 DEF Undisturbed, StateRaised
<1> QED
  BY <1>6, <1>7

(* The steps on the request line.                                          *)
LEMMA LineStep ==
  ASSUME ConnInv, NEW t \in Threads, TakeLine(t) \/ LeaveLine(t) \/ net_timedwait(t)
  PROVE  CallStep(t) \/ Undisturbed
<1>1. thr \in [Threads -> ThreadRecords] /\ thr[t] \in ThreadRecords
  BY ConnFacts
<1>2. CASE LeaveLine(t)
  BY <1>2, AfterRequestStep DEF LeaveLine
<1>3. CASE TakeLine(t) /\ ~usrsockdev_is_opened
  BY <1>3, AfterRequestStep DEF TakeLine
<1>4. CASE TakeLine(t) /\ usrsockdev_is_opened
  <2>1. thr' = [thr EXCEPT ![t].pc = "ackwait"] /\ UNCHANGED <<conn, lists>>
        /\ thr[t].pc = "linegot"
    BY <1>4 DEF TakeLine
  <2>2. SameCall(thr[t], thr'[t]) /\ \A u \in Threads \ {t} : SameCall(thr[u], thr'[u])
    BY <1>1, <2>1 DEF SameCall, WaitPlaces, ThreadRecords
  <2> QED
    BY <2>1, <2>2 DEF Undisturbed, StateRaised
<1>5. CASE net_timedwait(t)
  <2>1. PICK how : thr' = [thr EXCEPT ![t].wake = how]
    BY <1>5 DEF net_timedwait
  <2>2. SameCall(thr[t], thr'[t]) /\ \A u \in Threads \ {t} : SameCall(thr[u], thr'[u])
    BY <1>1, <2>1 DEF SameCall, ThreadRecords
  <2>3. UNCHANGED <<conn, lists>>
    BY <1>5 DEF net_timedwait
  <2> QED
    BY <2>2, <2>3 DEF Undisturbed, StateRaised
<1> QED
  BY <1>2, <1>3, <1>4, <1>5

(* Every step of a thread is a step of its call, or one that only waits on.*)
LEMMA ThreadStepKinds ==
  ASSUME ConnInv, NEW t \in Threads, ThreadStep(t)
  PROVE  CallStep(t) \/ Undisturbed
<1>1. CASE ApiCall(t)
  <2>1. CASE SocketCall(t)
    BY <2>1, SocketCallStep
  <2>2. ASSUME NEW c \in Conns,
               \/ usrsock_close(t, c)
               \/ net_clone(t, c)
               \/ usrsock_connect(t, c)
               \/ \E wanted \in PollMasks : usrsock_pollsetup(t, c, wanted)
        PROVE  CallStep(t)
    BY <2>2, CloseStep, CloneStep, ConnectStep, PollsetupStep
  <2>3. ASSUME NEW c \in Conns,
               \/ usrsock_bind(t, c)
               \/ usrsock_setsockopt(t, c)
               \/ usrsock_getsockopt(t, c)
               \/ usrsock_getsockname(t, c)
        PROVE  CallStep(t)
    <3>1. {"bind", "setsockopt", "getsockopt", "getsockname"} = SimpleOps
      BY DEF SimpleOps
    <3> QED
      BY <2>3, <3>1, SimpleStep DEF usrsock_bind, usrsock_setsockopt, usrsock_getsockopt,
         usrsock_getsockname
  <2>4. ASSUME NEW c \in Conns, usrsock_sendto(t, c) \/ usrsock_recvfrom(t, c)
        PROVE  CallStep(t)
    <3>1. "sendto" \in IoCalls /\ "recvfrom" \in IoCalls
      BY DEF IoCalls
    <3> QED
      BY <2>4, <3>1, IoCallStep DEF usrsock_sendto, usrsock_recvfrom
  <2> QED
    BY <1>1, <2>1, <2>2, <2>3, <2>4 DEF ApiCall
<1>2. CASE ApiContinue(t)
  BY <1>2, SocketStep, PsockCloseStep, LineStep, RequestDoneStep, PollteardownStep,
     IoReadyStep DEF ApiContinue
<1>3. CASE net_timedwait(t)
  BY <1>3, LineStep
<1> QED
  BY <1>1, <1>2, <1>3 DEF ThreadStep

-----------------------------------------------------------------------------
(* Every step of the daemon                                                *)

(* usrsock_event leaves the lists alone, and everybody in the call he is   *)
(* in. cr is the connection the event finds; only the answer to a request  *)
(* makes a socket, and only one that a socket() call is waiting for.       *)
LEMMA EventStep ==
  ASSUME ConnInv, NEW c \in Conns, NEW cr \in ConnRecords, cr.list = conn[c].list,
         cr.crefs = conn[c].crefs, cr.state = conn[c].state, NEW ev \in SUBSET Events,
         "REQ_COMPLETE" \in ev => dmn.pc = "open",
         usrsock_event(c, cr, ev), UNCHANGED lists
  PROVE  /\ Undisturbed
         /\ "ABORT" \in ev /\ "REQ_COMPLETE" \notin ev => conn'[c].state = "ABORTED"
         /\ \A d \in Conns \ {c} : conn'[d] = conn[d]
<1> DEFINE upd  == StateUpdate(cr, ev)
           cbs  == EventsToCallbacks(cr, ev)
           born == SocketBorn(upd, thr, cbs)
           new  == HandlerEffects(upd, thr, cbs)
<1>1. conn' = [conn EXCEPT ![c] = new] /\ thr' = devif_callback_execute(upd, thr, cbs)
  BY DEF usrsock_event
<1>2. upd \in ConnRecords /\ "REQ_COMPLETE" \in cbs => "REQ_COMPLETE" \in ev
  BY StateUpdateType DEF EventsToCallbacks
<1>3. /\ upd.list = conn[c].list /\ upd.crefs = conn[c].crefs
      /\ upd.state \in {conn[c].state, "ABORTED", "READY"}
      /\ upd.state = "READY" => conn[c].state \in {"READY", "CONNECTING"}
      /\ "ABORT" \in ev => upd.state = "ABORTED"
  BY DEF StateUpdate, IsConnectResponse, ConnRecords
<1>4. upd \in ConnRecords
  BY StateUpdateType
<1> HIDE DEF upd
<1>5. /\ new.list = upd.list /\ new.crefs = upd.crefs
      /\ new.state = IF born THEN "READY" ELSE upd.state
  BY <1>4 DEF HandlerEffects, ConnRecords
<1>6. ASSUME born
      PROVE  /\ "REQ_COMPLETE" \in ev
             /\ \E t \in Threads : thr[t].conn = c /\ thr[t].op = "socket"
  <2>1. PICK t \in Fired(upd.list, thr, cbs) : thr[t].op = "socket"
    BY <1>6 DEF SocketBorn, Completes
  <2>2. "REQ_COMPLETE" \in ev
    BY <1>6 DEF SocketBorn, Completes, EventsToCallbacks
  <2>3. PICK i \in 1 .. Len(conn[c].list) : t = conn[c].list[i]
    BY <1>3 DEF Fired
  <2>4. conn[c].list \in Seq(Threads)
    BY ConnFacts
  <2>5. t \in Threads /\ t \in Range(conn[c].list)
    BY <2>3, <2>4, ElementOfSeq, LenProperties DEF Range
  <2> QED
    BY <2>1, <2>2, <2>5 DEF ConnInv, CallbackInv
<1> HIDE DEF new, born, cbs
<1>7. conn'[c] = new /\ \A d \in Conns \ {c} : conn'[d] = conn[d]
  BY <1>1, ConnFacts DEF ConnFun
<1>8. StateRaised(c)
  BY <1>3, <1>5, <1>6, <1>7 DEF StateRaised
<1>9. \A d \in Conns \ {c} : StateRaised(d)
  BY <1>7 DEF StateRaised
<1>10. \A u \in Threads : SameCall(thr[u], thr'[u])
  BY <1>1, <1>4, ConnFacts, ExecuteType DEF SamePlace, SameCall
<1>11. Undisturbed
  BY <1>3, <1>5, <1>7, <1>8, <1>9, <1>10 DEF Undisturbed
<1> QED
  BY <1>3, <1>5, <1>6, <1>7, <1>11

(* A step that leaves calls, lists, reference counts and states alone.     *)
LEMMA QuietStep ==
  ASSUME ConnInv, \A u \in Threads : SameCall(thr[u], thr'[u]), UNCHANGED lists,
         \A c \in Conns : /\ conn'[c].list = conn[c].list
                          /\ conn'[c].crefs = conn[c].crefs
                          /\ conn'[c].state = conn[c].state
  PROVE  Undisturbed
BY DEF Undisturbed, StateRaised

(* Responses.                                                              *)
LEMMA ResponseStep ==
  ASSUME ConnInv, NEW r \in dmn.pend, DaemonRuns, UNCHANGED lists,
         RespondInProgress(r) \/ RespondFinally(r)
  PROVE  Undisturbed
<1> DEFINE c == WaitingConn(r.xid)
<1>1. /\ dmn.pc = "open" /\ r \in PendingRequests /\ c \in {NoConn} \cup Conns
      /\ {"REQ_COMPLETE"} \in SUBSET Events /\ Inv
  BY DevUnchanged, WaitingConnType DEF DmnRecords, DaemonRuns, ConnInv, Events, InternalEvents
<1>2. CASE UNCHANGED <<conn, thr>>
  BY <1>2, QuietStep DEF SameCall
<1>3. ASSUME c \in Conns, NEW cr \in ConnRecords, cr.list = conn[c].list,
             cr.crefs = conn[c].crefs, cr.state = conn[c].state, thr' = thr,
             conn' = [conn EXCEPT ![c] = cr]
      PROVE  Undisturbed
  <2> HIDE DEF c
  <2> QED
    BY <1>3, ConnFacts, QuietStep DEF SameCall, ConnFun
<1>4. CASE RespondInProgress(r) /\ c # NoConn
  <2> DEFINE cr == [conn[c] EXCEPT !.inprogress = TRUE]
  <2>1. c \in Conns
    BY <1>1, <1>4
  <2>2. /\ cr \in ConnRecords /\ cr.list = conn[c].list
        /\ cr.crefs = conn[c].crefs /\ cr.state = conn[c].state
    <3>1. conn[c] \in ConnRecords
      BY <2>1, ConnFacts
    <3> HIDE DEF c
    <3> QED
      BY <3>1 DEF ConnRecords
  <2>3. conn' = [conn EXCEPT ![c] = cr] /\ thr' = thr
    BY <1>4, <2>1, ConnFacts DEF RespondInProgress, ConnFun
  <2> HIDE DEF c, cr
  <2> QED
    BY <1>3, <2>1, <2>2, <2>3
<1>5. CASE RespondFinally(r) /\ c # NoConn
  <2>1. PICK result \in Answers(r), fits \in {TRUE, ~FaultyDaemon} :
          \/ usrsockdev_handle_response(c, r, result)
          \/ usrsockdev_handle_datareq_response(c, r, result, fits)
    BY <1>5 DEF RespondFinally
  <2> DEFINE cr == Answered(conn[c], r, result)
  <2>2. c \in Conns /\ conn[c] \in ConnRecords /\ result \in Int
    BY <1>1, <1>5, ConnFacts, DaemonAfterType
  <2>3. /\ cr \in ConnRecords /\ cr.list = conn[c].list
        /\ cr.crefs = conn[c].crefs /\ cr.state = conn[c].state
    <3> HIDE DEF c
    <3>1. cr \in ConnRecords
      BY <1>1, <2>2, AnsweredType
    <3> QED
      BY <2>2, <3>1 DEF Answered, ConnRecords
  <2>4. \/ usrsock_event(c, cr, {"REQ_COMPLETE"})
        \/ conn' = [conn EXCEPT ![c] = cr] /\ thr' = thr
    BY <2>1 DEF usrsockdev_handle_response, usrsockdev_handle_datareq_response
  <2> HIDE DEF c, cr
  <2> QED
    BY <1>1, <1>3, <2>2, <2>3, <2>4, EventStep
<1>6. CASE c = NoConn
  BY <1>2, <1>6 DEF RespondInProgress, RespondFinally
<1> QED
  BY <1>4, <1>5, <1>6

(* The write of the data of a response.                                    *)
LEMMA WriteStep ==
  ASSUME ConnInv, usrsockdev_write
  PROVE  Undisturbed
<1> DEFINE c  == dev.datain
           cr == IF conn[c].datain = NoThread THEN [conn[c] EXCEPT !.result = EINVAL]
                 ELSE conn[c]
<1>1. /\ dmn.pc = "open" /\ c \in Conns /\ UNCHANGED lists
      /\ usrsock_event(c, cr, {"REQ_COMPLETE"}) /\ {"REQ_COMPLETE"} \in SUBSET Events
  BY DevUnchanged DEF usrsockdev_write, WriteData, DaemonRuns, DevRecords, ConnInv, Events,
     InternalEvents
<1>2. /\ cr \in ConnRecords /\ cr.list = conn[c].list
      /\ cr.crefs = conn[c].crefs /\ cr.state = conn[c].state
  <2>1. ASSUME NEW x \in ConnRecords, NEW e \in Int
        PROVE  LET y == [x EXCEPT !.result = e]
               IN  /\ y \in ConnRecords /\ y.list = x.list
                   /\ y.crefs = x.crefs /\ y.state = x.state
    BY DEF ConnRecords
  <2>2. conn[c] \in ConnRecords /\ EINVAL \in Int
    BY <1>1, ConnFacts, ErrnoTypes
  <2> QED
    BY <2>1, <2>2
<1> HIDE DEF c, cr
<1> QED
  BY <1>1, <1>2, EventStep

(* One connection of the walk of usrsockdev_close.                         *)
LEMMA AbortStep ==
  ASSUME ConnInv, CloseAbort
  PROVE  /\ Undisturbed
         /\ conn'[dmn.conn].state = "ABORTED"
         /\ \A d \in Conns \ {dmn.conn} : conn'[d] = conn[d]
<1> DEFINE c  == dmn.conn
           cr == [conn[c] EXCEPT !.inprogress = FALSE, !.xid = 0]
<1>1. /\ c \in Conns /\ UNCHANGED lists /\ usrsock_event(c, cr, {"ABORT"})
      /\ {"ABORT"} \in SUBSET Events
  BY DevUnchanged DEF CloseAbort, DmnRecords, ConnInv, Events, ExternalEvents
<1>2. conn[c] \in ConnRecords
  BY <1>1, ConnFacts
<1>3. /\ cr \in ConnRecords /\ cr.list = conn[c].list
      /\ cr.crefs = conn[c].crefs /\ cr.state = conn[c].state
  <2> HIDE DEF c
  <2> QED
    BY <1>2 DEF ConnRecords
<1>4. "REQ_COMPLETE" \notin {"ABORT"} /\ "ABORT" \in {"ABORT"}
  OBVIOUS
<1> QED
  <2> HIDE DEF cr
  <2> QED
    BY <1>1, <1>3, <1>4, EventStep

(* The daemon's event message.                                             *)
LEMMA DeliverStep ==
  ASSUME ConnInv, DeliverEvent
  PROVE  Undisturbed
<1>1. /\ dmn.conn \in Conns /\ UNCHANGED lists
      /\ usrsock_event(dmn.conn, conn[dmn.conn], dmn.ev)
      /\ dmn.ev \in SUBSET ExternalEvents
  BY DevUnchanged DEF DeliverEvent, DmnRecords, ConnInv, Inv, PlaceInv
<1>2. dmn.ev \in SUBSET Events /\ "REQ_COMPLETE" \notin dmn.ev
  BY <1>1 DEF Events, ExternalEvents, DataEvents
<1> QED
  BY <1>1, <1>2, EventStep, ConnFacts

(* The end of usrsockdev_close.                                            *)
LEMMA CloseLoopStep ==
  ASSUME ConnInv, CloseEnd \/ CloseLoop
  PROVE  Undisturbed
<1>1. UNCHANGED <<conn, lists>> /\ thr \in [Threads -> ThreadRecords]
  BY ConnFacts DEF CloseEnd, CloseLoop
<1>2. CASE thr' = thr
  BY <1>1, <1>2, QuietStep DEF SameCall
<1>3. CASE \E dv, dm : usrsockdev_semgive(thr, dv, dm)
  BY <1>1, <1>3, SemgiveCalls, QuietStep
<1>4. ASSUME NEW u \in Threads, thr[u].pc = "reqwait",
             thr' = [thr EXCEPT ![u].pc = "linegot"]
      PROVE  Undisturbed
  <2>1. thr[u] \in ThreadRecords
    BY <1>1
  <2>2. SameCall(thr[u], thr'[u]) /\ \A v \in Threads \ {u} : SameCall(thr[v], thr'[v])
    BY <1>1, <1>4, <2>1 DEF SameCall, WaitPlaces, ThreadRecords
  <2> QED
    BY <1>1, <2>2, QuietStep
<1> QED
  BY <1>2, <1>3, <1>4 DEF CloseEnd, CloseLoop

(* Every step of the daemon leaves lists and calls undisturbed.            *)
LEMMA DaemonStepKinds ==
  ASSUME ConnInv, DaemonStep
  PROVE  Undisturbed
<1>1. CASE \/ usrsockdev_open \/ PollSetup \/ PollTeardown \/ usrsockdev_read
           \/ usrsockdev_handle_event \/ CloseBegin \/ CloseNext \/ CloseDown
           \/ CloseTimeout
  <2>1. UNCHANGED <<conn, lists, thr>>
    BY <1>1 DEF usrsockdev_open, PollSetup, PollTeardown, usrsockdev_read,
       usrsockdev_handle_event, CloseBegin, CloseNext, CloseDown, CloseTimeout
  <2> QED
    BY <2>1, QuietStep DEF SameCall
<1>2. CASE \E t \in Threads : usrsockdev_handle_req_response(t)
  BY <1>2, ResponseStep DEF usrsockdev_handle_req_response
<1> QED
  BY <1>1, <1>2, WriteStep, AbortStep, DeliverStep, CloseLoopStep DEF DaemonStep

-----------------------------------------------------------------------------
(* The theorems                                                            *)

(* usrsock_initialize puts every connection in the free list.              *)
LEMMA InitConnInv == Init => ConnInv
<1> SUFFICES ASSUME Init PROVE ConnInv
  OBVIOUS
<1>1. Inv
  BY InitInv
<1>2. \A t \in Threads : thr[t].pc = "idle" /\ thr[t].conn = NoConn
  BY DEF Init, IdleThread
<1>3. \A c \in Conns : conn[c].crefs = 0 /\ conn[c].list = << >>
  BY DEF Init, usrsock_initialize, ClearedConn
<1>4. active = << >> /\ Range(active) = {} /\ Distinct(active)
  BY EmptyList DEF Init, usrsock_initialize
<1>5. Range(free) = Conns /\ Distinct(free)
  <2>1. free \in Seq(Conns) /\ free = [i \in Conns |-> i]
    BY <1>1 DEF Inv, TypeOK, Init, usrsock_initialize
  <2>2. DOMAIN free = Conns /\ DOMAIN free = 1 .. Len(free)
    BY <2>1, LenProperties
  <2>3. \A i \in Conns : free[i] = i
    BY <2>1
  <2> QED
    BY <2>2, <2>3 DEF Range, Distinct
<1>6. OwnInv
  BY <1>2 DEF OwnInv
<1>7. ListInv
  BY <1>2, <1>3, <1>4, <1>5 DEF ListInv
<1>8. CallbackInv
  BY <1>2, <1>3, EmptyList DEF CallbackInv, WaitPlaces
<1> QED
  BY <1>1, <1>6, <1>7, <1>8 DEF ConnInv

(* Every step of the system is a step of a call or leaves the calls        *)
(* undisturbed.                                                            *)
LEMMA NextKinds ==
  ASSUME ConnInv, Next
  PROVE  Undisturbed \/ \E t \in Threads : CallStep(t)
BY DaemonStepKinds, ThreadStepKinds DEF Next

(* The invariant of the lists is inductive.                                *)
LEMMA NextConnInv == ConnInv /\ [Next]_vars => ConnInv'
<1> SUFFICES ASSUME ConnInv, [Next]_vars PROVE ConnInv'
  OBVIOUS
<1>1. Inv'
  BY NextInv DEF ConnInv
<1>2. CASE Next
  BY <1>1, <1>2, NextKinds, CallStepKeeps, UndisturbedKeeps
<1>3. CASE UNCHANGED vars
  <2>1. Undisturbed
    BY <1>3 DEF vars, lists, Undisturbed, SameCall, StateRaised
  <2> QED
    BY <1>1, <2>1, UndisturbedKeeps
<1> QED
  BY <1>2, <1>3

(* Every reachable state satisfies it.                                     *)
LEMMA SpecConnInv == Spec => []ConnInv
<1> QED
  BY InitConnInv, NextConnInv, PTL DEF Spec

(* The two invariants in the words of the properties.                      *)
LEMMA ConnInvLists == ConnInv => ConnLists /\ CallbackLists
<1> SUFFICES ASSUME ConnInv PROVE ConnLists /\ CallbackLists
  OBVIOUS
<1>1. active \in Seq(Conns) /\ free \in Seq(Conns)
  BY ConnFacts
<1>2. ConnLists
  <2>1. IsInjective(active \o free) /\ Range(active \o free) = Conns
    BY <1>1, ConcatList DEF ConnInv, ListInv
  <2>2. ASSUME NEW e PROVE Contains(active, e) <=> e \in Range(active)
    BY <1>1, ContainsRange
  <2> QED
    BY <2>1, <2>2 DEF ConnLists, ConnInv, ListInv
<1>3. CallbackLists
  <2>1. ASSUME NEW t \in Threads, NEW c \in Conns
        PROVE  /\ Contains(conn[c].list, t) <=> thr[t].conn = c /\ thr[t].pc \in WaitPlaces
               /\ Distinct(conn[c].list)
    <3>1. conn[c].list \in Seq(Threads)
      BY ConnFacts
    <3> QED
      BY <3>1, ContainsRange DEF ConnInv, CallbackInv
  <2> QED
    BY <2>1 DEF CallbackLists, WaitPlaces, Distinct
<1> QED
  BY <1>2, <1>3

(* usrsock_alloc and usrsock_free keep every connection structure in       *)
(* exactly one of the two lists, and every open socket and every           *)
(* connection a call works on in the active one, for any number of         *)
(* connections, threads and callbacks, with a daemon that may die and come *)
(* back at any time.                                                       *)
THEOREM ConnListsCorrect == Spec => []ConnLists
<1> QED
  BY SpecConnInv, ConnInvLists, PTL

(* usrsock_setup_request_callback and usrsock_teardown_request_callback    *)
(* are paired on every way through every call: a thread's callback is in   *)
(* the list of the connection it waits on, once, and nowhere else.         *)
THEOREM CallbackListsCorrect == Spec => []CallbackLists
<1> QED
  BY SpecConnInv, ConnInvLists, PTL

(* No step makes a socket usable again that was aborted: a late response   *)
(* is delivered by usrsock_event, which makes READY only a connection that *)
(* connect() marked or that socket() is still making.                      *)
THEOREM AbortFinalCorrect == Spec => AbortIsFinal
<1>1. ASSUME ConnInv, [Next]_vars, NEW c \in Conns, conn[c].crefs > 0,
             conn[c].state = "ABORTED"
      PROVE  conn'[c].state \in {"ABORTED", "UNINITIALIZED"}
  <2>1. CASE UNCHANGED vars
    BY <1>1, <2>1 DEF vars
  <2>2. CASE Undisturbed
    <3>1. \A t \in Threads : ~(thr[t].conn = c /\ thr[t].op = "socket")
      BY <1>1, NoConnFacts DEF ConnInv, OwnInv
    <3>2. StateRaised(c)
      BY <2>2 DEF Undisturbed
    <3> QED
      BY <1>1, <3>1, <3>2 DEF StateRaised
  <2>3. ASSUME NEW t \in Threads, CallStep(t)
        PROVE  conn'[c].state \in {"ABORTED", "UNINITIALIZED"}
    <3>1. PICK d \in Conns : \/ GoesOn(t, d) \/ Makes(t, d)
                             \/ Allocates(t, d) \/ Frees(t, d)
      BY <2>3 DEF CallStep
    <3>2. CASE GoesOn(t, d) \/ Makes(t, d)
      <4>1. /\ \A e \in Conns \ {d} : conn'[e] = conn[e]
            /\ StateKept(conn[d].state, conn'[d].state)
        BY <3>2 DEF GoesOn, Makes, LeftList
      <4> QED
        BY <1>1, <4>1 DEF StateKept
    <3>3. CASE Allocates(t, d) \/ Frees(t, d)
      <4>1. /\ \A e \in Conns \ {d} : conn'[e] = conn[e]
            /\ conn'[d] = ClearedConn
        BY <1>1, <3>3, ConnFacts DEF Allocates, usrsock_alloc, Frees, ConnFun
      <4>2. ClearedConn.state = "UNINITIALIZED"
        BY DEF ClearedConn
      <4> QED
        BY <1>1, <4>1, <4>2
    <3> QED
      BY <3>1, <3>2, <3>3
  <2> QED
    BY <1>1, <2>1, <2>2, <2>3, NextKinds
<1>2. ConnInv /\ [Next]_vars =>
        [\A c \in Conns :
           (conn[c].crefs > 0 /\ conn[c].state = "ABORTED") =>
             conn'[c].state \in {"ABORTED", "UNINITIALIZED"}]_vars
  BY <1>1
<1> QED
  BY <1>2, SpecConnInv, PTL DEF Spec, AbortIsFinal

-----------------------------------------------------------------------------
(* The walk of usrsockdev_close                                            *)

Live(c) == conn[c].state \in {"READY", "CONNECTING"}

(* No connection in the free list is usable. The walk over the active list *)
(* has left every connection before the place it has come to aborted, and  *)
(* when it has come to the end, all of them; the device is closed only     *)
(* after that.                                                             *)
WalkInv ==
  /\ \A c \in Range(free) : ~Live(c)
  /\ \/ dmn.pc \in {"closed", "wait", "got", "late"}
     \/ dmn.pc \in {"walk", "step"} /\ dmn.conn = NoConn
     => \A c \in Conns : ~Live(c)
  /\ dmn.pc \in {"walk", "step"} /\ dmn.conn # NoConn =>
       \E k \in 1 .. Len(active) :
         /\ active[k] = dmn.conn
         /\ \A i \in 1 .. (k - 1) : ~Live(active[i])
         /\ dmn.pc = "step" => ~Live(active[k])

(* What a step can do about usable connections: only an open daemon makes  *)
(* one, for a socket() call that waits for it.                             *)
LEMMA LiveStep ==
  ASSUME ConnInv, NEW c \in Conns, Undisturbed \/ \E t \in Threads : CallStep(t), Live(c)'
  PROVE  Live(c) \/ (dmn.pc = "open" /\ \E t \in Threads : thr[t].conn = c)
<1>1. CASE Undisturbed
  BY <1>1 DEF Undisturbed, StateRaised, Live
<1>2. ASSUME NEW t \in Threads, CallStep(t)
      PROVE  Live(c)
  <2>1. PICK d \in Conns : \/ GoesOn(t, d) \/ Makes(t, d)
                           \/ Allocates(t, d) \/ Frees(t, d)
    BY <1>2 DEF CallStep
  <2>2. CASE GoesOn(t, d) \/ Makes(t, d)
    <3>1. /\ \A e \in Conns \ {d} : conn'[e] = conn[e]
          /\ StateKept(conn[d].state, conn'[d].state)
      BY <2>2 DEF GoesOn, Makes, LeftList
    <3> QED
      BY <3>1 DEF StateKept, Live
  <2>3. CASE Allocates(t, d) \/ Frees(t, d)
    <3>1. /\ \A e \in Conns \ {d} : conn'[e] = conn[e]
          /\ conn'[d] = ClearedConn
      BY <2>3, ConnFacts DEF Allocates, usrsock_alloc, Frees, ConnFun
    <3>2. ClearedConn.state = "UNINITIALIZED"
      BY DEF ClearedConn
    <3> QED
      BY <3>1, <3>2 DEF Live
  <2> QED
    BY <2>1, <2>2, <2>3
<1> QED
  BY <1>1, <1>2

(* No connection in the free list becomes usable there.                    *)
LEMMA FreeStep ==
  ASSUME ConnInv, Undisturbed \/ \E t \in Threads : CallStep(t),
         \A c \in Range(free) : ~Live(c)
  PROVE  \A c \in Range(free') : ~Live(c)'
<1> SUFFICES ASSUME NEW c \in Range(free'), Live(c)' PROVE FALSE
  OBVIOUS
<1>1. ASSUME c \in Range(free) PROVE FALSE
  <2>1. c \in Conns /\ ~Live(c) /\ \A t \in Threads : thr[t].conn # c
    BY <1>1, NoConnFacts DEF ConnInv, ListInv
  <2> QED
    BY <2>1, LiveStep
<1>2. CASE free' = free
  BY <1>1, <1>2
<1>3. ASSUME NEW t \in Threads, NEW d \in Conns, Allocates(t, d) PROVE FALSE
  <2>1. Range(free') = Range(free) \ {Head(free)}
    BY <1>3, TailList, ConnFacts DEF Allocates, usrsock_alloc, ConnInv, ListInv
  <2> QED
    BY <1>1, <2>1
<1>4. ASSUME NEW t \in Threads, NEW d \in Conns, Frees(t, d) PROVE FALSE
  <2>1. Range(free') = Range(free) \cup {d}
    BY <1>4, AppendList, ConnFacts DEF Frees
  <2>2. ~Live(d)'
    BY <1>4 DEF Frees, ClearedConn, Live
  <2> QED
    BY <1>1, <2>1, <2>2
<1> QED
  BY <1>2, <1>3, <1>4 DEF Undisturbed, CallStep, GoesOn, Makes, lists

(* None of the steps of a thread makes a connection usable, and unless it  *)
(* frees the connection the walk stands on, the walk keeps its place: what *)
(* a thread adds comes last, and what it takes away leaves the others in   *)
(* their order.                                                            *)
LEMMA ThreadWalk ==
  ASSUME ConnInv, WalkInv, NEW t \in Threads, ThreadStep(t), ~LosesPlace
  PROVE  WalkInv'
<1>1. CallStep(t) \/ Undisturbed
  BY ThreadStepKinds
<1>2. dmn' = dmn \/ (dmn.pc = "wait" /\ dmn'.pc = "got")
  BY ThreadLeavesDaemon DEF ConnInv
<1>3. \A c \in Range(free') : ~Live(c)'
  BY <1>1, FreeStep DEF WalkInv
<1>4. ASSUME NEW c \in Conns, ~Live(c), dmn.pc # "open" PROVE ~Live(c)'
  BY <1>1, <1>4, LiveStep
<1> DEFINE Place == \E k \in 1 .. Len(active') :
                      /\ active'[k] = dmn.conn
                      /\ \A i \in 1 .. (k - 1) : ~Live(active[i])'
                      /\ dmn.pc = "step" => ~Live(active[k])'
<1>5. ASSUME dmn.pc \in {"walk", "step"}, dmn.conn # NoConn
      PROVE  dmn' = dmn /\ Place
  <2>1. dmn' = dmn
    BY <1>2, <1>5
  <2>2. PICK k \in 1 .. Len(active) :
          /\ active[k] = dmn.conn
          /\ \A i \in 1 .. (k - 1) : ~Live(active[i])
          /\ dmn.pc = "step" => ~Live(active[k])
    BY <1>5 DEF WalkInv
  <2>3. /\ active \in Seq(Conns) /\ Len(active) \in Nat /\ Distinct(active)
        /\ \A i \in 1 .. Len(active) : active[i] \in Conns
    BY ConnFacts, LenProperties, ElementOfSeq DEF ConnInv, ListInv
  <2>4. Contains(active', dmn.conn)
    BY <1>5, <2>2 DEF LosesPlace, Walking, Contains
  <2>5. \A i \in 1 .. k : active[i] \in Conns
    BY <2>3
  <2>6. dmn.pc = "step" => conn'[active[k]].state \notin {"READY", "CONNECTING"}
    BY <1>4, <1>5, <2>2, <2>5 DEF Live
  <2>7. \A i \in 1 .. (k - 1) : conn'[active[i]].state \notin {"READY", "CONNECTING"}
    <3>1. \A i \in 1 .. (k - 1) : i \in 1 .. k
      BY <2>3
    <3> QED
      BY <1>4, <1>5, <2>2, <2>5, <3>1 DEF Live
  <2>8. CASE active' = active
    BY <2>1, <2>2, <2>6, <2>7, <2>8 DEF Live
  <2>9. ASSUME NEW d \in Conns, Allocates(t, d) PROVE Place
    <3>1. active' = Append(active, d)
      BY <2>9, ConnFacts DEF Allocates, usrsock_alloc
    <3>2. Len(active') = Len(active) + 1 /\ \A i \in 1 .. Len(active) : active'[i] = active[i]
      BY <2>3, <3>1, AppendProperties
    <3>3. k \in 1 .. Len(active') /\ active'[k] = active[k]
          /\ \A i \in 1 .. (k - 1) : active'[i] = active[i]
      BY <2>3, <3>2
    <3> QED
      BY <2>1, <2>2, <2>6, <2>7, <3>3 DEF Live
  <2>10. ASSUME NEW d \in Conns, Frees(t, d) PROVE Place
    <3>1. active' = RemoveFirst(active, d)
      BY <2>10 DEF Frees
    <3>2. PICK m \in 1 .. Len(active') : active'[m] = dmn.conn
      BY <2>4 DEF Contains
    <3>3. ASSUME NEW i \in 1 .. (m - 1) PROVE ~Live(active[i])'
      <4>1. Len(active') \in Nat
        BY <3>1, <2>3, RemoveFirstType, LenProperties
      <4>2. i \in 1 .. Len(active') /\ i < m
        BY <3>2, <4>1
      <4>3. PICK g, h \in 1 .. Len(active) :
              g < h /\ active[g] = active'[i] /\ active[h] = active'[m]
        <5> DEFINE a == RemoveFirst(active, d)
        <5>1. \A x, y \in 1 .. Len(a) :
                x < y => \E g, h \in 1 .. Len(active) :
                           g < h /\ active[g] = a[x] /\ active[h] = a[y]
          BY <2>3, RemoveList
        <5>2. i \in 1 .. Len(a) /\ m \in 1 .. Len(a) /\ i < m
          BY <3>1, <3>2, <4>2
        <5> HIDE DEF a
        <5>3. \E g, h \in 1 .. Len(active) : g < h /\ active[g] = a[i] /\ active[h] = a[m]
          BY <5>1, <5>2
        <5> QED
          BY <3>1, <5>3 DEF a
      <4>4. h = k
        BY <2>2, <2>3, <3>2, <4>3 DEF Distinct
      <4>5. g \in 1 .. (k - 1)
        BY <2>3, <4>3, <4>4
      <4> QED
        BY <2>7, <4>3, <4>5 DEF Live
    <3>4. dmn.pc = "step" => ~Live(active[m])'
      BY <2>2, <2>6, <3>2 DEF Live
    <3> QED
      BY <2>1, <3>2, <3>3, <3>4
  <2>11. \/ active' = active
         \/ \E d \in Conns : Allocates(t, d) \/ Frees(t, d)
    BY <1>1 DEF Undisturbed, CallStep, GoesOn, Makes, lists
  <2> HIDE DEF Place
  <2> QED
    BY <2>1, <2>8, <2>9, <2>10, <2>11
<1>6. ASSUME \/ dmn'.pc \in {"closed", "wait", "got", "late"}
             \/ dmn'.pc \in {"walk", "step"} /\ dmn'.conn = NoConn,
             NEW c \in Conns
      PROVE  ~Live(c)'
  <2>1. \/ dmn.pc \in {"closed", "wait", "got", "late"}
        \/ dmn.pc \in {"walk", "step"} /\ dmn.conn = NoConn
    BY <1>2, <1>6
  <2>2. ~Live(c) /\ dmn.pc # "open"
    BY <2>1 DEF WalkInv
  <2> QED
    BY <1>4, <2>2
<1> QED
  BY <1>2, <1>3, <1>5, <1>6 DEF WalkInv

(* Steps of the daemon outside the walk.                                   *)
LEMMA OtherDaemonWalk ==
  ASSUME ConnInv, WalkInv, Next, DaemonStep,
         ~CloseBegin, ~CloseAbort, ~CloseNext, ~CloseDown
  PROVE  WalkInv'
<1>1. Undisturbed /\ dmn \in DmnRecords /\ dmn' \in DmnRecords
  BY DaemonStepKinds, NextInv DEF ConnInv, Inv, TypeOK
<1>2. \A c \in Range(free') : ~Live(c)'
  BY <1>1, FreeStep DEF WalkInv
<1>3. CASE dmn'.pc \in {"open", "event"}
  BY <1>2, <1>3 DEF WalkInv
<1>4. CASE PollTeardown
  BY <1>2, <1>4 DEF PollTeardown, WalkInv, Live, lists
<1>5. CASE CloseTimeout \/ CloseEnd \/ CloseLoop
  <2>1. dmn.pc \in {"wait", "got", "late"} /\ conn' = conn
    BY <1>5 DEF CloseTimeout, CloseEnd, CloseLoop
  <2>2. dmn'.pc \in {"closed", "wait", "got", "late"}
    BY <1>1, <1>5 DEF CloseTimeout, CloseEnd, CloseLoop, usrsockdev_semgive, DmnRecords
  <2> QED
    BY <1>2, <2>1, <2>2 DEF WalkInv, Live
<1>6. CASE usrsockdev_open \/ PollSetup \/ usrsockdev_read \/ usrsockdev_handle_event
           \/ DeliverEvent \/ usrsockdev_write
  <2>1. dmn'.pc \in {"open", "event"}
    BY <1>1, <1>6 DEF usrsockdev_open, PollSetup, usrsockdev_read, usrsockdev_handle_event,
       DeliverEvent, usrsockdev_write, DaemonRuns, DmnRecords
  <2> QED
    BY <1>3, <2>1
<1>7. ASSUME NEW t \in Threads, usrsockdev_handle_req_response(t)
      PROVE  WalkInv'
  <2>1. PICK r \in dmn.pend : RespondInProgress(r) \/ RespondFinally(r)
    BY <1>7 DEF usrsockdev_handle_req_response
  <2>2. dmn.pc = "open" /\ Inv
    BY <1>7 DEF usrsockdev_handle_req_response, DaemonRuns, ConnInv
  <2>3. CASE RespondInProgress(r)
    <3>1. dmn'.pc = "open"
      BY <1>1, <2>2, <2>3 DEF RespondInProgress, DmnRecords
    <3> QED
      BY <1>3, <3>1
  <2>4. CASE RespondFinally(r)
    <3>1. \E result \in Answers(r), owes \in BOOLEAN : dmn' = DaemonAfter(r, result, owes)
      BY <2>4 DEF RespondFinally, usrsockdev_handle_response,
         usrsockdev_handle_datareq_response
    <3>2. dmn'.pc = "open"
      BY <2>2, <3>1, DaemonAfterType
    <3> QED
      BY <1>3, <3>2
  <2> QED
    BY <2>1, <2>3, <2>4
<1> QED
  BY <1>4, <1>5, <1>6, <1>7 DEF DaemonStep

(* The place of a connection in a list without repetitions.                *)
LEMMA SuccessorPlace ==
  ASSUME NEW list \in Seq(Conns), Distinct(list), NEW k \in 1 .. Len(list)
  PROVE  Successor(list, list[k]) = IF k < Len(list) THEN list[k + 1] ELSE NoConn
<1> DEFINE c == list[k]
           I == {i \in 1 .. Len(list) : list[i] = c}
           i == SelectInSeq(list, LAMBDA x : x = c)
<1>1. Len(list) \in Nat
  BY LenProperties
<1>2. I = {k} /\ I \in SUBSET Nat
  BY <1>1 DEF Distinct
<1>3. Min(I) = k
  BY <1>2, MinInSet
<1>4. i = k
  BY <1>2, <1>3 DEF SelectInSeq
<1>5. Successor(list, c) = IF i \in 1 .. (Len(list) - 1) THEN list[i + 1] ELSE NoConn
  BY DEF Successor
<1> HIDE DEF i, I
<1> QED
  BY <1>1, <1>4, <1>5

(* The walk begins with the first connection of the active list.           *)
LEMMA BeginWalk ==
  ASSUME ConnInv, WalkInv, CloseBegin
  PROVE  WalkInv'
<1> DEFINE c == usrsock_nextconn(active, free, NoConn)
<1>1. UNCHANGED <<conn, active, free>> /\ dmn'.pc = "walk" /\ dmn'.conn = c
  BY DevUnchanged DEF CloseBegin, ConnInv, DmnRecords, lists
<1>2. active \in Seq(Conns) /\ Len(active) \in Nat
  BY ConnFacts, LenProperties
<1>3. CASE active = << >>
  <2>1. c = NoConn /\ Range(active) = {}
    BY <1>3, EmptyList DEF usrsock_nextconn
  <2>2. \A d \in Conns : ~Live(d)
    BY <2>1 DEF ConnInv, ListInv, WalkInv
  <2> HIDE DEF c
  <2> QED
    BY <1>1, <2>1, <2>2 DEF WalkInv, Live
<1>4. CASE active # << >>
  <2>1. c = active[1] /\ 1 \in 1 .. Len(active)
    BY <1>2, <1>4, EmptySeq DEF usrsock_nextconn
  <2>2. c # NoConn
    BY <1>2, <2>1, ElementOfSeq, NoConnFacts
  <2> HIDE DEF c
  <2> QED
    BY <1>1, <2>1, <2>2 DEF WalkInv, Live
<1> QED
  BY <1>3, <1>4

(* It aborts the connection it has come to ...                             *)
LEMMA AbortWalk ==
  ASSUME ConnInv, WalkInv, CloseAbort
  PROVE  WalkInv'
<1>1. /\ Undisturbed /\ conn'[dmn.conn].state = "ABORTED"
      /\ \A d \in Conns \ {dmn.conn} : conn'[d] = conn[d]
  BY AbortStep
<1>2. /\ dmn.pc = "walk" /\ dmn.conn # NoConn
      /\ dmn'.pc = "step" /\ dmn'.conn = dmn.conn /\ active' = active
  BY DevUnchanged DEF CloseAbort, ConnInv, DmnRecords, lists
<1>3. \A c \in Range(free') : ~Live(c)'
  BY <1>1, FreeStep DEF WalkInv
<1>4. PICK k \in 1 .. Len(active) :
        active[k] = dmn.conn /\ \A i \in 1 .. (k - 1) : ~Live(active[i])
  BY <1>2 DEF WalkInv
<1>5. active \in Seq(Conns) /\ Len(active) \in Nat
  BY ConnFacts, LenProperties
<1>6. ~Live(active[k])'
  BY <1>1, <1>2, <1>4 DEF Live
<1>7. ASSUME NEW i \in 1 .. (k - 1) PROVE ~Live(active[i])'
  <2>1. i \in 1 .. Len(active)
    BY <1>5
  <2>2. active[i] \in Conns
    BY <1>5, <2>1, ElementOfSeq
  <2> QED
    BY <1>1, <1>2, <1>4, <1>7, <2>2 DEF Live
<1> QED
  BY <1>2, <1>3, <1>4, <1>6, <1>7 DEF WalkInv

(* ... goes on to the next one ...                                         *)
LEMMA NextWalk ==
  ASSUME ConnInv, WalkInv, CloseNext
  PROVE  WalkInv'
<1> DEFINE c == usrsock_nextconn(active, free, dmn.conn)
<1>1. /\ UNCHANGED <<conn, active, free>> /\ dmn.pc = "step"
      /\ dmn'.pc = "walk" /\ dmn'.conn = c
  BY DevUnchanged DEF CloseNext, ConnInv, DmnRecords, lists
<1>2. active \in Seq(Conns) /\ Len(active) \in Nat
  BY ConnFacts, LenProperties
<1>3. CASE dmn.conn = NoConn
  <2>1. \A d \in Conns : ~Live(d)
    BY <1>1, <1>3 DEF WalkInv
  <2>2. c = NoConn \/ \E k \in 1 .. Len(active) : k = 1 /\ active[k] = c
    BY <1>2, <1>3, EmptySeq DEF usrsock_nextconn
  <2>3. \A k \in 1 .. Len(active) : active[k] \in Conns
    BY <1>2, ElementOfSeq
  <2> HIDE DEF c
  <2> QED
    BY <1>1, <2>1, <2>2, <2>3 DEF WalkInv, Live
<1>4. CASE dmn.conn # NoConn
  <2>1. PICK k \in 1 .. Len(active) :
          /\ active[k] = dmn.conn
          /\ \A i \in 1 .. (k - 1) : ~Live(active[i])
          /\ ~Live(active[k])
    BY <1>1, <1>4 DEF WalkInv
  <2>2. \A i \in 1 .. k : ~Live(active[i])
    <3>1. ASSUME NEW i \in 1 .. k PROVE i \in 1 .. (k - 1) \/ i = k
      BY <1>2
    <3> QED
      BY <2>1, <3>1
  <2>3. Contains(active, dmn.conn)
    BY <2>1 DEF Contains
  <2>4. c = IF k < Len(active) THEN active[k + 1] ELSE NoConn
    BY <1>2, <1>4, <2>1, <2>3, SuccessorPlace DEF usrsock_nextconn, ConnInv, ListInv
  <2> HIDE DEF c
  <2>5. CASE k < Len(active)
    <3>1. k + 1 \in 1 .. Len(active) /\ (k + 1) - 1 = k
      BY <1>2, <2>5
    <3>2. c = active[k + 1] /\ c # NoConn
      BY <1>2, <2>4, <2>5, <3>1, ElementOfSeq, NoConnFacts
    <3>3. \A i \in 1 .. ((k + 1) - 1) : ~Live(active[i])
      BY <2>2, <3>1
    <3> QED
      BY <1>1, <3>1, <3>2, <3>3 DEF WalkInv, Live
  <2>6. CASE ~(k < Len(active))
    <3>1. c = NoConn /\ k = Len(active)
      BY <1>2, <2>4, <2>6
    <3>2. \A d \in Range(active) : ~Live(d)
      BY <1>2, <2>2, <3>1, LenProperties DEF Range
    <3>3. \A d \in Conns : ~Live(d)
      BY <3>2 DEF ConnInv, ListInv, WalkInv
    <3> QED
      BY <1>1, <3>1, <3>3 DEF WalkInv, Live
  <2> QED
    BY <2>5, <2>6
<1> QED
  BY <1>3, <1>4

(* ... and ends with none left.                                            *)
LEMMA DownWalk ==
  ASSUME ConnInv, WalkInv, CloseDown
  PROVE  WalkInv'
<1>1. /\ UNCHANGED <<conn, active, free>> /\ dmn.pc = "walk" /\ dmn.conn = NoConn
      /\ dmn'.pc \in {"got", "wait"}
  BY DevUnchanged DEF CloseDown, ConnInv, DmnRecords, lists
<1> QED
  BY <1>1 DEF WalkInv, Live

(* A walk that has not strayed.                                            *)
StrayInv ==
  /\ \A c \in Range(free) : ~Live(c)
  /\ ~strayed => WalkInv

LEMMA NextStray == ConnInv /\ StrayInv /\ [Next]_vars => StrayInv'
<1> SUFFICES ASSUME ConnInv, StrayInv, [Next]_vars PROVE StrayInv'
  OBVIOUS
<1>1. CASE UNCHANGED vars
  BY <1>1 DEF vars, StrayInv, WalkInv, Live
<1>2. CASE Next
  <2>1. \A c \in Range(free') : ~Live(c)'
    BY <1>2, NextKinds, FreeStep DEF StrayInv
  <2>2. ASSUME ~strayed' PROVE WalkInv'
    <3>1. ~LosesPlace /\ (~strayed \/ dmn.pc = "open")
      BY <1>2, <2>2 DEF Next, WalkHistory
    <3>2. WalkInv
      BY <3>1 DEF StrayInv, WalkInv
    <3>3. CASE DaemonStep
      BY <1>2, <3>2, <3>3, OtherDaemonWalk, BeginWalk, AbortWalk, NextWalk, DownWalk
    <3>4. ASSUME NEW t \in Threads, ThreadStep(t) PROVE WalkInv'
      BY <3>1, <3>2, <3>4, ThreadWalk
    <3> QED
      BY <1>2, <3>3, <3>4 DEF Next
  <2> QED
    BY <2>1, <2>2 DEF StrayInv
<1> QED
  BY <1>1, <1>2

(* usrsockdev_close aborts every socket before the device is closed,       *)
(* although it walks the list without net_lock: sockets may be made,       *)
(* closed and freed by any number of threads at every step of the walk,    *)
(* and unless the connection the walk stands on is freed under it, none is *)
(* usable from the end of the walk until a new daemon opens the device.    *)
THEOREM AllAbortedCorrect == Spec => []AllAborted
<1>1. Init => StrayInv
  <2>1. Init => dmn.pc = "closed" /\ \A c \in Conns : ~Live(c)
    BY DEF Init, usrsock_initialize, ClearedConn, Live
  <2>2. Init => Range(free) \subseteq Conns
    BY InitConnInv DEF ConnInv, ListInv
  <2> QED
    BY <2>1, <2>2 DEF StrayInv, WalkInv
<1>2. StrayInv => AllAborted
  BY DEF StrayInv, WalkInv, AllAborted, Closing, Live
<1> QED
  BY <1>1, <1>2, NextStray, SpecConnInv, PTL DEF Spec

=============================================================================
