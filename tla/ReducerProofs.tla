---------------------------- MODULE ReducerProofs ---------------------------
(***************************************************************************)
(* Theorems about OrderedCollection and SessionCache.  Every operation of  *)
(* the ordered map keeps one place for each entry, for collections of any  *)
(* size, and some, done again, change nothing; from that, what             *)
(* sessionCache.apply makes of any cache that newSessionCache or it made,  *)
(* for any event the decoder can give it.                                  *)
(***************************************************************************)
EXTENDS SessionCache, WellFoundedInduction, TLAPS

-----------------------------------------------------------------------------
(* Induction: what a recursive function does is proved on the least number *)
(* that it fails for.                                                      *)

\* A set of numbers has a least one.  The loops of ordered_collection.go run
\* over positions: a counterexample to what one does has a first position.
LEMMA Least ==
    ASSUME NEW T, T \subseteq Nat, T # {}
    PROVE  \E n \in T : \A m \in T : n <= m
<1>1. PICK n \in T : \A m \in T : ~ (<<m, n>> \in OpToRel(<,Nat))
    BY WFMin, NatLessThanWellFounded
<1>2. OpToRel(<,Nat) = {ss \in Nat \X Nat : ss[1] < ss[2]}
    BY Zenon DEF OpToRel
<1>3. \A m \in T : ~ (<<m, n>> \in {ss \in Nat \X Nat : ss[1] < ss[2]})
    BY <1>1, <1>2, Zenon
<1>4. \A m \in T : ~ (m < n)
  <2> SUFFICES ASSUME NEW m \in T, m < n PROVE FALSE
      OBVIOUS
  <2> DEFINE ss == <<m, n>>
  <2>1. ss \in Nat \X Nat /\ ss[1] = m /\ ss[2] = n
      OBVIOUS
  <2>2. ss[1] < ss[2]
      BY <2>1
  <2> HIDE DEF ss
  <2>3. ss \in {st \in Nat \X Nat : st[1] < st[2]}
      BY <2>1, <2>2
  <2> QED
      BY <2>3, <1>3 DEF ss
<1> QED
    BY <1>4

\* The same as induction over the positions 0..n of a loop.
LEMMA Positions ==
    ASSUME NEW n \in Nat, NEW T, T \subseteq 0..n,
           0 \in T, \A k \in 0..(n - 1) : k \in T => k + 1 \in T
    PROVE  \A k \in 0..n : k \in T
<1> DEFINE F == (0..n) \ T
<1> SUFFICES ASSUME F # {} PROVE FALSE
    OBVIOUS
<1>1. F \subseteq Nat
    OBVIOUS
<1> HIDE DEF F
<1>2. PICK k \in F : \A m \in F : k <= m
    BY <1>1, Least
<1>3. k \in 0..n /\ k \notin T /\ k # 0
    BY <1>2 DEF F
<1>4. k - 1 \in 0..(n - 1) /\ k - 1 \notin F /\ k = (k - 1) + 1
    BY <1>2, <1>3, <1>1
<1>5. k - 1 \in T
    BY <1>4 DEF F
<1> QED
    BY <1>3, <1>4, <1>5

-----------------------------------------------------------------------------
(* Sequences of ids *)

Ids(s) == {s[i] : i \in 1..Len(s)}
Distinct(s) == \A i, j \in 1..Len(s) : s[i] = s[j] => i = j

\* An id at the end.
LEMMA AppendFacts ==
    ASSUME NEW D, NEW s \in Seq(D), NEW id \in D
    PROVE  /\ Append(s, id) \in Seq(D)
           /\ Ids(Append(s, id)) = Ids(s) \cup {id}
           /\ Distinct(s) /\ id \notin Ids(s) => Distinct(Append(s, id))
<1> DEFINE t == Append(s, id)
<1>1. t \in Seq(D) /\ Len(t) = Len(s) + 1 /\ Len(s) \in Nat
    OBVIOUS
<1>2. \A i \in 1..Len(s) : t[i] = s[i]
    OBVIOUS
<1>3. t[Len(s) + 1] = id
    OBVIOUS
<1> HIDE DEF t
<1>4. Ids(t) = Ids(s) \cup {id}
  <2>1. \A i \in 1..Len(t) : t[i] \in Ids(s) \cup {id}
      BY <1>1, <1>2, <1>3 DEF Ids
  <2>2. \A i \in 1..Len(s) : s[i] \in Ids(t)
      BY <1>1, <1>2 DEF Ids
  <2>3. id \in Ids(t)
      BY <1>1, <1>3 DEF Ids
  <2> QED
      BY <2>1, <2>2, <2>3 DEF Ids
<1>5. Distinct(s) /\ id \notin Ids(s) => Distinct(t)
    BY <1>1, <1>2, <1>3 DEF Distinct, Ids
<1> QED
    BY <1>1, <1>4, <1>5 DEF t

\* The recursion of the filter, up to a position.
Filter(f, s, set, k) ==
    f = [n \in 0..k |->
            IF n = 0 THEN <<>>
            ELSE IF s[n] \in set THEN Append(f[n - 1], s[n])
            ELSE f[n - 1]]

\* There is a function that the recursion describes.
LEMMA FilterExists ==
    ASSUME NEW D, NEW s \in Seq(D), NEW set
    PROVE  \E f : Filter(f, s, set, Len(s))
<1> DEFINE T == {k \in 0..Len(s) : \E f : Filter(f, s, set, k)}
<1>1. 0 \in T
  <2> DEFINE f == [n \in 0..0 |-> <<>>]
  <2>1. Filter(f, s, set, 0)
      BY DEF Filter
  <2> QED
      BY <2>1
<1>2. ASSUME NEW k \in 0..(Len(s) - 1), k \in T PROVE k + 1 \in T
  <2>1. PICK f : Filter(f, s, set, k)
      BY <1>2
  <2> DEFINE next == IF s[k + 1] \in set THEN Append(f[k], s[k + 1]) ELSE f[k]
             g == [n \in 0..(k + 1) |-> IF n = k + 1 THEN next ELSE f[n]]
  <2>2. \A n \in 0..k : g[n] = f[n]
      OBVIOUS
  <2>3. g[k + 1] = next
      OBVIOUS
  <2>4. \A n \in 0..(k + 1) :
            g[n] = IF n = 0 THEN <<>>
                   ELSE IF s[n] \in set THEN Append(g[n - 1], s[n])
                   ELSE g[n - 1]
    <3>1. ASSUME NEW n \in 0..k PROVE f[n] = IF n = 0 THEN <<>>
                   ELSE IF s[n] \in set THEN Append(f[n - 1], s[n])
                   ELSE f[n - 1]
        BY <2>1 DEF Filter
    <3>2. ASSUME NEW n \in 0..k PROVE n # 0 => n - 1 \in 0..k
        OBVIOUS
    <3> HIDE DEF g
    <3>3. \A n \in 0..k : g[n] = IF n = 0 THEN <<>>
                   ELSE IF s[n] \in set THEN Append(g[n - 1], s[n])
                   ELSE g[n - 1]
        BY <2>2, <3>1, <3>2
    <3>4. g[k + 1] = IF s[k + 1] \in set THEN Append(g[k], s[k + 1]) ELSE g[k]
        BY <2>2, <2>3
    <3>5. (k + 1) - 1 = k /\ k + 1 # 0 /\ k \in 0..k
        OBVIOUS
    <3> QED
        BY <3>3, <3>4, <3>5
  <2>5. Filter(g, s, set, k + 1)
      BY <2>4 DEF Filter
  <2> QED
      BY <2>5
<1> HIDE DEF T
<1>3. Len(s) \in Nat /\ T \subseteq 0..Len(s)
    BY DEF T
<1>4. \A k \in 0..(Len(s) - 1) : k \in T => k + 1 \in T
    BY <1>2
<1>5. \A k \in 0..Len(s) : k \in T
    BY <1>1, <1>3, <1>4, Positions
<1> QED
    BY <1>3, <1>5 DEF T

\* The loop of deleteWhere, one position at a time.
LEMMA AmongSteps ==
    ASSUME NEW D, NEW s \in Seq(D), NEW set
    PROVE  \E f : /\ f[0] = <<>>
                  /\ \A k \in 0..(Len(s) - 1) :
                        f[k + 1] = IF s[k + 1] \in set THEN Append(f[k], s[k + 1]) ELSE f[k]
                  /\ Among(s, set) = f[Len(s)]
<1>1. PICK f : Filter(f, s, set, Len(s)) /\ Among(s, set) = f[Len(s)]
  <2> DEFINE upTo == CHOOSE f : Filter(f, s, set, Len(s))
  <2>1. Filter(upTo, s, set, Len(s))
      BY FilterExists
  <2>2. Among(s, set) = upTo[Len(s)]
      BY DEF Among, Filter
  <2> QED
      BY <2>1, <2>2
<1>2. Len(s) \in Nat
    OBVIOUS
<1>3. f[0] = <<>>
    BY <1>1, <1>2 DEF Filter
<1>4. ASSUME NEW k \in 0..(Len(s) - 1)
      PROVE  f[k + 1] = IF s[k + 1] \in set THEN Append(f[k], s[k + 1]) ELSE f[k]
  <2>1. k + 1 \in 0..Len(s) /\ k + 1 # 0 /\ (k + 1) - 1 = k
      BY <1>2
  <2> QED
      BY <1>1, <2>1 DEF Filter
<1> QED
    BY <1>1, <1>3, <1>4

\* A filtered list of ids has the ids of the set, in no second place: the loop
\* of deleteWhere and slices.DeleteFunc in delete.
LEMMA AmongFacts ==
    ASSUME NEW D, NEW s \in Seq(D), NEW set
    PROVE  /\ Among(s, set) \in Seq(D)
           /\ Ids(Among(s, set)) = Ids(s) \cap set
           /\ Distinct(s) => Distinct(Among(s, set))
<1>1. PICK f : /\ f[0] = <<>>
               /\ \A k \in 0..(Len(s) - 1) :
                     f[k + 1] = IF s[k + 1] \in set THEN Append(f[k], s[k + 1]) ELSE f[k]
               /\ Among(s, set) = f[Len(s)]
    BY AmongSteps
<1>2. Len(s) \in Nat /\ \A i \in 1..Len(s) : s[i] \in D
    OBVIOUS
<1> DEFINE Before(k) == {s[i] : i \in 1..k} \cap set
           T == {k \in 0..Len(s) :
                    /\ f[k] \in Seq(D)
                    /\ Ids(f[k]) = Before(k)
                    /\ Distinct(s) => Distinct(f[k])}
<1>3. f[0] = <<>>
    BY <1>1
<1>4. \A k \in 0..(Len(s) - 1) :
          f[k + 1] = IF s[k + 1] \in set THEN Append(f[k], s[k + 1]) ELSE f[k]
    BY <1>1
<1>5. 0 \in T
  <2>1. <<>> \in Seq(D) /\ Ids(<<>>) = {} /\ Distinct(<<>>)
      BY DEF Ids, Distinct
  <2>2. Before(0) = {}
      OBVIOUS
  <2>3. /\ f[0] \in Seq(D)
        /\ Ids(f[0]) = Before(0)
        /\ Distinct(s) => Distinct(f[0])
      BY <1>3, <2>1, <2>2
  <2> QED
      BY <1>2, <2>3
<1>6. ASSUME NEW k \in 0..(Len(s) - 1), k \in T PROVE k + 1 \in T
  <2>1. k + 1 \in 1..Len(s) /\ s[k + 1] \in D
      BY <1>2
  <2>2. {s[i] : i \in 1..(k + 1)} = {s[i] : i \in 1..k} \cup {s[k + 1]}
      BY <1>2
  <2>3. f[k] \in Seq(D) /\ Ids(f[k]) = Before(k) /\ (Distinct(s) => Distinct(f[k]))
      BY <1>6
  <2>4. CASE s[k + 1] \in set
    <3>1. f[k + 1] = Append(f[k], s[k + 1])
        BY <1>4, <2>4
    <3>2. Distinct(s) => s[k + 1] \notin {s[i] : i \in 1..k}
        BY <2>1, <1>2 DEF Distinct
    <3>3. Before(k + 1) = Before(k) \cup {s[k + 1]}
        BY <2>2, <2>4
    <3>4. /\ f[k + 1] \in Seq(D)
          /\ Ids(f[k + 1]) = Before(k) \cup {s[k + 1]}
          /\ Distinct(s) => Distinct(f[k + 1])
        BY <3>1, <3>2, <2>3, <2>1, AppendFacts
    <3> QED
        BY <3>3, <3>4, <2>1
  <2>5. CASE s[k + 1] \notin set
    <3>1. f[k + 1] = f[k]
        BY <1>4, <2>5
    <3>2. Before(k + 1) = Before(k)
        BY <2>2, <2>5
    <3> QED
        BY <3>1, <3>2, <2>3, <2>1
  <2> QED
      BY <2>4, <2>5
<1>7. T \subseteq 0..Len(s)
    OBVIOUS
<1> HIDE DEF T
<1>8. \A k \in 0..(Len(s) - 1) : k \in T => k + 1 \in T
    BY <1>6
<1>9. \A k \in 0..Len(s) : k \in T
    BY <1>2, <1>5, <1>7, <1>8, Positions
<1>10. Len(s) \in T
    BY <1>2, <1>9
<1>11. /\ f[Len(s)] \in Seq(D)
       /\ Ids(f[Len(s)]) = Before(Len(s))
       /\ Distinct(s) => Distinct(f[Len(s)])
    BY <1>10 DEF T
<1>12. Before(Len(s)) = Ids(s) \cap set
    BY DEF Ids
<1> QED
    BY <1>1, <1>11, <1>12

Pushed(u, v, x) == Append(u \o v, x) = u \o Append(v, x)

\* append at the end of a list in two parts is append to the second.
LEMMA AppendConcat ==
    ASSUME NEW D, NEW u \in Seq(D), NEW v \in Seq(D), NEW x \in D
    PROVE  Pushed(u, v, x)
<1> DEFINE a == Append(u \o v, x)
           b == u \o Append(v, x)
<1>1. Len(u) \in Nat /\ Len(v) \in Nat
    OBVIOUS
<1>2. a \in Seq(D) /\ Len(a) = Len(u) + Len(v) + 1
    OBVIOUS
<1>3. b \in Seq(D) /\ Len(b) = Len(u) + Len(v) + 1
    OBVIOUS
<1>4. ASSUME NEW i \in 1..(Len(u) + Len(v) + 1) PROVE a[i] = b[i]
  <2>1. CASE i <= Len(u)
      BY <2>1
  <2>2. CASE i > Len(u) /\ i <= Len(u) + Len(v)
      BY <2>2
  <2>3. CASE i = Len(u) + Len(v) + 1
      BY <2>3
  <2> QED
      BY <1>1, <2>1, <2>2, <2>3
<1> HIDE DEF a, b
<1>5. a = b
    BY <1>2, <1>3, <1>4
<1> QED
    BY <1>5 DEF a, b, Pushed

Splits(s, t, set) == Among(s \o t, set) = Among(s, set) \o Among(t, set)

\* What comes of a list in two parts comes of each part.
LEMMA AmongSplit ==
    ASSUME NEW D, NEW s \in Seq(D), NEW t \in Seq(D), NEW set
    PROVE  Splits(s, t, set)
<1> DEFINE r == s \o t
<1>1. /\ Len(s) \in Nat /\ Len(t) \in Nat
      /\ r \in Seq(D) /\ Len(r) = Len(s) + Len(t)
      /\ \A i \in 1..Len(s) : r[i] = s[i] /\ s[i] \in D
      /\ \A i \in 1..Len(t) : r[Len(s) + i] = t[i] /\ t[i] \in D
    OBVIOUS
<1> HIDE DEF r
<1>2. PICK f : /\ f[0] = <<>>
               /\ \A k \in 0..(Len(r) - 1) :
                     f[k + 1] = IF r[k + 1] \in set THEN Append(f[k], r[k + 1]) ELSE f[k]
               /\ Among(r, set) = f[Len(r)]
  <2>1. r \in Seq(D)
      BY <1>1
  <2> QED
      BY ONLY <2>1, AmongSteps
<1>3. PICK g : /\ g[0] = <<>>
               /\ \A k \in 0..(Len(s) - 1) :
                     g[k + 1] = IF s[k + 1] \in set THEN Append(g[k], s[k + 1]) ELSE g[k]
               /\ Among(s, set) = g[Len(s)]
    BY AmongSteps
<1>4. PICK h : /\ h[0] = <<>>
               /\ \A k \in 0..(Len(t) - 1) :
                     h[k + 1] = IF t[k + 1] \in set THEN Append(h[k], t[k + 1]) ELSE h[k]
               /\ Among(t, set) = h[Len(t)]
    BY AmongSteps
<1>5. Among(s, set) \in Seq(D)
    BY AmongFacts
<1>6. f[Len(s)] = g[Len(s)]
  <2> DEFINE T == {k \in 0..Len(s) : f[k] = g[k]}
  <2>1. 0 \in T /\ T \subseteq 0..Len(s)
      BY <1>1, <1>2, <1>3
  <2>2. ASSUME NEW k \in 0..(Len(s) - 1), k \in T PROVE k + 1 \in T
    <3>1. /\ k + 1 \in 0..Len(s) /\ k + 1 \in 1..Len(s) /\ k \in 0..(Len(r) - 1)
          /\ f[k] = g[k] /\ r[k + 1] = s[k + 1]
        BY <1>1, <2>2
    <3>2. f[k + 1] = g[k + 1]
        BY <1>2, <1>3, <3>1
    <3> QED
        BY <3>1, <3>2
  <2> HIDE DEF T
  <2>3. \A k \in 0..Len(s) : k \in T
      BY <1>1, <2>1, <2>2, Positions
  <2>4. Len(s) \in T
      BY <1>1, <2>3
  <2> QED
      BY <2>4 DEF T
<1> DEFINE a == Among(s, set)
<1>7. f[Len(s) + Len(t)] = a \o h[Len(t)]
  <2> DEFINE T == {k \in 0..Len(t) : h[k] \in Seq(D) /\ f[Len(s) + k] = a \o h[k]}
  <2>1. 0 \in T
    <3>1. Len(s) + 0 = Len(s) /\ 0 \in 0..Len(t) /\ <<>> \in Seq(D)
        BY <1>1
    <3>2. a \o <<>> = a
        BY <1>5
    <3> HIDE DEF a
    <3>3. f[Len(s) + 0] = a \o h[0]
        BY <1>3, <1>4, <1>6, <3>1, <3>2 DEF a
    <3> QED
        BY <1>4, <3>1, <3>3
  <2>2. ASSUME NEW k \in 0..(Len(t) - 1), k \in T PROVE k + 1 \in T
    <3>1. /\ k + 1 \in 0..Len(t) /\ k + 1 \in 1..Len(t) /\ Len(s) + k \in 0..(Len(r) - 1)
          /\ (Len(s) + k) + 1 = Len(s) + (k + 1)
        BY <1>1
    <3>2. r[Len(s) + (k + 1)] = t[k + 1] /\ t[k + 1] \in D
        BY <1>1, <3>1
    <3>3. h[k] \in Seq(D) /\ f[Len(s) + k] = a \o h[k]
        BY <2>2
    <3> HIDE DEF a
    <3>4. CASE t[k + 1] \in set
      <4>1. h[k + 1] = Append(h[k], t[k + 1])
          BY <1>4, <3>4
      <4>2. f[Len(s) + (k + 1)] = Append(f[Len(s) + k], t[k + 1])
          BY <1>2, <3>1, <3>2, <3>4
      <4>3. a \in Seq(D)
          BY <1>5 DEF a
      <4>4. Pushed(a, h[k], t[k + 1])
          BY <3>2, <3>3, <4>3, AppendConcat
      <4>5. Append(a \o h[k], t[k + 1]) = a \o Append(h[k], t[k + 1])
          BY <4>4 DEF Pushed
      <4>6. h[k + 1] \in Seq(D)
          BY <3>2, <3>3, <4>1
      <4>7. f[Len(s) + (k + 1)] = a \o h[k + 1]
          BY <3>3, <4>1, <4>2, <4>5
      <4> QED
          BY <3>1, <4>6, <4>7
    <3>5. CASE t[k + 1] \notin set
      <4>1. h[k + 1] = h[k] /\ f[Len(s) + (k + 1)] = f[Len(s) + k]
          BY <1>2, <1>4, <3>1, <3>2, <3>5
      <4> QED
          BY <3>1, <3>3, <4>1
    <3> QED
        BY <3>4, <3>5
  <2>3. T \subseteq 0..Len(t)
      OBVIOUS
  <2> HIDE DEF T
  <2>4. \A k \in 0..Len(t) : k \in T
      BY <1>1, <2>1, <2>2, <2>3, Positions
  <2>5. Len(t) \in T
      BY <1>1, <2>4
  <2> QED
      BY <2>5 DEF T
<1> QED
    BY <1>1, <1>2, <1>4, <1>7 DEF r, Splits

\* Nothing is filtered out, everything is.
LEMMA AmongEnds ==
    ASSUME NEW D, NEW s \in Seq(D), NEW set
    PROVE  /\ Ids(s) \subseteq set => Among(s, set) = s
           /\ Ids(s) \cap set = {} => Among(s, set) = <<>>
<1>1. Len(s) \in Nat /\ \A i \in 1..Len(s) : s[i] \in Ids(s)
    BY DEF Ids
<1>2. PICK f : /\ f[0] = <<>>
               /\ \A k \in 0..(Len(s) - 1) :
                     f[k + 1] = IF s[k + 1] \in set THEN Append(f[k], s[k + 1]) ELSE f[k]
               /\ Among(s, set) = f[Len(s)]
    BY AmongSteps
<1>3. ASSUME Ids(s) \subseteq set PROVE f[Len(s)] = s
  <2> DEFINE T == {k \in 0..Len(s) : f[k] = SubSeq(s, 1, k)}
  <2>0. SubSeq(s, 1, 0) = <<>>
      OBVIOUS
  <2>1. 0 \in T /\ T \subseteq 0..Len(s)
    <3>1. 0 \in 0..Len(s) /\ f[0] = SubSeq(s, 1, 0)
        BY <1>1, <1>2, <2>0
    <3> QED
        BY <3>1
  <2>2. ASSUME NEW k \in 0..(Len(s) - 1), k \in T PROVE k + 1 \in T
    <3>1. k + 1 \in 0..Len(s) /\ s[k + 1] \in set
        BY <1>1, <1>3
    <3>2. Append(SubSeq(s, 1, k), s[k + 1]) = SubSeq(s, 1, k + 1)
        BY <1>1
    <3> QED
        BY <1>2, <2>2, <3>1, <3>2
  <2> HIDE DEF T
  <2>3. \A k \in 0..Len(s) : k \in T
      BY <1>1, <2>1, <2>2, Positions
  <2>4. Len(s) \in T
      BY <1>1, <2>3
  <2>5. SubSeq(s, 1, Len(s)) = s
      OBVIOUS
  <2> QED
      BY <2>4, <2>5 DEF T
<1>4. ASSUME Ids(s) \cap set = {} PROVE Among(s, set) = <<>>
  <2>1. Among(s, set) \in Seq(D) /\ Ids(Among(s, set)) = {}
      BY <1>4, AmongFacts
  <2> DEFINE t == Among(s, set)
  <2> HIDE DEF t
  <2>2. t \in Seq(D) /\ \A i \in 1..Len(t) : t[i] \in Ids(t)
      BY <2>1 DEF Ids, t
  <2>3. Len(t) = 0
      BY <2>1, <2>2 DEF t
  <2> QED
      BY <2>2, <2>3 DEF t
<1> QED
    BY <1>2, <1>3, <1>4

-----------------------------------------------------------------------------
(* The operations *)

\* A collection as the code makes it: ids and entries that agree.
Sound(o) ==
    /\ o = [ids |-> o.ids, entries |-> o.entries]
    /\ o.entries = [id \in DOMAIN o.entries |-> o.entries[id]]
    /\ o.ids \in Seq(DOMAIN o.entries)
    /\ WellFormed(o)

\* WellFormed in terms of the list alone.
LEMMA SoundParts ==
    ASSUME NEW s, NEW e, e = [id \in DOMAIN e |-> e[id]],
           s \in Seq(DOMAIN e), Ids(s) = DOMAIN e, Distinct(s)
    PROVE  Sound([ids |-> s, entries |-> e])
<1> DEFINE o == [ids |-> s, entries |-> e]
<1>1. o.ids = s /\ o.entries = e
    OBVIOUS
<1> QED
    BY <1>1 DEF Sound, WellFormed, Ids, Distinct

\* What orderedCollection keeps of ids and entries, one part at a time.
LEMMA PartsOfSound ==
    ASSUME NEW o, Sound(o)
    PROVE  /\ o.ids \in Seq(DOMAIN o.entries)
           /\ Ids(o.ids) = DOMAIN o.entries
           /\ Distinct(o.ids)
    BY DEF Sound, WellFormed, Ids, Distinct

\* A longer list over fewer names is still a list of ids.
LEMMA Narrow ==
    ASSUME NEW D, NEW E, NEW s \in Seq(D), Ids(s) \subseteq E
    PROVE  s \in Seq(E)
    BY DEF Ids

\* The collection of a new sessionState.
LEMMA EmptySound == Sound(Empty)
<1> DEFINE e == [id \in {} |-> 0]
<1>1. <<>> \in Seq(DOMAIN e) /\ Ids(<<>>) = DOMAIN e /\ Distinct(<<>>)
    BY DEF Ids, Distinct
<1> QED
    BY <1>1, SoundParts DEF Empty

\* set: a held id is not listed again, a new one is.
LEMMA SetSound ==
    ASSUME NEW o, NEW id, NEW value, Sound(o)
    PROVE  Sound(Set(o, id, value))
<1> DEFINE e == [x \in DOMAIN o.entries \cup {id} |->
                    IF x = id THEN value ELSE o.entries[x]]
           s == IF Has(o, id) THEN o.ids ELSE Append(o.ids, id)
<1>1. DOMAIN e = DOMAIN o.entries \cup {id} /\ e = [x \in DOMAIN e |-> e[x]]
    OBVIOUS
<1> HIDE DEF e
<1>2. o.ids \in Seq(DOMAIN e) /\ Ids(o.ids) = DOMAIN o.entries /\ Distinct(o.ids)
    BY PartsOfSound, <1>1, Narrow
<1>3. s \in Seq(DOMAIN e) /\ Ids(s) = DOMAIN e /\ Distinct(s)
  <2>1. CASE Has(o, id)
      BY <1>1, <1>2, <2>1 DEF Has
  <2>2. CASE ~Has(o, id)
    <3>1. id \in DOMAIN e /\ id \notin Ids(o.ids)
        BY <1>1, <1>2, <2>2 DEF Has
    <3> QED
        BY <1>1, <1>2, <2>2, <3>1, AppendFacts
  <2> QED
      BY <2>1, <2>2
<1> HIDE DEF s
<1>4. Sound([ids |-> s, entries |-> e])
    BY <1>1, <1>3, SoundParts
<1> QED
    BY <1>4 DEF Set, s, e

\* delete and deleteWhere: an entry goes together with its place in the list.
LEMMA KeepSound ==
    ASSUME NEW o, NEW ids, Sound(o)
    PROVE  Sound(Keep(o, ids))
<1> DEFINE e == [id \in DOMAIN o.entries \cap ids |-> o.entries[id]]
           s == Among(o.ids, ids)
<1>1. DOMAIN e = DOMAIN o.entries \cap ids /\ e = [x \in DOMAIN e |-> e[x]]
    OBVIOUS
<1>2. s \in Seq(DOMAIN o.entries) /\ Ids(s) = DOMAIN o.entries \cap ids /\ Distinct(s)
    BY PartsOfSound, AmongFacts
<1> HIDE DEF e, s
<1>3. s \in Seq(DOMAIN e)
    BY <1>1, <1>2, Narrow
<1>4. Sound([ids |-> s, entries |-> e])
    BY <1>1, <1>2, <1>3, SoundParts
<1> QED
    BY <1>4 DEF Keep, s, e

\* delete of one id and deleteWhere of the ids whose entries match.
LEMMA DeleteSound ==
    ASSUME NEW o, NEW id, NEW matching, Sound(o)
    PROVE  Sound(Delete(o, id)) /\ Sound(DeleteWhere(o, matching))
    BY KeepSound DEF Delete, DeleteWhere

\* update, which rewrites every entry and leaves the list alone.
LEMMA UpdateSound ==
    ASSUME NEW o, NEW e, Sound(o), DOMAIN e = DOMAIN o.entries,
           e = [id \in DOMAIN e |-> e[id]]
    PROVE  Sound(Update(o, e))
<1>1. Update(o, e) = [ids |-> o.ids, entries |-> e]
    BY DEF Sound, Update
<1> QED
    BY <1>1, PartsOfSound, SoundParts

\* The position deleteWhere returns is that of the first match, or -1: it is
\* one that insertAt can be given.
LEMMA FirstMatchFacts ==
    ASSUME NEW o, NEW matching, Sound(o)
    PROVE  /\ FirstMatch(o, matching) \in -1..(Len(o.ids) - 1)
           /\ FirstMatch(o, matching) = -1 <=> Ids(o.ids) \cap matching = {}
<1> DEFINE T == {i \in 1..Len(o.ids) : o.ids[i] \in matching}
           First(i) == /\ o.ids[i] \in matching
                       /\ \A j \in 1..(i - 1) : o.ids[j] \notin matching
<1>1. o.ids \in Seq(DOMAIN o.entries) /\ Len(o.ids) \in Nat
    BY PartsOfSound
<1>2. CASE T = {}
    BY <1>1, <1>2 DEF FirstMatch, Ids
<1>3. CASE T # {}
    <2>1. PICK n \in T : \A m \in T : n <= m
        <3>1. T \subseteq Nat
            BY <1>1
        <3> HIDE DEF T
        <3> QED
            BY <1>3, <3>1, Least
    <2>2. n \in 1..Len(o.ids) /\ First(n)
        BY <1>1, <2>1
    <2> DEFINE i == CHOOSE i \in 1..Len(o.ids) : First(i)
    <2>3. i \in 1..Len(o.ids) /\ First(i)
        BY <2>2
    <2>4. FirstMatch(o, matching) = i - 1
        BY <1>3 DEF FirstMatch
    <2>5. Ids(o.ids) \cap matching # {}
        BY <2>3 DEF Ids
    <2> HIDE DEF i
    <2> QED
        BY <1>1, <2>3, <2>4, <2>5
<1> QED
    BY <1>2, <1>3

\* append(s, t...): the elements of s, then those of t.
LEMMA Joined ==
    ASSUME NEW D, NEW s \in Seq(D), NEW t \in Seq(D), NEW r, r = s \o t
    PROVE  /\ r \in Seq(D) /\ Len(r) = Len(s) + Len(t)
           /\ \A i \in 1..Len(s) : r[i] = s[i]
           /\ \A i \in 1..Len(t) : r[Len(s) + i] = t[i]
<1>1. Len(s) \in Nat /\ Len(t) \in Nat
    OBVIOUS
<1>2. r \in Seq(D) /\ Len(r) = Len(s) + Len(t)
    OBVIOUS
<1>3. \A i \in 1..Len(s) : r[i] = s[i]
    OBVIOUS
<1>4. \A i \in 1..Len(t) : r[Len(s) + i] = t[i]
    OBVIOUS
<1> QED
    BY <1>2, <1>3, <1>4

\* What slices[:at] and slices[at:] are, as insertAt cuts its list.
Cut(D, s, at, a, b) ==
    /\ a \in Seq(D) /\ Len(a) = at
    /\ \A i \in 1..at : a[i] = s[i]
    /\ b \in Seq(D) /\ Len(b) = Len(s) - at
    /\ \A i \in 1..(Len(s) - at) : b[i] = s[at + i]

\* s[:at] has the first at elements and s[at:] the others.
LEMMA CutFacts ==
    ASSUME NEW D, NEW s \in Seq(D), NEW at \in 0..Len(s)
    PROVE  Cut(D, s, at, SubSeq(s, 1, at), SubSeq(s, at + 1, Len(s)))
<1> DEFINE a == SubSeq(s, 1, at)
           b == SubSeq(s, at + 1, Len(s))
<1>1. Len(s) \in Nat /\ at \in Nat /\ at <= Len(s)
    OBVIOUS
<1>2. a \in Seq(D) /\ Len(a) = at
    BY <1>1
<1>3. \A i \in 1..at : a[i] = s[i]
    BY <1>1
<1>4. b \in Seq(D) /\ Len(b) = Len(s) - at
    BY <1>1
<1>5. \A i \in 1..(Len(s) - at) : b[i] = s[at + i]
    BY <1>1
<1> HIDE DEF a, b
<1>6. Cut(D, s, at, a, b)
    BY <1>2, <1>3, <1>4, <1>5 DEF Cut
<1> QED
    BY <1>6 DEF a, b

\* slices.Insert: what was before the position, the new ids, the rest.
LEMMA SpliceFacts ==
    ASSUME NEW D, NEW s \in Seq(D), NEW t \in Seq(D), NEW at \in 0..Len(s),
           Distinct(s), Distinct(t), Ids(s) \cap Ids(t) = {}
    PROVE  LET r == SubSeq(s, 1, at) \o t \o SubSeq(s, at + 1, Len(s)) IN
           r \in Seq(D) /\ Ids(r) = Ids(s) \cup Ids(t) /\ Distinct(r)
<1> DEFINE a == SubSeq(s, 1, at)
           b == SubSeq(s, at + 1, Len(s))
           r == a \o t \o b
<1>1. Len(s) \in Nat /\ Len(t) \in Nat /\ at \in Nat /\ at <= Len(s)
    OBVIOUS
<1>1a. Cut(D, s, at, a, b)
    BY CutFacts
<1> HIDE DEF a, b
<1>2. a \in Seq(D) /\ Len(a) = at /\ \A i \in 1..at : a[i] = s[i]
    BY <1>1a DEF Cut
<1>3. /\ b \in Seq(D) /\ Len(b) = Len(s) - at
      /\ \A i \in 1..(Len(s) - at) : b[i] = s[at + i]
    BY <1>1a DEF Cut
<1> DEFINE f == a \o t
<1>4. f = a \o t /\ r = f \o b
    OBVIOUS
<1> HIDE DEF f, r
<1>5. a \in Seq(D) /\ t \in Seq(D) /\ b \in Seq(D)
    BY <1>2, <1>3
<1>6. /\ f \in Seq(D) /\ Len(f) = Len(a) + Len(t)
      /\ \A i \in 1..Len(a) : f[i] = a[i]
      /\ \A i \in 1..Len(t) : f[Len(a) + i] = t[i]
    BY ONLY <1>4, <1>5, Joined
<1>7. /\ r \in Seq(D) /\ Len(r) = Len(f) + Len(b)
      /\ \A i \in 1..Len(f) : r[i] = f[i]
      /\ \A i \in 1..Len(b) : r[Len(f) + i] = b[i]
  <2>1. f \in Seq(D)
      BY <1>6
  <2> QED
      BY ONLY <1>4, <1>5, <2>1, Joined
<1>8. /\ f \in Seq(D) /\ Len(f) = at + Len(t)
      /\ \A i \in 1..at : f[i] = s[i]
      /\ \A i \in 1..Len(t) : f[at + i] = t[i]
    BY ONLY <1>1, <1>2, <1>6
<1>9. r \in Seq(D) /\ Len(r) = Len(s) + Len(t)
    BY ONLY <1>1, <1>3, <1>7, <1>8
<1>10. /\ \A i \in 1..at : r[i] = s[i]
       /\ \A i \in 1..Len(t) : r[at + i] = t[i]
       /\ \A i \in 1..(Len(s) - at) : r[at + Len(t) + i] = s[at + i]
    <2>1. \A i \in 1..(at + Len(t)) : r[i] = f[i]
        BY ONLY <1>7, <1>8
    <2>2. \A i \in 1..(Len(s) - at) : r[at + Len(t) + i] = b[i]
        BY ONLY <1>3, <1>7, <1>8
    <2>3. ASSUME NEW i \in 1..at PROVE r[i] = s[i]
        BY <1>1, <1>8, <2>1
    <2>4. ASSUME NEW i \in 1..Len(t) PROVE r[at + i] = t[i]
        <3>1. at + i \in 1..(at + Len(t))
            BY <1>1
        <3> QED
            BY <1>8, <2>1, <3>1
    <2> QED
        BY <1>3, <2>2, <2>3, <2>4
<1>11. Ids(r) = Ids(s) \cup Ids(t)
  <2>1. ASSUME NEW i \in 1..Len(r) PROVE r[i] \in Ids(s) \cup Ids(t)
    <3>1. CASE i \in 1..at
      <4>1. i \in 1..Len(s) /\ r[i] = s[i]
          BY <1>1, <1>10, <3>1
      <4> QED
          BY <4>1 DEF Ids
    <3>2. CASE i \in (at + 1)..(at + Len(t))
      <4>1. i - at \in 1..Len(t) /\ at + (i - at) = i
          BY <1>1, <3>2
      <4>2. r[i] = t[i - at]
          BY <1>10, <4>1
      <4> QED
          BY <4>1, <4>2 DEF Ids
    <3>3. CASE i \in (at + Len(t) + 1)..(Len(s) + Len(t))
      <4>1. i - at - Len(t) \in 1..(Len(s) - at) /\ at + Len(t) + (i - at - Len(t)) = i
            /\ at + (i - at - Len(t)) \in 1..Len(s)
          BY <1>1, <3>3
      <4>2. r[i] = s[at + (i - at - Len(t))]
          BY <1>10, <4>1
      <4> QED
          BY <4>1, <4>2 DEF Ids
    <3> QED
        BY <1>1, <1>9, <3>1, <3>2, <3>3
  <2>2. ASSUME NEW i \in 1..Len(s) PROVE s[i] \in Ids(r)
    <3>1. CASE i <= at
      <4>1. i \in 1..at /\ i \in 1..Len(r)
          BY <1>1, <1>9, <3>1
      <4> QED
          BY <1>10, <4>1 DEF Ids
    <3>2. CASE i > at
      <4>1. i - at \in 1..(Len(s) - at) /\ at + (i - at) = i
            /\ at + Len(t) + (i - at) \in 1..Len(r)
          BY <1>1, <1>9, <3>2
      <4>2. r[at + Len(t) + (i - at)] = s[i]
          BY <1>10, <4>1
      <4> QED
          BY <4>1, <4>2 DEF Ids
    <3> QED
        BY <1>1, <3>1, <3>2
  <2>3. ASSUME NEW i \in 1..Len(t) PROVE t[i] \in Ids(r)
    <3>1. at + i \in 1..Len(r)
        BY <1>1, <1>9
    <3> QED
        BY <1>10, <3>1 DEF Ids
  <2> QED
      BY <2>1, <2>2, <2>3 DEF Ids
\* Where an element comes from: a place in s or a place in t.
<1>12. ASSUME NEW i \in 1..Len(r)
      PROVE  \/ i \in 1..at /\ r[i] = s[i]
             \/ i - at \in 1..Len(t) /\ r[i] = t[i - at]
             \/ i - Len(t) \in (at + 1)..Len(s) /\ r[i] = s[i - Len(t)]
  <2>1. CASE i \in 1..at
      BY <1>10, <2>1
  <2>2. CASE i \in (at + 1)..(at + Len(t))
    <3>1. i - at \in 1..Len(t) /\ at + (i - at) = i
        BY <1>1, <2>2
    <3> QED
        BY <1>10, <3>1
  <2>3. CASE i \in (at + Len(t) + 1)..(Len(s) + Len(t))
    <3> DEFINE k == i - at - Len(t)
    <3>1. k \in 1..(Len(s) - at) /\ at + Len(t) + k = i /\ at + k = i - Len(t)
        BY <1>1, <2>3
    <3>2. r[at + Len(t) + k] = s[at + k]
        BY <1>10, <3>1
    <3> QED
        BY <1>1, <2>3, <3>1, <3>2
  <2> QED
      BY <1>1, <1>9, <2>1, <2>2, <2>3
<1>13. Distinct(r)
  <2> SUFFICES ASSUME NEW i \in 1..Len(r), NEW j \in 1..Len(r), r[i] = r[j]
               PROVE  i = j
      BY DEF Distinct
  <2>1. \A x \in 1..Len(s), y \in 1..Len(t) : s[x] # t[y]
      BY DEF Ids
  <2>2. \A x, y \in 1..Len(s) : s[x] = s[y] => x = y
      BY DEF Distinct
  <2>3. \A x, y \in 1..Len(t) : t[x] = t[y] => x = y
      BY DEF Distinct
  <2>4. /\ i \in Int /\ j \in Int
        /\ \A x \in 1..at : x \in 1..Len(s)
        /\ \A x \in (at + 1)..Len(s) : x \in 1..Len(s) /\ x \notin 1..at
      BY <1>1, <1>9
  <2>5. \/ i \in 1..at /\ r[i] = s[i]
        \/ i - at \in 1..Len(t) /\ r[i] = t[i - at]
        \/ i - Len(t) \in (at + 1)..Len(s) /\ r[i] = s[i - Len(t)]
      BY <1>12
  <2>6. \/ j \in 1..at /\ r[j] = s[j]
        \/ j - at \in 1..Len(t) /\ r[j] = t[j - at]
        \/ j - Len(t) \in (at + 1)..Len(s) /\ r[j] = s[j - Len(t)]
      BY <1>12
  <2>7. CASE i - at \in 1..Len(t) /\ r[i] = t[i - at]
    <3>1. j - at \in 1..Len(t) /\ r[j] = t[j - at]
        BY <2>1, <2>4, <2>6, <2>7
    <3>2. i - at = j - at
        BY <2>3, <2>7, <3>1
    <3> QED
        BY <1>1, <2>4, <3>2
  <2>8. CASE i \in 1..at /\ r[i] = s[i]
    <3>1. CASE j \in 1..at /\ r[j] = s[j]
        BY <2>2, <2>4, <2>8, <3>1
    <3>2. CASE j - at \in 1..Len(t) /\ r[j] = t[j - at]
        BY <2>1, <2>4, <2>8, <3>2
    <3>3. CASE j - Len(t) \in (at + 1)..Len(s) /\ r[j] = s[j - Len(t)]
        BY <2>2, <2>4, <2>8, <3>3
    <3> QED
        BY <2>6, <3>1, <3>2, <3>3
  <2>9. CASE i - Len(t) \in (at + 1)..Len(s) /\ r[i] = s[i - Len(t)]
    <3>1. CASE j \in 1..at /\ r[j] = s[j]
        BY <2>2, <2>4, <2>9, <3>1
    <3>2. CASE j - at \in 1..Len(t) /\ r[j] = t[j - at]
        BY <2>1, <2>4, <2>9, <3>2
    <3>3. CASE j - Len(t) \in (at + 1)..Len(s) /\ r[j] = s[j - Len(t)]
      <4>1. i - Len(t) = j - Len(t)
          BY <2>2, <2>4, <2>9, <3>3
      <4> QED
          BY <1>1, <2>4, <4>1
    <3> QED
        BY <2>6, <3>1, <3>2, <3>3
  <2> QED
      BY <2>5, <2>7, <2>8, <2>9
<1> QED
    BY <1>9, <1>11, <1>13 DEF r, a, b

\* The ids that insertAt adds to the list: those not held, each once.
Fresh(o, ids) ==
    LET isFresh(i) == ~Has(o, ids[i]) /\ \A j \in 1..(i - 1) : ids[j] # ids[i]
        order == Among([i \in DOMAIN ids |-> i], {i \in DOMAIN ids : isFresh(i)})
    IN [i \in DOMAIN order |-> ids[order[i]]]

\* The position insertAt uses, and the list with t inserted there.
Place(o, index) == IF index < 0 \/ index > Len(o.ids) THEN Len(o.ids) ELSE index
Splice(s, t, at) == SubSeq(s, 1, at) \o t \o SubSeq(s, at + 1, Len(s))

\* The entries it leaves: of two values with one id, the last.
Last(ids, id) ==
    CHOOSE i \in DOMAIN ids : ids[i] = id /\ \A j \in (i + 1)..Len(ids) : ids[j] # id
Merged(o, ids, values) ==
    [id \in DOMAIN o.entries \cup {ids[i] : i \in DOMAIN ids} |->
        IF id \in {ids[i] : i \in DOMAIN ids} THEN values[Last(ids, id)] ELSE o.entries[id]]

\* insertAt, in these terms: the position decides about the list only.
LEMMA InsertParts ==
    ASSUME NEW o, NEW index, NEW ids, NEW values
    PROVE  InsertAt(o, index, ids, values)
             = [ids |-> Splice(o.ids, Fresh(o, ids), Place(o, index)),
                entries |-> Merged(o, ids, values)]
    BY DEF InsertAt, Fresh, Place, Splice, Last, Merged

\* Of the ids insertAt is given, each one that is not held is listed once.
LEMMA FreshFacts ==
    ASSUME NEW o, NEW X, NEW ids \in Seq(X)
    PROVE  /\ Fresh(o, ids) \in Seq(Ids(ids))
           /\ Ids(Fresh(o, ids)) = Ids(ids) \ DOMAIN o.entries
           /\ Distinct(Fresh(o, ids))
<1> DEFINE isFresh(i) == ~Has(o, ids[i]) /\ \A j \in 1..(i - 1) : ids[j] # ids[i]
           all == [i \in DOMAIN ids |-> i]
           chosen == {i \in DOMAIN ids : isFresh(i)}
           order == Among(all, chosen)
           fresh == [i \in DOMAIN order |-> ids[order[i]]]
           given == Ids(ids)
<1>1. Fresh(o, ids) = fresh
    BY DEF Fresh
<1>3. Len(ids) \in Nat /\ DOMAIN ids = 1..Len(ids)
    OBVIOUS
<1>3a. \A i \in 1..Len(ids) : ids[i] \in given
    BY DEF Ids
<1>3b. \A id \in given : \E i \in 1..Len(ids) : ids[i] = id
    BY DEF Ids
<1> HIDE DEF given
<1>4. all \in Seq(1..Len(ids)) /\ Len(all) = Len(ids) /\ \A i \in 1..Len(ids) : all[i] = i
    BY <1>3
<1> HIDE DEF all
<1>5. Ids(all) = 1..Len(ids) /\ Distinct(all)
    BY <1>4 DEF Ids, Distinct
<1>6. order \in Seq(1..Len(ids)) /\ Ids(order) = chosen /\ Distinct(order)
    BY <1>3, <1>4, <1>5, AmongFacts
<1> HIDE DEF order
<1>7. /\ Len(order) \in Nat /\ DOMAIN order = 1..Len(order)
      /\ \A i \in 1..Len(order) : order[i] \in Ids(order)
    BY <1>6 DEF Ids
<1>8. fresh \in Seq(given) /\ Len(fresh) = Len(order)
  <2>1. \A i \in 1..Len(order) : order[i] \in 1..Len(ids)
      BY <1>6
  <2>2. \A i \in 1..Len(order) : ids[order[i]] \in given
      BY <1>3a, <2>1
  <2>3. fresh = [i \in 1..Len(order) |-> ids[order[i]]]
      BY <1>7
  <2> HIDE DEF fresh
  <2> QED
      BY <1>7, <2>2, <2>3
<1>9. \A i \in 1..Len(order) : fresh[i] = ids[order[i]]
    BY <1>7
<1> HIDE DEF fresh
<1>10. Ids(fresh) = {ids[i] : i \in chosen}
  <2>1. \A i \in chosen : \E j \in 1..Len(order) : order[j] = i
      BY <1>6 DEF Ids
  <2>2. \A j \in 1..Len(order) : order[j] \in chosen
      BY <1>6, <1>7
  <2> HIDE DEF chosen
  <2>3. Ids(fresh) = {ids[order[j]] : j \in 1..Len(order)}
      BY <1>8, <1>9 DEF Ids
  <2> QED
      BY <2>1, <2>2, <2>3
<1>11. \A i, j \in chosen : ids[i] = ids[j] => i = j
    BY <1>3
<1>12. Distinct(fresh)
  <2>1. ASSUME NEW i \in 1..Len(order), NEW j \in 1..Len(order), fresh[i] = fresh[j]
        PROVE  i = j
    <3>1. order[i] \in chosen /\ order[j] \in chosen /\ ids[order[i]] = ids[order[j]]
        BY <1>6, <1>7, <1>9, <2>1
    <3>2. order[i] = order[j]
        BY <1>11, <3>1
    <3> QED
        BY <1>6, <3>2 DEF Distinct
  <2> QED
      BY <1>8, <2>1 DEF Distinct
\* The first of the values with an id that is not held is fresh.
<1>13. Ids(fresh) = given \ DOMAIN o.entries
  <2>1. ASSUME NEW id \in given \ DOMAIN o.entries PROVE id \in Ids(fresh)
    <3> DEFINE T == {i \in 1..Len(ids) : ids[i] = id}
    <3>1. T # {} /\ T \subseteq Nat
        BY <1>3, <1>3b
    <3> HIDE DEF T
    <3>2. PICK n \in T : \A m \in T : n <= m
        BY <3>1, Least
    <3>3. n \in 1..Len(ids) /\ ids[n] = id
        BY <3>2 DEF T
    <3>4. \A j \in 1..(n - 1) : ids[j] # id
        BY <1>3, <3>2, <3>3 DEF T
    <3>5. n \in chosen
        BY <1>3, <3>3, <3>4 DEF Has
    <3> QED
        BY <1>10, <3>3, <3>5
  <2>2. ASSUME NEW i \in chosen PROVE ids[i] \in given \ DOMAIN o.entries
      BY <1>3, <1>3a DEF Has
  <2> QED
      BY <1>10, <2>1, <2>2
<1> QED
    BY <1>1, <1>8, <1>12, <1>13 DEF given

\* What insertAt holds: under each id it is given one of the values given with
\* it, and what it held under the others.
Holds(e, o, ids, values) ==
    /\ DOMAIN e = DOMAIN o.entries \cup Ids(ids)
    /\ e = [x \in DOMAIN e |-> e[x]]
    /\ \A x \in DOMAIN o.entries \ Ids(ids) : e[x] = o.entries[x]
    /\ \A x \in Ids(ids) : \E i \in 1..Len(ids) : ids[i] = x /\ e[x] = values[i]

\* Of two values with one id there is a last.
LEMMA MergedFacts ==
    ASSUME NEW o, NEW X, NEW ids \in Seq(X), NEW values
    PROVE  Holds(Merged(o, ids, values), o, ids, values)
<1> DEFINE e == Merged(o, ids, values)
<1>1. Len(ids) \in Nat /\ DOMAIN ids = 1..Len(ids)
    OBVIOUS
<1>2. {ids[i] : i \in DOMAIN ids} = Ids(ids)
    BY <1>1 DEF Ids
<1>3. e = [id \in DOMAIN o.entries \cup Ids(ids) |->
              IF id \in Ids(ids) THEN values[Last(ids, id)] ELSE o.entries[id]]
    BY <1>2 DEF Merged
<1> HIDE DEF e
<1>4. ASSUME NEW x \in Ids(ids)
      PROVE  \E i \in 1..Len(ids) : ids[i] = x /\ e[x] = values[i]
  <2> DEFINE T == {k \in Nat : \E i \in 1..Len(ids) : ids[i] = x /\ k = Len(ids) - i}
             Is(i) == ids[i] = x /\ \A j \in (i + 1)..Len(ids) : ids[j] # x
  <2>1. T # {} /\ T \subseteq Nat
    <3>1. PICK i \in 1..Len(ids) : ids[i] = x
        BY DEF Ids
    <3>2. Len(ids) - i \in Nat
        BY <1>1
    <3>3. Len(ids) - i \in T
        BY <3>1, <3>2
    <3> QED
        BY <3>3
  <2> HIDE DEF T
  <2>2. PICK k \in T : \A m \in T : k <= m
      BY <2>1, Least
  <2>3. PICK n \in 1..Len(ids) : ids[n] = x /\ k = Len(ids) - n
      BY <2>2 DEF T
  <2>4. ASSUME NEW j \in (n + 1)..Len(ids), ids[j] = x PROVE FALSE
    <3>1. j \in 1..Len(ids) /\ Len(ids) - j \in Nat /\ Len(ids) - j < k
        BY <1>1, <2>3
    <3>2. Len(ids) - j \in T
        BY <2>4, <3>1 DEF T
    <3> QED
        BY <1>1, <2>2, <2>3, <3>1, <3>2
  <2>5. n \in DOMAIN ids /\ Is(n)
      BY <1>1, <2>3, <2>4
  <2>6. Last(ids, x) = CHOOSE i \in DOMAIN ids : Is(i)
      BY DEF Last
  <2> DEFINE last == CHOOSE i \in DOMAIN ids : Is(i)
  <2>7. last \in DOMAIN ids /\ Is(last)
      BY <2>5
  <2> HIDE DEF last
  <2>8. Last(ids, x) = last
      BY <2>6 DEF last
  <2> QED
      BY <1>1, <1>3, <2>7, <2>8
<1>5. \A x \in DOMAIN o.entries \ Ids(ids) : e[x] = o.entries[x]
    BY <1>3
<1>6. DOMAIN e = DOMAIN o.entries \cup Ids(ids) /\ e = [x \in DOMAIN e |-> e[x]]
    BY <1>3
<1> QED
    BY <1>4, <1>5, <1>6 DEF e, Holds

\* insertAt: an id that is held keeps its place, of two values with one id one
\* is listed, and what is listed is held.
LEMMA InsertAtSound ==
    ASSUME NEW o, NEW index \in Int, NEW X, NEW ids \in Seq(X), NEW values, Sound(o)
    PROVE  Sound(InsertAt(o, index, ids, values))
<1> DEFINE e == Merged(o, ids, values)
           fresh == Fresh(o, ids)
           at == Place(o, index)
           s == Splice(o.ids, fresh, at)
<1>1. InsertAt(o, index, ids, values) = [ids |-> s, entries |-> e]
    BY InsertParts
<1>2. Holds(e, o, ids, values)
    BY MergedFacts
<1>3. /\ fresh \in Seq(Ids(ids)) /\ Distinct(fresh)
      /\ Ids(fresh) = Ids(ids) \ DOMAIN o.entries
    BY FreshFacts
<1> HIDE DEF e, fresh
<1>2a. DOMAIN e = DOMAIN o.entries \cup Ids(ids) /\ e = [x \in DOMAIN e |-> e[x]]
    BY <1>2 DEF Holds
<1>4. o.ids \in Seq(DOMAIN o.entries) /\ Distinct(o.ids) /\ Ids(o.ids) = DOMAIN o.entries
    BY PartsOfSound
<1>5. o.ids \in Seq(DOMAIN e) /\ fresh \in Seq(DOMAIN e)
    BY <1>2a, <1>3, <1>4, Narrow
<1>6. at \in 0..Len(o.ids)
    BY <1>4 DEF Place
<1> HIDE DEF at
<1>7. s \in Seq(DOMAIN e) /\ Ids(s) = Ids(o.ids) \cup Ids(fresh) /\ Distinct(s)
    BY <1>3, <1>4, <1>5, <1>6, SpliceFacts DEF Splice
<1> HIDE DEF s
<1>8. Ids(s) = DOMAIN e
    BY <1>2a, <1>3, <1>4, <1>7
<1>9. Sound([ids |-> s, entries |-> e])
    BY <1>2a, <1>7, <1>8, SoundParts
<1> QED
    BY <1>1, <1>9

\* reset: as an insertion into nothing.
LEMMA ResetSound ==
    ASSUME NEW X, NEW ids \in Seq(X), NEW values
    PROVE  Sound(Reset(ids, values))
    BY EmptySound, InsertAtSound DEF Reset

-----------------------------------------------------------------------------
(* What the operations hold, and when they change nothing *)

\* set holds the value, and leaves the other entries alone.
LEMMA SetHolds ==
    ASSUME NEW o, NEW id, NEW value
    PROVE  /\ DOMAIN Set(o, id, value).entries = DOMAIN o.entries \cup {id}
           /\ Has(Set(o, id, value), id)
           /\ Set(o, id, value).entries[id] = value
           /\ \A x \in DOMAIN o.entries :
                 x # id => Set(o, id, value).entries[x] = o.entries[x]
    BY DEF Set, Has

\* To set what is held changes nothing: neither the value nor its place.
LEMMA SetAgain ==
    ASSUME NEW o, NEW id, NEW value, Sound(o), Has(o, id), o.entries[id] = value
    PROVE  Set(o, id, value) = o
<1> DEFINE e == [x \in DOMAIN o.entries \cup {id} |->
                    IF x = id THEN value ELSE o.entries[x]]
<1>1. o.entries = [x \in DOMAIN o.entries |-> o.entries[x]]
    BY DEF Sound
<1>2. DOMAIN o.entries \cup {id} = DOMAIN o.entries
    BY DEF Has
<1>3. e = o.entries
    BY <1>1, <1>2
<1> HIDE DEF e
<1>4. Set(o, id, value) = [ids |-> o.ids, entries |-> e]
    BY DEF Set, e, Has
<1> QED
    BY <1>3, <1>4 DEF Sound

\* delete and deleteWhere leave what they do not match.
LEMMA KeepHolds ==
    ASSUME NEW o, NEW ids
    PROVE  /\ DOMAIN Keep(o, ids).entries = DOMAIN o.entries \cap ids
           /\ \A x \in DOMAIN o.entries \cap ids : Keep(o, ids).entries[x] = o.entries[x]
    BY DEF Keep

\* To delete what is not held changes nothing.
LEMMA KeepAgain ==
    ASSUME NEW o, NEW ids, Sound(o), DOMAIN o.entries \subseteq ids
    PROVE  Keep(o, ids) = o
<1>1. o.entries = [x \in DOMAIN o.entries |-> o.entries[x]]
    BY DEF Sound
<1>2. o.ids \in Seq(DOMAIN o.entries) /\ Ids(o.ids) = DOMAIN o.entries
    BY PartsOfSound
<1>3. Among(o.ids, ids) = o.ids
    BY <1>2, AmongEnds
<1>4. [x \in DOMAIN o.entries \cap ids |-> o.entries[x]] = o.entries
    BY <1>1
<1>5. Keep(o, ids) = [ids |-> o.ids, entries |-> o.entries]
    BY <1>3, <1>4 DEF Keep
<1> QED
    BY <1>5 DEF Sound

\* The same for the ids that delete and deleteWhere are given.
LEMMA DeleteAgain ==
    ASSUME NEW o, Sound(o)
    PROVE  /\ \A id : ~Has(o, id) => Delete(o, id) = o
           /\ \A matching : matching \cap DOMAIN o.entries = {} => DeleteWhere(o, matching) = o
    BY KeepAgain DEF Delete, DeleteWhere, Has

\* A list is what is before a position and what is behind it.
LEMMA TwoParts ==
    ASSUME NEW D, NEW s \in Seq(D), NEW at \in 0..Len(s)
    PROVE  SubSeq(s, 1, at) \o SubSeq(s, at + 1, Len(s)) = s
<1> DEFINE a == SubSeq(s, 1, at)
           b == SubSeq(s, at + 1, Len(s))
           r == a \o b
<1>1. Len(s) \in Nat /\ at \in Nat /\ at <= Len(s)
    OBVIOUS
<1>2. Cut(D, s, at, a, b)
    BY CutFacts
<1> HIDE DEF a, b
<1>3. a \in Seq(D) /\ Len(a) = at /\ \A i \in 1..at : a[i] = s[i]
    BY <1>2 DEF Cut
<1>4. /\ b \in Seq(D) /\ Len(b) = Len(s) - at
      /\ \A i \in 1..(Len(s) - at) : b[i] = s[at + i]
    BY <1>2 DEF Cut
<1>5. /\ r \in Seq(D) /\ Len(r) = Len(s)
      /\ \A i \in 1..at : r[i] = a[i]
      /\ \A i \in 1..(Len(s) - at) : r[at + i] = b[i]
  <2>1. r = a \o b
      OBVIOUS
  <2> HIDE DEF r
  <2>2. /\ r \in Seq(D) /\ Len(r) = Len(a) + Len(b)
        /\ \A i \in 1..Len(a) : r[i] = a[i]
        /\ \A i \in 1..Len(b) : r[Len(a) + i] = b[i]
      BY ONLY <1>3, <1>4, <2>1, Joined
  <2> QED
      BY ONLY <1>1, <1>3, <1>4, <2>2
<1> HIDE DEF r
<1>6. ASSUME NEW i \in 1..Len(s) PROVE r[i] = s[i]
  <2>1. CASE i <= at
      BY <1>1, <1>3, <1>5, <2>1
  <2>2. CASE i > at
    <3>1. i - at \in 1..(Len(s) - at) /\ at + (i - at) = i
        BY <1>1, <2>2
    <3> QED
        BY <1>4, <1>5, <3>1
  <2>3. i <= at \/ i > at
      BY <1>1
  <2> QED
      BY <2>1, <2>2, <2>3
<1>7. r = s
    BY <1>5, <1>6
<1> QED
    BY <1>7 DEF r, a, b


\* A block of new ids taken out by deleteWhere, and put back by insertAt where
\* deleteWhere found it.
Restored(o, ids, values, r) ==
    /\ DeleteWhere(r, Ids(ids)) = o
    /\ InsertAt(o, FirstMatch(r, Ids(ids)), ids, values) = r

\* deleteWhere and insertAt of the same block: taken out and put back, it is
\* where it was, and so is everything else.
LEMMA BlockAgain ==
    ASSUME NEW o, NEW index \in Int, NEW X, NEW ids \in Seq(X), NEW values,
           Sound(o), Ids(ids) \cap DOMAIN o.entries = {}
    PROVE  Restored(o, ids, values, InsertAt(o, index, ids, values))
<1> DEFINE at == Place(o, index)
           fresh == Fresh(o, ids)
           a == SubSeq(o.ids, 1, at)
           b == SubSeq(o.ids, at + 1, Len(o.ids))
           r == InsertAt(o, index, ids, values)
           D == DOMAIN r.entries
           block == Ids(ids)
<1>1. Sound(r)
    BY InsertAtSound
<1>2. r = [ids |-> Splice(o.ids, fresh, at), entries |-> Merged(o, ids, values)]
    BY InsertParts
<1> HIDE DEF r
<1>3. r.entries = Merged(o, ids, values) /\ r.ids = Splice(o.ids, fresh, at)
    BY <1>2
<1>4. /\ D = DOMAIN o.entries \cup block
      /\ \A x \in DOMAIN o.entries \ block : r.entries[x] = o.entries[x]
  <2>1. Holds(r.entries, o, ids, values)
      BY <1>3, MergedFacts
  <2> QED
      BY <2>1 DEF Holds
<1>5. /\ o.ids \in Seq(DOMAIN o.entries) /\ Len(o.ids) \in Nat
      /\ Ids(o.ids) = DOMAIN o.entries
      /\ o.entries = [x \in DOMAIN o.entries |-> o.entries[x]]
      /\ o = [ids |-> o.ids, entries |-> o.entries]
    BY PartsOfSound DEF Sound
<1>6. at \in 0..Len(o.ids)
    BY <1>5 DEF Place
<1>7. fresh \in Seq(block) /\ Ids(fresh) = block
  <2>1. /\ fresh \in Seq(Ids(ids))
        /\ Ids(fresh) = Ids(ids) \ DOMAIN o.entries
      BY FreshFacts
  <2> HIDE DEF fresh
  <2> QED
      BY <2>1
<1> HIDE DEF at, fresh
<1>8. r.ids = (a \o fresh) \o b
    BY <1>3 DEF Splice
<1>9. a \o b = o.ids
    BY <1>5, <1>6, TwoParts
<1>10. Cut(DOMAIN o.entries, o.ids, at, a, b)
    BY <1>5, <1>6, CutFacts
<1> HIDE DEF a, b, D
<1>11. /\ a \in Seq(DOMAIN o.entries) /\ Len(a) = at
       /\ \A i \in 1..at : a[i] = o.ids[i]
       /\ b \in Seq(DOMAIN o.entries) /\ Len(b) = Len(o.ids) - at
       /\ \A i \in 1..(Len(o.ids) - at) : b[i] = o.ids[at + i]
    BY <1>10 DEF Cut
<1>12. block \cap DOMAIN o.entries = {}
    OBVIOUS
<1> HIDE DEF block
<1>13. Ids(a) \subseteq DOMAIN o.entries /\ Ids(b) \subseteq DOMAIN o.entries
  <2>1. a \in Seq(DOMAIN o.entries) /\ b \in Seq(DOMAIN o.entries)
      BY <1>11
  <2>2. Ids(a) \subseteq DOMAIN o.entries
      BY ONLY <2>1 DEF Ids
  <2>3. Ids(b) \subseteq DOMAIN o.entries
      BY ONLY <2>1 DEF Ids
  <2> QED
      BY <2>2, <2>3
<1>14. a \in Seq(D) /\ b \in Seq(D) /\ fresh \in Seq(D)
  <2>1. Ids(a) \subseteq D /\ Ids(b) \subseteq D /\ Ids(fresh) \subseteq D
      BY ONLY <1>4, <1>7, <1>13
  <2>2. a \in Seq(D)
      BY ONLY <1>11, <2>1, Narrow
  <2>3. b \in Seq(D)
      BY ONLY <1>11, <2>1, Narrow
  <2>4. fresh \in Seq(D)
      BY ONLY <1>7, <2>1, Narrow
  <2> QED
      BY <2>2, <2>3, <2>4
<1> DEFINE rest == D \ block
<1>15. rest = DOMAIN o.entries
    BY <1>4, <1>12
<1>16. DeleteWhere(r, block) = o
  <2> HIDE DEF rest
  <2>1. Among((a \o fresh) \o b, rest) = Among(a \o fresh, rest) \o Among(b, rest)
    <3>1. a \o fresh \in Seq(D) /\ b \in Seq(D)
        BY <1>14
    <3>2. Splits(a \o fresh, b, rest)
        BY <3>1, AmongSplit
    <3> QED
        BY <3>2 DEF Splits
  <2>2. Among(a \o fresh, rest) = Among(a, rest) \o Among(fresh, rest)
    <3>1. Splits(a, fresh, rest)
        BY <1>14, AmongSplit
    <3> QED
        BY <3>1 DEF Splits
  <2>3. Among(a, rest) = a /\ Among(b, rest) = b
      BY <1>14, <1>13, <1>15, AmongEnds
  <2>4. Among(fresh, rest) = <<>>
    <3>1. Ids(fresh) \cap rest = {}
        BY <1>7, <1>12, <1>15
    <3> QED
        BY <3>1, <1>14, AmongEnds
  <2>5. a \o <<>> = a
      BY <1>11
  <2>6. Among(r.ids, rest) = o.ids
      BY <1>8, <1>9, <2>1, <2>2, <2>3, <2>4, <2>5
  <2>7. [x \in D \cap rest |-> r.entries[x]] = o.entries
    <3>1. D \cap rest = DOMAIN o.entries
        BY <1>4, <1>15
    <3>2. \A x \in DOMAIN o.entries : r.entries[x] = o.entries[x]
        BY <1>4, <1>12
    <3> QED
        BY <1>5, <3>1, <3>2
  <2>8. DeleteWhere(r, block) = [ids |-> o.ids, entries |-> o.entries]
      BY <2>6, <2>7 DEF DeleteWhere, Keep, D, rest
  <2> QED
      BY <1>5, <2>8
<1> DEFINE n == FirstMatch(r, block)
<1>17. /\ r.ids \in Seq(D) /\ Len(r.ids) \in Nat /\ Ids(r.ids) = D
    BY <1>1, PartsOfSound DEF D
<1>18. n \in -1..(Len(r.ids) - 1)
    BY <1>1, FirstMatchFacts
<1>19. Splice(o.ids, fresh, Place(o, n)) = r.ids
  <2>1. CASE fresh = <<>>
    <3>1. ASSUME NEW k \in 0..Len(o.ids) PROVE Splice(o.ids, <<>>, k) = o.ids
      <4> DEFINE u == SubSeq(o.ids, 1, k)
                 v == SubSeq(o.ids, k + 1, Len(o.ids))
      <4>1. u \in Seq(DOMAIN o.entries)
          BY <1>5
      <4>2. u \o v = o.ids
          BY <1>5, TwoParts
      <4>3. Splice(o.ids, <<>>, k) = (u \o <<>>) \o v
          BY DEF Splice
      <4> HIDE DEF u, v
      <4>4. u \o <<>> = u
          BY <4>1
      <4> QED
          BY <4>2, <4>3, <4>4
    <3>2. Place(o, n) \in 0..Len(o.ids)
        BY <1>5, <1>17, <1>18 DEF Place
    <3> QED
        BY <1>3, <1>6, <2>1, <3>1, <3>2
  <2>2. CASE fresh # <<>>
    <3>1. n = at
      <4> DEFINE First(i) == /\ r.ids[i] \in block
                             /\ \A j \in 1..(i - 1) : r.ids[j] \notin block
                 ab == a \o fresh
                 w == r.ids
      <4>1. Len(fresh) \in Nat /\ Len(fresh) # 0 /\ fresh[1] \in block
          BY <1>7, <2>2
      <4>2. at \in Nat /\ Len(o.ids) - at \in Nat
          BY <1>5, <1>6
      <4>3. ab \in Seq(D) /\ w = ab \o b
          BY <1>8, <1>14
      <4>4. /\ Len(ab) = at + Len(fresh)
            /\ \A j \in 1..at : ab[j] = a[j]
            /\ ab[at + 1] = fresh[1]
        <5> DEFINE z == ab
        <5>1. z = a \o fresh
            OBVIOUS
        <5> HIDE DEF ab, z
        <5>2. /\ Len(z) = Len(a) + Len(fresh)
              /\ \A j \in 1..Len(a) : z[j] = a[j]
              /\ \A j \in 1..Len(fresh) : z[Len(a) + j] = fresh[j]
            BY ONLY <1>14, <5>1, Joined
        <5> QED
            BY <1>11, <4>1, <5>2 DEF z
      <4> HIDE DEF ab, w
      <4>5. Len(w) = Len(ab) + Len(b) /\ \A j \in 1..Len(ab) : w[j] = ab[j]
          BY ONLY <1>14, <4>3, Joined
      <4>6. at + 1 \in 1..Len(w) /\ at + 1 \in 1..Len(ab)
        <5>1. Len(ab) = at + Len(fresh) /\ Len(w) = at + Len(fresh) + (Len(o.ids) - at)
            BY <1>11, <4>4, <4>5
        <5> DEFINE m == Len(fresh)
                   k == Len(o.ids) - at
        <5>2. m \in Nat /\ m # 0 /\ k \in Nat /\ at \in Nat
            BY <4>1, <4>2
        <5> HIDE DEF m, k
        <5>3. at + 1 \in 1..(at + m + k) /\ at + 1 \in 1..(at + m)
            BY ONLY <5>2
        <5> QED
            BY <5>1, <5>3 DEF m, k
      <4>7. w[at + 1] \in block
          BY <4>1, <4>4, <4>5, <4>6
      <4>8. \A j \in 1..at : w[j] \notin block
        <5>1. \A j \in 1..at : j \in 1..Len(ab) /\ a[j] \in Ids(a)
            BY <1>11, <4>1, <4>2, <4>4 DEF Ids
        <5> QED
            BY <1>12, <1>13, <4>4, <4>5, <5>1
      <4>9. First(at + 1)
          BY <4>2, <4>7, <4>8 DEF w
      <4>10. \A i \in 1..Len(r.ids) : First(i) => i = at + 1
          BY <4>2, <4>6, <4>9 DEF w
      <4> DEFINE first == CHOOSE i \in 1..Len(r.ids) : First(i)
      <4>11. first = at + 1
          BY <4>6, <4>9, <4>10 DEF w
      <4>12. n = first - 1
          BY <4>6, <4>9 DEF FirstMatch, w
      <4> HIDE DEF first, n
      <4> QED
          BY <4>2, <4>11, <4>12
    <3>2. Place(o, n) = at
        BY <1>5, <1>6, <3>1 DEF Place
    <3> QED
        BY <1>3, <3>2
  <2> QED
      BY <2>1, <2>2
<1>20. InsertAt(o, n, ids, values) = r
  <2>1. InsertAt(o, n, ids, values)
          = [ids |-> Splice(o.ids, fresh, Place(o, n)), entries |-> Merged(o, ids, values)]
      BY InsertParts DEF fresh
  <2> HIDE DEF n
  <2> QED
      BY <1>2, <1>3, <1>19, <2>1
<1> QED
    BY <1>16, <1>20 DEF r, block, Restored

\* One element more, which is kept or not.
Adds(s, x, set) ==
    Among(Append(s, x), set) = IF x \in set THEN Append(Among(s, set), x) ELSE Among(s, set)

\* What append put last is filtered like the rest.
LEMMA AmongAppend ==
    ASSUME NEW D, NEW s \in Seq(D), NEW x \in D, NEW set
    PROVE  Adds(s, x, set)
<1> DEFINE t == <<x>>
<1>1. t \in Seq(D) /\ Append(s, x) = s \o t /\ Ids(t) = {x}
    BY DEF Ids
<1>2. Among(s, set) \in Seq(D)
    BY AmongFacts
<1> DEFINE a == Among(s, set)
<1>3. a \o <<x>> = Append(a, x) /\ a \o <<>> = a
    BY <1>2
<1>4. (x \in set => Among(t, set) = t) /\ (x \notin set => Among(t, set) = <<>>)
  <2> HIDE DEF t
  <2> QED
      BY <1>1, AmongEnds
<1>5. Among(s \o t, set) = a \o Among(t, set)
  <2>1. Splits(s, t, set)
      BY <1>1, AmongSplit
  <2> QED
      BY <2>1 DEF Splits
<1> HIDE DEF a
<1>6. Among(Append(s, x), set) = IF x \in set THEN Append(a, x) ELSE a
    BY <1>1, <1>3, <1>4, <1>5
<1> QED
    BY <1>6 DEF Adds, a

Twice(s, S, T) == Among(Among(s, S), T) = Among(s, S \cap T)

\* To filter twice is to filter once, for both.
LEMMA AmongTwice ==
    ASSUME NEW D, NEW s \in Seq(D), NEW S, NEW T
    PROVE  Twice(s, S, T)
<1>1. Len(s) \in Nat /\ \A i \in 1..Len(s) : s[i] \in D
    OBVIOUS
<1>2. PICK f : /\ f[0] = <<>>
               /\ \A k \in 0..(Len(s) - 1) :
                     f[k + 1] = IF s[k + 1] \in S THEN Append(f[k], s[k + 1]) ELSE f[k]
               /\ Among(s, S) = f[Len(s)]
    BY AmongSteps
<1>3. PICK g : /\ g[0] = <<>>
               /\ \A k \in 0..(Len(s) - 1) :
                     g[k + 1] = IF s[k + 1] \in S \cap T THEN Append(g[k], s[k + 1]) ELSE g[k]
               /\ Among(s, S \cap T) = g[Len(s)]
    BY AmongSteps
<1> DEFINE Agree == {k \in 0..Len(s) : f[k] \in Seq(D) /\ Among(f[k], T) = g[k]}
<1>4. 0 \in Agree /\ Agree \subseteq 0..Len(s)
  <2>1. <<>> \in Seq(D) /\ Ids(<<>>) = {}
      BY DEF Ids
  <2>2. Among(<<>>, T) = <<>>
      BY <2>1, AmongEnds
  <2>3. 0 \in 0..Len(s)
      BY <1>1
  <2>4. f[0] \in Seq(D) /\ Among(f[0], T) = g[0]
      BY <1>2, <1>3, <2>1, <2>2
  <2> QED
      BY <2>3, <2>4
<1>5. ASSUME NEW k \in 0..(Len(s) - 1), k \in Agree PROVE k + 1 \in Agree
  <2>1. /\ k + 1 \in 0..Len(s) /\ k + 1 \in 1..Len(s) /\ s[k + 1] \in D
        /\ f[k] \in Seq(D) /\ Among(f[k], T) = g[k]
      BY <1>1, <1>5
  <2>2. Adds(f[k], s[k + 1], T)
      BY <2>1, AmongAppend
  <2>3. f[k + 1] \in Seq(D)
    <3>1. Append(f[k], s[k + 1]) \in Seq(D)
        BY <2>1
    <3>2. f[k + 1] = Append(f[k], s[k + 1]) \/ f[k + 1] = f[k]
        BY <1>2
    <3> QED
        BY <2>1, <3>1, <3>2
  <2>4. Among(f[k + 1], T) = g[k + 1]
      BY <1>2, <1>3, <2>1, <2>2 DEF Adds
  <2> QED
      BY <2>1, <2>3, <2>4
<1> HIDE DEF Agree
<1>6. \A k \in 0..Len(s) : k \in Agree
    BY <1>1, <1>4, <1>5, Positions
<1>7. Len(s) \in Agree
    BY <1>1, <1>6
<1> QED
    BY <1>2, <1>3, <1>7 DEF Agree, Twice

KeepBoth(o, S, T) == Keep(Keep(o, S), T) = Keep(o, S \cap T)

\* deleteWhere after deleteWhere.
LEMMA KeepTwice ==
    ASSUME NEW o, NEW S, NEW T, Sound(o)
    PROVE  KeepBoth(o, S, T)
<1>1. Among(Among(o.ids, S), T) = Among(o.ids, S \cap T)
  <2>1. o.ids \in Seq(DOMAIN o.entries)
      BY PartsOfSound
  <2>2. Twice(o.ids, S, T)
      BY <2>1, AmongTwice
  <2> QED
      BY <2>2 DEF Twice
<1> DEFINE e == [x \in DOMAIN o.entries \cap S |-> o.entries[x]]
<1>2. [x \in DOMAIN e \cap T |-> e[x]] = [x \in DOMAIN o.entries \cap (S \cap T) |-> o.entries[x]]
    OBVIOUS
<1> HIDE DEF e
<1>3. Keep(o, S) = [ids |-> Among(o.ids, S), entries |-> e]
    BY DEF Keep, e
<1>4. Keep(Keep(o, S), T) = [ids |-> Among(Among(o.ids, S), T),
                             entries |-> [x \in DOMAIN e \cap T |-> e[x]]]
    BY <1>3 DEF Keep
<1>5. Keep(o, S \cap T) = [ids |-> Among(o.ids, S \cap T),
                           entries |-> [x \in DOMAIN o.entries \cap (S \cap T) |-> o.entries[x]]]
    BY DEF Keep
<1> QED
    BY <1>1, <1>2, <1>4, <1>5 DEF KeepBoth

\* set and then deleteWhere, a second time: the value is held at its place, or
\* it is among those deleted.
LEMMA SetKeepAgain ==
    ASSUME NEW o, NEW i, NEW v, NEW S, NEW r, NEW T, Sound(o),
           r = Keep(Set(o, i, v), S),
           \A x \in DOMAIN Set(r, i, v).entries : x \in T <=> x \in S
    PROVE  Keep(Set(r, i, v), T) = r
<1> DEFINE q == Set(o, i, v)
           p == Set(r, i, v)
<1>1. Sound(q) /\ Sound(r) /\ Sound(p)
    BY SetSound, KeepSound
<1>2. /\ DOMAIN r.entries = DOMAIN q.entries \cap S
      /\ i \in S => Has(r, i) /\ r.entries[i] = v
      /\ i \notin S => ~Has(r, i)
  <2>1. i \in DOMAIN q.entries /\ q.entries[i] = v
      BY SetHolds DEF Has
  <2> HIDE DEF q
  <2>2. DOMAIN r.entries = DOMAIN q.entries \cap S
        /\ \A x \in DOMAIN q.entries \cap S : r.entries[x] = q.entries[x]
      BY KeepHolds DEF q
  <2> QED
      BY <2>1, <2>2 DEF Has
<1>3. DOMAIN p.entries = DOMAIN r.entries \cup {i}
    BY SetHolds
<1> HIDE DEF q
<1>4. CASE i \in S
  <2>1. p = r
      BY <1>1, <1>2, <1>4, SetAgain
  <2>2. DOMAIN r.entries \subseteq T
      BY <1>2, <2>1
  <2> QED
      BY <1>1, <2>1, <2>2, KeepAgain
<1>5. CASE i \notin S
  <2>1. p.ids = Append(r.ids, i)
      BY <1>2, <1>5 DEF Set
  <2>2. DOMAIN r.entries \subseteq T /\ i \notin T
      BY <1>2, <1>3, <1>5
  <2>3. r.ids \in Seq(DOMAIN p.entries) /\ Ids(r.ids) = DOMAIN r.entries
        /\ r.entries = [x \in DOMAIN r.entries |-> r.entries[x]]
        /\ r = [ids |-> r.ids, entries |-> r.entries]
    <3>1. r.ids \in Seq(DOMAIN r.entries) /\ Ids(r.ids) = DOMAIN r.entries
        BY <1>1, PartsOfSound
    <3>2. Ids(r.ids) \subseteq DOMAIN p.entries
        BY <1>3, <3>1
    <3> QED
        BY <1>1, <3>1, <3>2, Narrow DEF Sound
  <2>4. Among(p.ids, T) = r.ids
    <3>1. i \in DOMAIN p.entries
        BY <1>3
    <3> HIDE DEF p
    <3>2. Adds(r.ids, i, T)
        BY <2>3, <3>1, AmongAppend
    <3>3. Among(r.ids, T) = r.ids
        BY <2>2, <2>3, AmongEnds
    <3> QED
        BY <2>1, <2>2, <3>2, <3>3 DEF Adds
  <2>5. [x \in DOMAIN p.entries \cap T |-> p.entries[x]] = r.entries
    <3>1. DOMAIN p.entries \cap T = DOMAIN r.entries
        BY <1>3, <2>2
    <3>2. \A x \in DOMAIN r.entries : p.entries[x] = r.entries[x]
        BY <2>2, SetHolds
    <3> HIDE DEF p
    <3> QED
        BY <2>3, <3>1, <3>2
  <2> HIDE DEF p
  <2>6. Keep(p, T) = [ids |-> r.ids, entries |-> r.entries]
      BY <2>4, <2>5 DEF Keep
  <2> QED
      BY <2>3, <2>6 DEF p
<1> QED
    BY <1>4, <1>5

\* The entry listed last, deleted and set again, is listed last again.
LEMMA LastAgain ==
    ASSUME NEW o, NEW i, NEW v, NEW s, Sound(o), o.ids = Append(s, i),
           s \in Seq(DOMAIN o.entries), i \in DOMAIN o.entries, o.entries[i] = v
    PROVE  Set(Delete(o, i), i, v) = o
<1> DEFINE D == DOMAIN o.entries
           d == Delete(o, i)
           e == [x \in DOMAIN d.entries \cup {i} |-> IF x = i THEN v ELSE d.entries[x]]
<1>1. i \notin Ids(s)
  <2>1. Distinct(o.ids)
      BY PartsOfSound
  <2>2. Len(s) \in Nat /\ Len(o.ids) = Len(s) + 1 /\ o.ids[Len(s) + 1] = i
        /\ \A j \in 1..Len(s) : o.ids[j] = s[j]
      OBVIOUS
  <2> QED
      BY <2>1, <2>2 DEF Distinct, Ids
<1>2. Ids(s) \subseteq D \ {i}
    BY <1>1 DEF Ids
<1>3. Among(o.ids, D \ {i}) = s
  <2>1. Adds(s, i, D \ {i})
      BY AmongAppend
  <2>2. Among(s, D \ {i}) = s
      BY <1>2, AmongEnds
  <2> QED
      BY <2>1, <2>2 DEF Adds
<1>4. d.ids = s
    BY <1>3 DEF Delete, Keep
<1>5. DOMAIN d.entries = D \ {i} /\ \A x \in D \ {i} : d.entries[x] = o.entries[x]
    BY DEF Delete, Keep
<1>6. ~Has(d, i)
    BY <1>5 DEF Has
<1> HIDE DEF d
<1>7. o.entries = [x \in D |-> o.entries[x]] /\ o = [ids |-> o.ids, entries |-> o.entries]
    BY DEF Sound
<1>8. e = o.entries
  <2>1. \A x \in D : o.entries[x] = IF x = i THEN v ELSE d.entries[x]
      BY <1>5
  <2>2. DOMAIN d.entries \cup {i} = D
      BY <1>5
  <2> QED
      BY ONLY <1>7, <2>1, <2>2
<1>9. Set(d, i, v) = [ids |-> Append(d.ids, i), entries |-> e]
    BY <1>6 DEF Set
<1> HIDE DEF e
<1> QED
    BY <1>4, <1>7, <1>8, <1>9 DEF d

\* delete of one id, set under another or the same, then deleteWhere.
Rekeyed(o, gone, i, v) == Set(Delete(o, gone), i, v)

\* The same a second time, whether the entry stays or is among those deleted.
LEMMA RekeyAgain ==
    ASSUME NEW o, NEW gone, NEW i, NEW v, NEW S, NEW r, NEW T, Sound(o),
           r = Keep(Rekeyed(o, gone, i, v), S),
           \A x \in DOMAIN Rekeyed(r, gone, i, v).entries : x \in T <=> x \in S
    PROVE  Keep(Rekeyed(r, gone, i, v), T) = r
<1> DEFINE d == Delete(o, gone)
           q == Set(d, i, v)
<1>1. Sound(d) /\ Sound(q) /\ Sound(r)
    BY DeleteSound, SetSound, KeepSound DEF Rekeyed
<1>2. r = Keep(q, S)
    BY DEF Rekeyed
<1>3. DOMAIN q.entries = (DOMAIN o.entries \ {gone}) \cup {i} /\ q.entries[i] = v
  <2>1. DOMAIN d.entries = DOMAIN o.entries \ {gone}
      BY DEF Delete, Keep
  <2> HIDE DEF d
  <2> QED
      BY <2>1, SetHolds
<1>4. DOMAIN r.entries = DOMAIN q.entries \cap S
      /\ \A x \in DOMAIN r.entries : r.entries[x] = q.entries[x]
  <2> HIDE DEF q
  <2> QED
      BY <1>2, KeepHolds
<1>5. CASE ~Has(r, gone)
  <2>1. Delete(r, gone) = r
      BY <1>1, <1>5, DeleteAgain
  <2>2. Rekeyed(r, gone, i, v) = Set(r, i, v)
      BY <2>1 DEF Rekeyed
  <2>3. Keep(Set(r, i, v), T) = r
    <3> HIDE DEF d
    <3> QED
        BY <1>1, <1>2, <2>2, SetKeepAgain
  <2> QED
      BY <2>2, <2>3
<1>6. CASE Has(r, gone)
  <2>1. gone = i /\ i \in S /\ i \in DOMAIN r.entries /\ r.entries[i] = v
      BY <1>3, <1>4, <1>6 DEF Has
  <2>2. ~Has(d, i)
      BY <2>1 DEF Delete, Keep, Has
  <2>3. q.ids = Append(d.ids, i)
      BY <2>2 DEF Set
  <2> DEFINE s == Among(d.ids, S)
             D == DOMAIN q.entries
  <2>4. d.ids \in Seq(D) /\ i \in D
    <3>1. d.ids \in Seq(DOMAIN d.entries)
        BY <1>1, PartsOfSound
    <3>2. DOMAIN q.entries = DOMAIN d.entries \cup {i}
        BY SetHolds
    <3> HIDE DEF d, q
    <3>3. Ids(d.ids) \subseteq D
        BY <1>1, <3>2, PartsOfSound
    <3> QED
        BY <3>1, <3>2, <3>3, Narrow
  <2> HIDE DEF d, q, D
  <2>5. r.ids = Append(s, i)
    <3>1. Adds(d.ids, i, S)
        BY <2>4, AmongAppend
    <3>2. r.ids = Among(q.ids, S)
        BY <1>2 DEF Keep
    <3> QED
        BY <2>1, <2>3, <3>1, <3>2 DEF Adds
  <2>6. s \in Seq(DOMAIN r.entries)
    <3>1. s \in Seq(D) /\ Ids(s) = Ids(d.ids) \cap S
        BY <2>4, AmongFacts
    <3>2. Ids(s) \subseteq DOMAIN r.entries
        BY <1>4, <2>4, <3>1 DEF Ids, D
    <3> QED
        BY <3>1, <3>2, Narrow
  <2> HIDE DEF s
  <2>7. Set(Delete(r, i), i, v) = r
      BY <1>1, <2>1, <2>5, <2>6, LastAgain
  <2>8. Rekeyed(r, gone, i, v) = r
      BY <2>1, <2>7 DEF Rekeyed
  <2>9. DOMAIN r.entries \subseteq T
      BY <1>4, <2>8
  <2> QED
      BY <1>1, <2>8, <2>9, KeepAgain
<1> QED
    BY <1>5, <1>6

-----------------------------------------------------------------------------
(* Every entry has one place *)

\* A cache that newSessionCache made or a handler left.
SoundCache(c) ==
    /\ DOMAIN c = {"workspaces", "tabs", "panes", "agents", "layouts"}
    /\ c = [part \in DOMAIN c |-> c[part]]
    /\ Sound(c.workspaces)
    /\ Sound(c.tabs)
    /\ Sound(c.panes)
    /\ Sound(c.agents)
    /\ Sound(c.layouts)

\* A list of records, as JSON decodes one.
IsList(s) == s \in Seq(Ids(s))

\* What the decoder gives the reducer: the lists of an event are lists.
Decoded(e) ==
    /\ e.type = "WorkspaceMoved" => IsList(e.workspaces)
    /\ e.type = "TabMoved" => IsList(e.tabs)

\* The ids of a list of records, which is how Go passes a key function.
LEMMA IdsOfList ==
    ASSUME NEW s, IsList(s)
    PROVE  \E X : IdsOf(s) \in Seq(X)
<1>1. DOMAIN s = 1..Len(s) /\ Len(s) \in Nat
    BY DEF IsList
<1>2. IdsOf(s) \in Seq({s[i].id : i \in 1..Len(s)})
    BY <1>1 DEF IdsOf
<1> QED
    BY <1>2

\* setPane: the agent of the pane follows only if there is one.
LEMMA SetPaneSound ==
    ASSUME NEW c, NEW pane, SoundCache(c)
    PROVE  SoundCache(setPane(c, pane))
<1>1. Sound(Set(c.panes, pane.id, pane))
    BY SetSound DEF SoundCache
<1>2. Sound(Set(c.agents, pane.id, mergeAgent(c.agents.entries[pane.id], pane)))
    BY SetSound DEF SoundCache
<1> QED
    BY <1>1, <1>2 DEF SoundCache, setPane

\* closePane: the agent goes with its pane.
LEMMA ClosePaneSound ==
    ASSUME NEW c, NEW id, SoundCache(c)
    PROVE  SoundCache(closePane(c, id))
<1>1. Sound(Delete(c.panes, id)) /\ Sound(Delete(c.agents, id))
    BY DeleteSound DEF SoundCache
<1> QED
    BY <1>1 DEF SoundCache, closePane

\* closeTab, which leaves several collections.
LEMMA CloseTabSound ==
    ASSUME NEW c, NEW id, SoundCache(c)
    PROVE  SoundCache(closeTab(c, id))
<1>1. /\ Sound(Delete(c.tabs, id)) /\ Sound(Delete(c.layouts, id))
      /\ Sound(DeleteWhere(c.panes, InTab(c.panes, id)))
      /\ Sound(DeleteWhere(c.agents, InTab(c.agents, id)))
    BY DeleteSound DEF SoundCache
<1> QED
    BY <1>1 DEF SoundCache, closeTab

\* closeWorkspace, which leaves all of them.
LEMMA CloseWorkspaceSound ==
    ASSUME NEW c, NEW id, SoundCache(c)
    PROVE  SoundCache(closeWorkspace(c, id))
<1>1. /\ Sound(Delete(c.workspaces, id))
      /\ Sound(DeleteWhere(c.tabs, InWorkspace(c.tabs, id)))
      /\ Sound(DeleteWhere(c.panes, InWorkspace(c.panes, id)))
      /\ Sound(DeleteWhere(c.agents, InWorkspace(c.agents, id)))
      /\ Sound(DeleteWhere(c.layouts, InWorkspace(c.layouts, id)))
    BY DeleteSound DEF SoundCache
<1> QED
    BY <1>1 DEF SoundCache, closeWorkspace

\* movePane: the pane is rekeyed in two collections, with up to two containers
\* made and up to two closed.
LEMMA MovePaneSound ==
    ASSUME NEW c, NEW e, SoundCache(c)
    PROVE  SoundCache(movePane(c, e))
<1> DEFINE created == [c EXCEPT
               !.workspaces = IF e.createdWorkspace = Absent THEN @
                              ELSE Set(@, e.createdWorkspace.id, e.createdWorkspace),
               !.tabs = IF e.createdTab = Absent THEN @
                        ELSE Set(@, e.createdTab.id, e.createdTab)]
           left == closePane(created, e.previous)
           moved == [left EXCEPT
               !.panes = Set(@, e.pane.id, e.pane),
               !.agents = IF Has(c.agents, e.previous)
                          THEN Set(@, e.pane.id,
                                   mergeAgent(c.agents.entries[e.previous], e.pane))
                          ELSE @]
           tabClosed == IF e.closedTab = Absent THEN moved
                        ELSE closeTab(moved, e.closedTab)
<1>1. SoundCache(created)
  <2>1. /\ Sound(Set(c.workspaces, e.createdWorkspace.id, e.createdWorkspace))
        /\ Sound(Set(c.tabs, e.createdTab.id, e.createdTab))
      BY SetSound DEF SoundCache
  <2> QED
      BY <2>1 DEF SoundCache
<1>2. movePane(c, e) = IF e.closedWorkspace = Absent THEN tabClosed
                       ELSE closeWorkspace(tabClosed, e.closedWorkspace)
    BY DEF movePane
<1> HIDE DEF created
<1>3. SoundCache(left)
    BY <1>1, ClosePaneSound
<1> HIDE DEF left
<1>4. SoundCache(moved)
  <2>1. /\ Sound(Set(left.panes, e.pane.id, e.pane))
        /\ Sound(Set(left.agents, e.pane.id,
                     mergeAgent(c.agents.entries[e.previous], e.pane)))
      BY <1>3, SetSound DEF SoundCache
  <2> QED
      BY <1>3, <2>1 DEF SoundCache
<1> HIDE DEF moved
<1>5. SoundCache(tabClosed)
    BY <1>4, CloseTabSound
<1> HIDE DEF tabClosed
<1> QED
    BY <1>2, <1>5, CloseWorkspaceSound

\* reorderTabs: the tabs of a workspace are taken out and put back, as a
\* block, where the first of them was.
LEMMA ReorderTabsSound ==
    ASSUME NEW c, NEW ws, NEW tabs, SoundCache(c), IsList(tabs)
    PROVE  SoundCache(reorderTabs(c, ws, tabs))
<1> DEFINE inside == InWorkspace(c.tabs, ws)
           at == FirstMatch(c.tabs, inside)
<1>1. Sound(DeleteWhere(c.tabs, inside))
    BY DeleteSound DEF SoundCache
<1>2. at \in Int
  <2>1. Sound(c.tabs)
      BY DEF SoundCache
  <2>2. Len(c.tabs.ids) \in Nat
      BY <2>1, PartsOfSound
  <2> QED
      BY <2>1, <2>2, FirstMatchFacts
<1>3. Sound(InsertAt(DeleteWhere(c.tabs, inside), at, IdsOf(tabs), tabs))
    BY <1>1, <1>2, IdsOfList, InsertAtSound
<1> QED
    BY <1>3 DEF SoundCache, reorderTabs

\* applyAgentDetected: the agent appears, changes or goes with its pane kept.
LEMMA AgentDetectedSound ==
    ASSUME NEW c, NEW e, SoundCache(c)
    PROVE  SoundCache(applyAgentDetected(c, e))
<1>1. \A pane, agent : Sound(Set(c.panes, e.id, pane)) /\ Sound(Set(c.agents, e.id, agent))
    BY SetSound DEF SoundCache
<1>2. Sound(Delete(c.agents, e.id))
    BY DeleteSound DEF SoundCache
<1> QED
    BY <1>1, <1>2 DEF SoundCache, applyAgentDetected

\* applyAgentStatus: only entries that are held are rewritten.
LEMMA AgentStatusSound ==
    ASSUME NEW c, NEW e, SoundCache(c)
    PROVE  SoundCache(applyAgentStatus(c, e))
<1>1. \A pane, agent : Sound(Set(c.panes, e.id, pane)) /\ Sound(Set(c.agents, e.id, agent))
    BY SetSound DEF SoundCache
<1> QED
    BY <1>1 DEF SoundCache, applyAgentStatus

\* The focused flag and the names are rewritten in place.
LEMMA FocusSound ==
    ASSUME NEW o, NEW id, NEW label, Sound(o)
    PROVE  Sound(FocusOnly(o, id)) /\ Sound(Relabel(o, id, label))
<1> DEFINE e == [x \in DOMAIN o.entries |-> [o.entries[x] EXCEPT !.focused = (x = id)]]
<1>1. DOMAIN e = DOMAIN o.entries /\ e = [x \in DOMAIN e |-> e[x]]
    OBVIOUS
<1> HIDE DEF e
<1>2. Sound(Update(o, e))
    BY <1>1, UpdateSound
<1>3. Sound(Set(o, id, [o.entries[id] EXCEPT !.label = label]))
    BY SetSound
<1> QED
    BY <1>2, <1>3 DEF FocusOnly, Relabel, e

\* focusPane: the flag is rewritten everywhere and one layout follows.
LEMMA FocusPaneSound ==
    ASSUME NEW c, NEW id, SoundCache(c)
    PROVE  SoundCache(focusPane(c, id))
<1>1. Sound(FocusOnly(c.panes, id)) /\ Sound(FocusOnly(c.agents, id))
    BY FocusSound DEF SoundCache
<1>2. \A tab, layout : Sound(Set(c.layouts, tab, layout))
    BY SetSound DEF SoundCache
<1> QED
    BY <1>1, <1>2 DEF SoundCache, focusPane

\* sessionCache.apply keeps one place for each entry, whatever the cache holds
\* and whatever the event says.
THEOREM ApplySound ==
    ASSUME NEW c, NEW e, SoundCache(c), Decoded(e)
    PROVE  SoundCache(apply(c, e))
<1>1. /\ \A workspace : Sound(Set(c.workspaces, e.workspace.id, workspace))
      /\ \A id, label : Sound(Relabel(c.workspaces, id, label))
      /\ \A id : Sound(FocusOnly(c.workspaces, id))
      /\ \A tab : Sound(Set(c.tabs, e.tab.id, tab))
      /\ \A id, label : Sound(Relabel(c.tabs, id, label))
      /\ \A id : Sound(FocusOnly(c.tabs, id))
      /\ \A layout : Sound(Set(c.layouts, e.layout.tab, layout))
    BY SetSound, FocusSound DEF SoundCache
<1>2. CASE e.type = "WorkspaceSet"
    BY <1>1, <1>2 DEF SoundCache, apply
<1>3. CASE e.type = "WorkspaceRenamed"
    BY <1>1, <1>3 DEF SoundCache, apply
<1>4. CASE e.type = "WorkspaceMoved"
    <2>1. Sound(Reset(IdsOf(e.workspaces), e.workspaces))
        BY <1>4, IdsOfList, ResetSound DEF Decoded
    <2> QED
        BY <1>4, <2>1 DEF SoundCache, apply
<1>5. CASE e.type = "WorkspaceFocused"
    BY <1>1, <1>5 DEF SoundCache, apply
<1>6. CASE e.type = "WorkspaceClosed"
    BY <1>6, CloseWorkspaceSound DEF apply
<1>7. CASE e.type = "TabCreated"
    BY <1>1, <1>7 DEF SoundCache, apply
<1>8. CASE e.type = "TabRenamed"
    BY <1>1, <1>8 DEF SoundCache, apply
<1>9. CASE e.type = "TabMoved"
    BY <1>9, ReorderTabsSound DEF apply, Decoded
<1>10. CASE e.type = "TabFocused"
    BY <1>1, <1>10 DEF SoundCache, apply
<1>11. CASE e.type = "TabClosed"
    BY <1>11, CloseTabSound DEF apply
<1>12. CASE e.type = "PaneSet"
    BY <1>12, SetPaneSound DEF apply
<1>13. CASE e.type = "PaneMoved"
    BY <1>13, MovePaneSound DEF apply
<1>14. CASE e.type = "PaneFocused"
    BY <1>14, FocusPaneSound DEF apply
<1>15. CASE e.type = "PaneClosed"
    BY <1>15, ClosePaneSound DEF apply
<1>16. CASE e.type = "PaneRevised"
    BY <1>16, SetPaneSound DEF apply
<1>17. CASE e.type = "PaneAgentDetected"
    BY <1>17, AgentDetectedSound DEF apply
<1>18. CASE e.type = "PaneAgentStatusChanged"
    BY <1>18, AgentStatusSound DEF apply
<1>19. CASE e.type = "LayoutUpdated"
    BY <1>1, <1>19 DEF SoundCache, apply
<1>20. CASE e.type \notin {"WorkspaceSet", "WorkspaceRenamed", "WorkspaceMoved",
                           "WorkspaceFocused", "WorkspaceClosed", "TabCreated",
                           "TabRenamed", "TabMoved", "TabFocused", "TabClosed", "PaneSet",
                           "PaneMoved", "PaneFocused", "PaneClosed", "PaneRevised",
                           "PaneAgentDetected", "PaneAgentStatusChanged", "LayoutUpdated"}
    BY <1>20 DEF apply
<1> QED
    BY <1>2, <1>3, <1>4, <1>5, <1>6, <1>7, <1>8, <1>9, <1>10, <1>11, <1>12, <1>13,
       <1>14, <1>15, <1>16, <1>17, <1>18, <1>19, <1>20

-----------------------------------------------------------------------------
(* The same event twice *)

\* Two caches that agree collection by collection are one.
LEMMA SameCache ==
    ASSUME NEW c, NEW d, SoundCache(c), SoundCache(d),
           c.workspaces = d.workspaces, c.tabs = d.tabs, c.panes = d.panes,
           c.agents = d.agents, c.layouts = d.layouts
    PROVE  c = d
    BY DEF SoundCache

\* What is gone stays gone: nothing is left to delete.
LEMMA GoneAgain ==
    ASSUME NEW o, NEW id, NEW r, Sound(o)
    PROVE  /\ r = Delete(o, id) => Delete(r, id) = r
           /\ r = DeleteWhere(o, InTab(o, id)) => DeleteWhere(r, InTab(r, id)) = r
           /\ r = DeleteWhere(o, InWorkspace(o, id))
                => DeleteWhere(r, InWorkspace(r, id)) = r
<1>1. ASSUME r = Delete(o, id) PROVE Delete(r, id) = r
  <2>1. ~Has(r, id)
      BY <1>1 DEF Delete, Keep, Has
  <2> QED
      BY <1>1, <2>1, DeleteSound, DeleteAgain
<1>2. ASSUME r = DeleteWhere(o, InTab(o, id)) PROVE DeleteWhere(r, InTab(r, id)) = r
  <2>1. InTab(r, id) \cap DOMAIN r.entries = {}
      BY <1>2 DEF DeleteWhere, Keep, InTab
  <2> QED
      BY <1>2, <2>1, DeleteSound, DeleteAgain
<1>3. ASSUME r = DeleteWhere(o, InWorkspace(o, id))
      PROVE  DeleteWhere(r, InWorkspace(r, id)) = r
  <2>1. InWorkspace(r, id) \cap DOMAIN r.entries = {}
      BY <1>3 DEF DeleteWhere, Keep, InWorkspace
  <2> QED
      BY <1>3, <2>1, DeleteSound, DeleteAgain
<1> QED
    BY <1>1, <1>2, <1>3

\* set of the same value: the second changes nothing.
LEMMA SetTwice ==
    ASSUME NEW o, NEW id, NEW value, NEW r, Sound(o), r = Set(o, id, value)
    PROVE  Set(r, id, value) = r
    BY SetHolds, SetSound, SetAgain

\* An agent that took its pane's fields takes them again.
LEMMA MergeAgain ==
    ASSUME NEW agent, NEW pane
    PROVE  mergeAgent(mergeAgent(agent, pane), pane) = mergeAgent(agent, pane)
    BY DEF mergeAgent

\* pane.created and pane.updated, a second time.
LEMMA SetPaneTwice ==
    ASSUME NEW c, NEW pane, SoundCache(c)
    PROVE  setPane(setPane(c, pane), pane) = setPane(c, pane)
<1> DEFINE d == setPane(c, pane)
           id == pane.id
           agent == mergeAgent(c.agents.entries[id], pane)
<1>1. SoundCache(d) /\ SoundCache(setPane(d, pane))
    BY SetPaneSound
<1>2. /\ d.panes = Set(c.panes, id, pane)
      /\ d.agents = IF Has(c.agents, id) THEN Set(c.agents, id, agent) ELSE c.agents
    BY DEF SoundCache, setPane
<1> DEFINE e == setPane(d, pane)
<1>3. /\ e.panes = Set(d.panes, id, pane)
      /\ e.agents = IF Has(d.agents, id)
                    THEN Set(d.agents, id, mergeAgent(d.agents.entries[id], pane))
                    ELSE d.agents
      /\ e.workspaces = d.workspaces /\ e.tabs = d.tabs /\ e.layouts = d.layouts
    BY <1>1 DEF SoundCache, setPane
<1> HIDE DEF d, e
<1>4. Sound(c.panes) /\ Sound(c.agents)
    BY DEF SoundCache
<1>5. Set(d.panes, id, pane) = d.panes
    BY <1>2, <1>4, SetTwice
<1>6. e.agents = d.agents
  <2>1. CASE Has(c.agents, id)
    <3>1. Has(d.agents, id) /\ d.agents.entries[id] = agent
        BY <1>2, <2>1, SetHolds
    <3>2. mergeAgent(agent, pane) = agent
        BY MergeAgain
    <3> HIDE DEF agent
    <3>3. Set(d.agents, id, agent) = d.agents
        BY <1>2, <1>4, <2>1, SetTwice
    <3> QED
        BY <1>3, <3>1, <3>2, <3>3
  <2>2. CASE ~Has(c.agents, id)
      BY <1>2, <1>3, <2>2
  <2> QED
      BY <2>1, <2>2
<1>7. SoundCache(d) /\ SoundCache(e)
    BY <1>1 DEF e
<1>8. e = d
    BY <1>3, <1>5, <1>6, <1>7, SameCache
<1> QED
    BY <1>8 DEF d, e

\* pane.closed, a second time.
LEMMA ClosePaneTwice ==
    ASSUME NEW c, NEW id, SoundCache(c)
    PROVE  closePane(closePane(c, id), id) = closePane(c, id)
<1> DEFINE d == closePane(c, id)
           e == closePane(d, id)
<1>1. SoundCache(d) /\ SoundCache(e)
    BY ClosePaneSound
<1>2. d.panes = Delete(c.panes, id) /\ d.agents = Delete(c.agents, id)
    BY DEF SoundCache, closePane
<1>3. /\ e.panes = Delete(d.panes, id) /\ e.agents = Delete(d.agents, id)
      /\ e.workspaces = d.workspaces /\ e.tabs = d.tabs /\ e.layouts = d.layouts
    BY <1>1 DEF SoundCache, closePane
<1> HIDE DEF d, e
<1>4. Delete(d.panes, id) = d.panes /\ Delete(d.agents, id) = d.agents
    BY <1>2, GoneAgain DEF SoundCache
<1>5. e = d
    BY <1>1, <1>3, <1>4, SameCache
<1> QED
    BY <1>5 DEF d, e

\* tab.closed, a second time.
LEMMA CloseTabTwice ==
    ASSUME NEW c, NEW id, SoundCache(c)
    PROVE  closeTab(closeTab(c, id), id) = closeTab(c, id)
<1> DEFINE d == closeTab(c, id)
           e == closeTab(d, id)
<1>1. SoundCache(d) /\ SoundCache(e)
    BY CloseTabSound
<1>2. /\ d.tabs = Delete(c.tabs, id) /\ d.layouts = Delete(c.layouts, id)
      /\ d.panes = DeleteWhere(c.panes, InTab(c.panes, id))
      /\ d.agents = DeleteWhere(c.agents, InTab(c.agents, id))
    BY DEF SoundCache, closeTab
<1>3. /\ e.tabs = Delete(d.tabs, id) /\ e.layouts = Delete(d.layouts, id)
      /\ e.panes = DeleteWhere(d.panes, InTab(d.panes, id))
      /\ e.agents = DeleteWhere(d.agents, InTab(d.agents, id))
      /\ e.workspaces = d.workspaces
    BY <1>1 DEF SoundCache, closeTab
<1> HIDE DEF d, e
<1>4. /\ Delete(d.tabs, id) = d.tabs /\ Delete(d.layouts, id) = d.layouts
      /\ DeleteWhere(d.panes, InTab(d.panes, id)) = d.panes
      /\ DeleteWhere(d.agents, InTab(d.agents, id)) = d.agents
    BY <1>2, GoneAgain DEF SoundCache
<1>5. e = d
    BY <1>1, <1>3, <1>4, SameCache
<1> QED
    BY <1>5 DEF d, e

\* workspace.closed, a second time.
LEMMA CloseWorkspaceTwice ==
    ASSUME NEW c, NEW id, SoundCache(c)
    PROVE  closeWorkspace(closeWorkspace(c, id), id) = closeWorkspace(c, id)
<1> DEFINE d == closeWorkspace(c, id)
           e == closeWorkspace(d, id)
<1>1. SoundCache(d) /\ SoundCache(e)
    BY CloseWorkspaceSound
<1>2. /\ d.workspaces = Delete(c.workspaces, id)
      /\ d.tabs = DeleteWhere(c.tabs, InWorkspace(c.tabs, id))
      /\ d.panes = DeleteWhere(c.panes, InWorkspace(c.panes, id))
      /\ d.agents = DeleteWhere(c.agents, InWorkspace(c.agents, id))
      /\ d.layouts = DeleteWhere(c.layouts, InWorkspace(c.layouts, id))
    BY DEF closeWorkspace
<1>3. /\ e.workspaces = Delete(d.workspaces, id)
      /\ e.tabs = DeleteWhere(d.tabs, InWorkspace(d.tabs, id))
      /\ e.panes = DeleteWhere(d.panes, InWorkspace(d.panes, id))
      /\ e.agents = DeleteWhere(d.agents, InWorkspace(d.agents, id))
      /\ e.layouts = DeleteWhere(d.layouts, InWorkspace(d.layouts, id))
    BY DEF closeWorkspace
<1> HIDE DEF d, e
<1>4. /\ Delete(d.workspaces, id) = d.workspaces
      /\ DeleteWhere(d.tabs, InWorkspace(d.tabs, id)) = d.tabs
      /\ DeleteWhere(d.panes, InWorkspace(d.panes, id)) = d.panes
      /\ DeleteWhere(d.agents, InWorkspace(d.agents, id)) = d.agents
      /\ DeleteWhere(d.layouts, InWorkspace(d.layouts, id)) = d.layouts
    BY <1>2, GoneAgain DEF SoundCache
<1>5. e = d
    BY <1>1, <1>3, <1>4, SameCache
<1> QED
    BY <1>5 DEF d, e

\* A flag or a name assigned twice.
LEMMA AssignTwice ==
    ASSUME NEW o, NEW id, NEW label, NEW r, Sound(o)
    PROVE  /\ r = FocusOnly(o, id) => FocusOnly(r, id) = r
           /\ r = Relabel(o, id, label) => Relabel(r, id, label) = r
<1>1. ASSUME r = FocusOnly(o, id) PROVE FocusOnly(r, id) = r
  <2> DEFINE e == [x \in DOMAIN o.entries |-> [o.entries[x] EXCEPT !.focused = (x = id)]]
             f == [x \in DOMAIN e |-> [e[x] EXCEPT !.focused = (x = id)]]
  <2>1. f = e
      OBVIOUS
  <2>2. o = [ids |-> o.ids, entries |-> o.entries]
      BY DEF Sound
  <2>3. r = [ids |-> o.ids, entries |-> e]
      BY <1>1, <2>2 DEF FocusOnly, Update
  <2> HIDE DEF e
  <2>4. FocusOnly(r, id) = [ids |-> o.ids, entries |-> f]
      BY <2>3 DEF FocusOnly, Update
  <2> QED
      BY <2>1, <2>3, <2>4
<1>2. ASSUME r = Relabel(o, id, label) PROVE Relabel(r, id, label) = r
  <2>1. CASE Has(o, id)
    <3> DEFINE v == [o.entries[id] EXCEPT !.label = label]
    <3>1. [v EXCEPT !.label = label] = v
        OBVIOUS
    <3>2. r = Set(o, id, v)
        BY <1>2, <2>1 DEF Relabel
    <3> HIDE DEF v
    <3>3. Has(r, id) /\ r.entries[id] = v
        BY <3>2, SetHolds
    <3>4. Set(r, id, v) = r
        BY <3>2, SetTwice
    <3> QED
        BY <3>1, <3>3, <3>4 DEF Relabel
  <2>2. CASE ~Has(o, id)
      BY <1>2, <2>2 DEF Relabel
  <2> QED
      BY <2>1, <2>2
<1> QED
    BY <1>1, <1>2

\* pane.focused, a second time: the layout that follows is the same one.
LEMMA FocusPaneTwice ==
    ASSUME NEW c, NEW id, SoundCache(c)
    PROVE  focusPane(focusPane(c, id), id) = focusPane(c, id)
<1> DEFINE d == focusPane(c, id)
           e == focusPane(d, id)
           panes == FocusOnly(c.panes, id)
           tab == panes.entries[id].tab
           named == Has(panes, id) /\ Has(c.layouts, tab)
           layout == [c.layouts.entries[tab] EXCEPT !.focusedPane = id]
<1>1. SoundCache(d) /\ SoundCache(e)
    BY FocusPaneSound
<1>2. /\ d.panes = panes /\ d.agents = FocusOnly(c.agents, id)
      /\ d.layouts = IF named THEN Set(c.layouts, tab, layout) ELSE c.layouts
    BY DEF SoundCache, focusPane
<1>3. FocusOnly(d.panes, id) = d.panes /\ FocusOnly(d.agents, id) = d.agents
    BY <1>2, AssignTwice DEF SoundCache
<1> HIDE DEF panes
<1> DEFINE again == Has(d.panes, id) /\ Has(d.layouts, tab)
<1>4. /\ e.panes = FocusOnly(d.panes, id) /\ e.agents = FocusOnly(d.agents, id)
      /\ e.layouts = IF again
                     THEN Set(d.layouts, tab, [d.layouts.entries[tab] EXCEPT !.focusedPane = id])
                     ELSE d.layouts
      /\ e.workspaces = d.workspaces /\ e.tabs = d.tabs
    BY <1>1, <1>2, <1>3 DEF SoundCache, focusPane
<1> HIDE DEF d, e, tab
<1>5. e.layouts = d.layouts
  <2>1. CASE named
    <3>1. Has(d.layouts, tab) /\ d.layouts.entries[tab] = layout
        BY <1>2, <2>1, SetHolds
    <3>2. [layout EXCEPT !.focusedPane = id] = layout
        OBVIOUS
    <3> HIDE DEF layout
    <3>3. Set(d.layouts, tab, layout) = d.layouts
        BY <1>2, <2>1, SetTwice DEF SoundCache
    <3> QED
        BY <1>4, <3>1, <3>2, <3>3
  <2>2. CASE ~named
      BY <1>2, <1>4, <2>2
  <2> QED
      BY <2>1, <2>2
<1>6. e = d
    BY <1>1, <1>3, <1>4, <1>5, SameCache
<1> QED
    BY <1>6 DEF d, e

\* pane.agent_detected, a second time: the pane is assigned what it has, and
\* the agent what it took from it.
LEMMA AgentDetectedTwice ==
    ASSUME NEW c, NEW e, SoundCache(c)
    PROVE  applyAgentDetected(applyAgentDetected(c, e), e) = applyAgentDetected(c, e)
<1> DEFINE New(old) == [old EXCEPT
               !.agent = IF e.released THEN Absent ELSE e.agent,
               !.display = IF e.released THEN Absent ELSE @,
               !.status = IF e.finalStatus = Absent THEN @ ELSE e.finalStatus]
           NewPanes(k) == IF Has(k.panes, e.id)
                       THEN Set(k.panes, e.id, New(k.panes.entries[e.id])) ELSE k.panes
           NewAgents(k) == IF e.released THEN Delete(k.agents, e.id)
                        ELSE IF ~Has(k.panes, e.id) THEN k.agents
                        ELSE Set(k.agents, e.id,
                                 mergeAgent(AgentAt(k, e.id), New(k.panes.entries[e.id])))
           d == applyAgentDetected(c, e)
           f == applyAgentDetected(d, e)
<1>1. SoundCache(d) /\ SoundCache(f)
    BY AgentDetectedSound
<1>0. ASSUME NEW k, SoundCache(k)
      PROVE  LET n == applyAgentDetected(k, e) IN
             /\ n.panes = NewPanes(k) /\ n.agents = NewAgents(k)
             /\ n.workspaces = k.workspaces /\ n.tabs = k.tabs /\ n.layouts = k.layouts
    BY <1>0 DEF SoundCache, applyAgentDetected
<1> HIDE DEF New
<1>2. d.panes = NewPanes(c) /\ d.agents = NewAgents(c)
    BY <1>0
<1>3. /\ f.panes = NewPanes(d) /\ f.agents = NewAgents(d)
      /\ f.workspaces = d.workspaces /\ f.tabs = d.tabs /\ f.layouts = d.layouts
  <2> HIDE DEF d, NewPanes, NewAgents
  <2> QED
      BY <1>0, <1>1
<1> USE DEF New
<1> HIDE DEF d, f
<1> DEFINE new == New(c.panes.entries[e.id])
<1>4. New(new) = new
    OBVIOUS
<1>5. Sound(c.panes) /\ Sound(c.agents) /\ Sound(d.panes) /\ Sound(d.agents)
    BY <1>1 DEF SoundCache
<1>6. CASE Has(c.panes, e.id)
  <2> HIDE DEF New
  <2>1. d.panes = Set(c.panes, e.id, new)
      BY <1>2, <1>6
  <2> HIDE DEF new
  <2>2. Has(d.panes, e.id) /\ d.panes.entries[e.id] = new /\ Set(d.panes, e.id, new) = d.panes
      BY <1>5, <2>1, SetHolds, SetTwice
  <2>3. f.panes = d.panes
      BY <1>3, <1>4, <2>2
  <2>4. f.agents = d.agents
    <3>1. CASE e.released
        BY <1>2, <1>3, <1>5, <3>1, GoneAgain
    <3>2. CASE ~e.released
      <4> DEFINE agent == mergeAgent(AgentAt(c, e.id), new)
      <4>1. d.agents = Set(c.agents, e.id, agent)
          BY <1>2, <1>6, <3>2 DEF new
      <4>2. f.agents = Set(d.agents, e.id, mergeAgent(AgentAt(d, e.id), new))
          BY <1>3, <1>4, <2>2, <3>2
      <4>3. mergeAgent(agent, new) = agent
          BY MergeAgain
      <4> HIDE DEF agent
      <4>4. AgentAt(d, e.id) = agent
          BY <4>1, SetHolds DEF AgentAt
      <4> QED
          BY <1>5, <4>1, <4>2, <4>3, <4>4, SetTwice
    <3> QED
        BY <3>1, <3>2
  <2> QED
      BY <1>1, <1>3, <2>3, <2>4, SameCache DEF d, f
<1>7. CASE ~Has(c.panes, e.id)
  <2>1. d.panes = c.panes
      BY <1>2, <1>7
  <2>2. f.panes = d.panes
      BY <1>3, <1>7, <2>1
  <2>3. f.agents = d.agents
      BY <1>2, <1>3, <1>5, <1>7, <2>1, GoneAgain
  <2> QED
      BY <1>1, <1>3, <2>2, <2>3, SameCache DEF d, f
<1> QED
    BY <1>6, <1>7

\* pane.agent_status_changed, a second time.
LEMMA AgentStatusTwice ==
    ASSUME NEW c, NEW e, SoundCache(c)
    PROVE  applyAgentStatus(applyAgentStatus(c, e), e) = applyAgentStatus(c, e)
<1> DEFINE New(old) == [old EXCEPT
               !.status = e.status,
               !.agent = IF e.agent = Absent THEN @ ELSE e.agent,
               !.display = IF e.display = Absent THEN @ ELSE e.display]
           NewPanes(k) == IF Has(k.panes, e.id)
                       THEN Set(k.panes, e.id, New(k.panes.entries[e.id])) ELSE k.panes
           NewAgents(k) == IF ~Has(k.agents, e.id) THEN k.agents
                        ELSE IF Has(k.panes, e.id)
                        THEN Set(k.agents, e.id,
                                 mergeAgent(k.agents.entries[e.id], New(k.panes.entries[e.id])))
                        ELSE Set(k.agents, e.id,
                                 [k.agents.entries[e.id] EXCEPT !.status = e.status])
           d == applyAgentStatus(c, e)
           f == applyAgentStatus(d, e)
<1>1. SoundCache(d) /\ SoundCache(f)
    BY AgentStatusSound
<1>0. ASSUME NEW k, SoundCache(k)
      PROVE  LET n == applyAgentStatus(k, e) IN
             /\ n.panes = NewPanes(k) /\ n.agents = NewAgents(k)
             /\ n.workspaces = k.workspaces /\ n.tabs = k.tabs /\ n.layouts = k.layouts
    BY <1>0 DEF SoundCache, applyAgentStatus
<1> HIDE DEF New
<1>2. d.panes = NewPanes(c) /\ d.agents = NewAgents(c)
    BY <1>0
<1>3. /\ f.panes = NewPanes(d) /\ f.agents = NewAgents(d)
      /\ f.workspaces = d.workspaces /\ f.tabs = d.tabs /\ f.layouts = d.layouts
  <2> HIDE DEF d, NewPanes, NewAgents
  <2> QED
      BY <1>0, <1>1
<1> USE DEF New
<1> HIDE DEF d, f
<1> DEFINE new == New(c.panes.entries[e.id])
           old == c.agents.entries[e.id]
           agent == IF Has(c.panes, e.id) THEN mergeAgent(old, new)
                    ELSE [old EXCEPT !.status = e.status]
<1>4. New(new) = new
    OBVIOUS
<1>5. Sound(c.panes) /\ Sound(c.agents)
    BY DEF SoundCache
<1> HIDE DEF New
<1>6. /\ f.panes = d.panes
      /\ Has(d.panes, e.id) <=> Has(c.panes, e.id)
      /\ Has(c.panes, e.id) => d.panes.entries[e.id] = new
  <2>1. CASE Has(c.panes, e.id)
    <3>1. d.panes = Set(c.panes, e.id, new)
        BY <1>2, <2>1
    <3> HIDE DEF new
    <3>2. /\ Has(d.panes, e.id) /\ d.panes.entries[e.id] = new
          /\ Set(d.panes, e.id, new) = d.panes
        BY <1>5, <3>1, SetHolds, SetTwice
    <3> QED
        BY <1>3, <1>4, <2>1, <3>2
  <2>2. CASE ~Has(c.panes, e.id)
      BY <1>2, <1>3, <2>2
  <2> QED
      BY <2>1, <2>2
<1> HIDE DEF new
<1>7. f.agents = d.agents
  <2>1. CASE Has(c.agents, e.id)
    <3>1. d.agents = Set(c.agents, e.id, agent)
        BY <1>2, <2>1 DEF new
    <3>2. IF Has(c.panes, e.id) THEN mergeAgent(agent, new) = agent
          ELSE [agent EXCEPT !.status = e.status] = agent
        BY MergeAgain
    <3> HIDE DEF agent
    <3>3. /\ Has(d.agents, e.id) /\ d.agents.entries[e.id] = agent
          /\ Set(d.agents, e.id, agent) = d.agents
        BY <1>5, <3>1, SetHolds, SetTwice
    <3> QED
        BY <1>3, <1>4, <1>6, <3>2, <3>3
  <2>2. CASE ~Has(c.agents, e.id)
      BY <1>2, <1>3, <2>2
  <2> QED
      BY <2>1, <2>2
<1> QED
    BY <1>1, <1>3, <1>6, <1>7, SameCache DEF d, f

\* What the payload of a reorder must say: the tabs it lists are those of its
\* workspace, and the mirror has none of them in another one.
AtHome(c, e) ==
    e.type = "TabMoved" =>
        \A i \in 1..Len(e.tabs) :
            /\ e.tabs[i].ws = e.ws
            /\ Has(c.tabs, e.tabs[i].id) => c.tabs.entries[e.tabs[i].id].ws = e.ws

\* tab.moved and tab.reordered, a second time: the block of the workspace's
\* tabs is taken out and put back where it is.
LEMMA ReorderTabsTwice ==
    ASSUME NEW c, NEW e, SoundCache(c), Decoded(e), AtHome(c, e), e.type = "TabMoved"
    PROVE  reorderTabs(reorderTabs(c, e.ws, e.tabs), e.ws, e.tabs)
             = reorderTabs(c, e.ws, e.tabs)
<1> DEFINE ids == IdsOf(e.tabs)
           inside == InWorkspace(c.tabs, e.ws)
           rest == DeleteWhere(c.tabs, inside)
           at == FirstMatch(c.tabs, inside)
           r == InsertAt(rest, at, ids, e.tabs)
           d == reorderTabs(c, e.ws, e.tabs)
           f == reorderTabs(d, e.ws, e.tabs)
<1>1. IsList(e.tabs) /\ Sound(c.tabs)
    BY DEF Decoded, SoundCache
<1>2. SoundCache(d) /\ SoundCache(f)
    BY <1>1, ReorderTabsSound
<1>3. PICK X : ids \in Seq(X)
    BY <1>1, IdsOfList
<1>4. Len(ids) = Len(e.tabs) /\ \A i \in 1..Len(ids) : ids[i] = e.tabs[i].id
  <2>1. DOMAIN e.tabs = 1..Len(e.tabs) /\ Len(e.tabs) \in Nat
      BY <1>1 DEF IsList
  <2>2. ids = [i \in 1..Len(e.tabs) |-> e.tabs[i].id]
      BY <2>1 DEF IdsOf
  <2> QED
      BY <1>3, <2>1, <2>2
<1>5. Sound(rest) /\ at \in Int
  <2>1. Len(c.tabs.ids) \in Nat
      BY <1>1, PartsOfSound
  <2> QED
      BY <1>1, <2>1, DeleteSound, FirstMatchFacts
<1>6. /\ DOMAIN rest.entries = DOMAIN c.tabs.entries \ inside
      /\ \A x \in DOMAIN rest.entries : rest.entries[x] = c.tabs.entries[x]
    BY DEF DeleteWhere, Keep
<1>7. Ids(ids) \cap DOMAIN rest.entries = {}
  <2>1. ASSUME NEW x \in Ids(ids), x \in DOMAIN c.tabs.entries PROVE x \in inside
    <3>1. PICK i \in 1..Len(e.tabs) : x = e.tabs[i].id
        BY <1>4 DEF Ids
    <3>2. c.tabs.entries[x].ws = e.ws
        BY <2>1, <3>1 DEF AtHome, Has
    <3> QED
        BY <2>1, <3>2 DEF InWorkspace
  <2> QED
      BY <1>6, <2>1
<1>8. d.tabs = r
    BY DEF SoundCache, reorderTabs
<1> DEFINE within == InWorkspace(d.tabs, e.ws)
<1>9. f.tabs = InsertAt(DeleteWhere(d.tabs, within), FirstMatch(d.tabs, within), ids, e.tabs)
      /\ f.workspaces = d.workspaces /\ f.panes = d.panes /\ f.agents = d.agents
      /\ f.layouts = d.layouts
    BY <1>2 DEF SoundCache, reorderTabs
<1> HIDE DEF d, f, ids, at
<1>10. within = Ids(ids)
  <2>1. r = [ids |-> Splice(rest.ids, Fresh(rest, ids), Place(rest, at)),
             entries |-> Merged(rest, ids, e.tabs)]
      BY InsertParts
  <2> HIDE DEF r
  <2>2. Holds(r.entries, rest, ids, e.tabs)
      BY <1>3, <2>1, MergedFacts
  <2>3. ASSUME NEW x \in Ids(ids) PROVE x \in within
    <3>1. PICK i \in 1..Len(ids) : ids[i] = x /\ r.entries[x] = e.tabs[i]
        BY <2>2 DEF Holds
    <3>2. r.entries[x].ws = e.ws
        BY <1>4, <3>1 DEF AtHome
    <3> QED
        BY <1>8, <2>2, <3>2 DEF Holds, InWorkspace
  <2>4. ASSUME NEW x \in within, x \notin Ids(ids) PROVE FALSE
    <3>1. x \in DOMAIN r.entries /\ r.entries[x].ws = e.ws
        BY <1>8, <2>4 DEF InWorkspace
    <3>2. x \in DOMAIN rest.entries /\ r.entries[x] = rest.entries[x]
        BY <2>2, <2>4, <3>1 DEF Holds
    <3>3. x \in inside
        BY <1>6, <3>1, <3>2 DEF InWorkspace
    <3> QED
        BY <1>6, <3>2, <3>3
  <2>5. within \subseteq Ids(ids)
      BY <2>4
  <2> QED
      BY <2>3, <2>5
<1> HIDE DEF rest, within
<1>11. Restored(rest, ids, e.tabs, r)
    BY <1>3, <1>5, <1>7, BlockAgain
<1> HIDE DEF r
<1>12. f.tabs = d.tabs
    BY <1>8, <1>9, <1>10, <1>11 DEF Restored
<1> QED
    BY <1>2, <1>9, <1>12, SameCache DEF d, f

-----------------------------------------------------------------------------
(* A move, a second time *)

\* What is left of panes and agents, of tabs and layouts, and of workspaces when
\* a tab and a workspace that may be absent are closed.
OpenPanes(q, tab, ws) ==
    {x \in DOMAIN q.entries : /\ tab = Absent \/ q.entries[x].tab # tab
                              /\ ws = Absent \/ q.entries[x].ws # ws}
OpenTabs(q, tab, ws) ==
    {x \in DOMAIN q.entries : /\ tab = Absent \/ x # tab
                              /\ ws = Absent \/ q.entries[x].ws # ws}
OpenWorkspaces(q, ws) == {x \in DOMAIN q.entries : ws = Absent \/ x # ws}

\* The two steps in which closeTab and closeWorkspace leave it.
LeaveTab(q, tab) == IF tab = Absent THEN q ELSE DeleteWhere(q, InTab(q, tab))
LeaveId(q, id) == IF id = Absent THEN q ELSE Delete(q, id)
LeaveWorkspace(q, ws) == IF ws = Absent THEN q ELSE DeleteWhere(q, InWorkspace(q, ws))

\* An optional container made by the move.
MayAdd(o, new) == IF new = Absent THEN o ELSE Set(o, new.id, new)

\* An agent goes along with its pane if it has an entry.
Follow(o, e) ==
    IF Has(o, e.previous)
    THEN Rekeyed(o, e.previous, e.pane.id, mergeAgent(o.entries[e.previous], e.pane))
    ELSE Delete(o, e.previous)

Moved(d, c, e) ==
    /\ d.workspaces = LeaveId(MayAdd(c.workspaces, e.createdWorkspace), e.closedWorkspace)
    /\ d.tabs = LeaveWorkspace(LeaveId(MayAdd(c.tabs, e.createdTab), e.closedTab),
                               e.closedWorkspace)
    /\ d.panes = LeaveWorkspace(LeaveTab(Rekeyed(c.panes, e.previous, e.pane.id, e.pane),
                                         e.closedTab), e.closedWorkspace)
    /\ d.agents = LeaveWorkspace(LeaveTab(Follow(c.agents, e), e.closedTab),
                                 e.closedWorkspace)
    /\ d.layouts = LeaveWorkspace(LeaveId(c.layouts, e.closedTab), e.closedWorkspace)

\* movePane, one collection at a time.
LEMMA MovePaneParts ==
    ASSUME NEW c, NEW e, SoundCache(c)
    PROVE  Moved(movePane(c, e), c, e)
<1> DEFINE created == [c EXCEPT
               !.workspaces = IF e.createdWorkspace = Absent THEN @
                              ELSE Set(@, e.createdWorkspace.id, e.createdWorkspace),
               !.tabs = IF e.createdTab = Absent THEN @
                        ELSE Set(@, e.createdTab.id, e.createdTab)]
           left == closePane(created, e.previous)
           moved == [left EXCEPT
               !.panes = Set(@, e.pane.id, e.pane),
               !.agents = IF Has(c.agents, e.previous)
                          THEN Set(@, e.pane.id,
                                   mergeAgent(c.agents.entries[e.previous], e.pane))
                          ELSE @]
           tabClosed == IF e.closedTab = Absent THEN moved
                        ELSE closeTab(moved, e.closedTab)
           names == {"workspaces", "tabs", "panes", "agents", "layouts"}
<1>1. /\ DOMAIN created = names
      /\ created.workspaces = MayAdd(c.workspaces, e.createdWorkspace)
      /\ created.tabs = MayAdd(c.tabs, e.createdTab)
      /\ created.panes = c.panes /\ created.agents = c.agents
      /\ created.layouts = c.layouts
    BY DEF SoundCache, MayAdd
<1>2. movePane(c, e) = IF e.closedWorkspace = Absent THEN tabClosed
                       ELSE closeWorkspace(tabClosed, e.closedWorkspace)
    BY DEF movePane
<1> HIDE DEF created
<1>3. /\ DOMAIN left = names
      /\ left.panes = Delete(created.panes, e.previous)
      /\ left.agents = Delete(created.agents, e.previous)
      /\ left.workspaces = created.workspaces /\ left.tabs = created.tabs
      /\ left.layouts = created.layouts
    BY <1>1 DEF closePane
<1> HIDE DEF left
<1>4. /\ DOMAIN moved = names
      /\ moved.panes = Rekeyed(c.panes, e.previous, e.pane.id, e.pane)
      /\ moved.agents = Follow(c.agents, e)
      /\ moved.workspaces = left.workspaces /\ moved.tabs = left.tabs
      /\ moved.layouts = left.layouts
    BY <1>1, <1>3 DEF Rekeyed, Follow
<1> HIDE DEF moved
<1>5. /\ DOMAIN tabClosed = names
      /\ tabClosed.workspaces = moved.workspaces
      /\ tabClosed.tabs = LeaveId(moved.tabs, e.closedTab)
      /\ tabClosed.layouts = LeaveId(moved.layouts, e.closedTab)
      /\ tabClosed.panes = LeaveTab(moved.panes, e.closedTab)
      /\ tabClosed.agents = LeaveTab(moved.agents, e.closedTab)
    BY <1>4 DEF closeTab, LeaveId, LeaveTab
<1> HIDE DEF tabClosed
<1> DEFINE d == movePane(c, e)
<1>6. /\ d.workspaces = LeaveId(tabClosed.workspaces, e.closedWorkspace)
      /\ d.tabs = LeaveWorkspace(tabClosed.tabs, e.closedWorkspace)
      /\ d.panes = LeaveWorkspace(tabClosed.panes, e.closedWorkspace)
      /\ d.agents = LeaveWorkspace(tabClosed.agents, e.closedWorkspace)
      /\ d.layouts = LeaveWorkspace(tabClosed.layouts, e.closedWorkspace)
    BY <1>2 DEF closeWorkspace, LeaveId, LeaveWorkspace
<1> HIDE DEF d
<1>7. Moved(d, c, e)
    BY <1>1, <1>3, <1>4, <1>5, <1>6 DEF Moved
<1> QED
    BY <1>7 DEF d

\* Leaving is deleteWhere of the entries that are inside what closes.
LEMMA LeaveParts ==
    ASSUME NEW q, NEW tab, NEW ws, Sound(q)
    PROVE  /\ LeaveWorkspace(LeaveTab(q, tab), ws) = Keep(q, OpenPanes(q, tab, ws))
           /\ LeaveWorkspace(LeaveId(q, tab), ws) = Keep(q, OpenTabs(q, tab, ws))
           /\ LeaveId(q, ws) = Keep(q, OpenWorkspaces(q, ws))
<1> DEFINE D == DOMAIN q.entries
           P == {x \in D : tab = Absent \/ q.entries[x].tab # tab}
           T == {x \in D : tab = Absent \/ x # tab}
<1>1. ASSUME NEW S, S \subseteq D
      PROVE  LeaveWorkspace(Keep(q, S), ws)
               = Keep(q, {x \in S : ws = Absent \/ q.entries[x].ws # ws})
  <2> DEFINE k == Keep(q, S)
             R == {x \in S : ws = Absent \/ q.entries[x].ws # ws}
             W == DOMAIN k.entries \ InWorkspace(k, ws)
  <2>1. DOMAIN k.entries = S /\ \A x \in S : k.entries[x] = q.entries[x]
    <3>1. D \cap S = S
        BY <1>1
    <3>2. k.entries = [x \in D \cap S |-> q.entries[x]]
        BY DEF Keep
    <3> QED
        BY <3>1, <3>2
  <2>2. KeepBoth(q, S, W)
      BY KeepTwice
  <2>3. ASSUME ws = Absent PROVE LeaveWorkspace(k, ws) = Keep(q, R)
    <3>1. R = S
        BY <2>3
    <3> QED
        BY <2>3, <3>1 DEF LeaveWorkspace
  <2> HIDE DEF k
  <2>4. ASSUME ws # Absent PROVE LeaveWorkspace(k, ws) = Keep(q, R)
    <3>1. S \cap W = R
        BY <2>1, <2>4 DEF InWorkspace
    <3>2. LeaveWorkspace(k, ws) = Keep(k, W)
        BY <2>4 DEF LeaveWorkspace, DeleteWhere
    <3> QED
        BY <2>2, <3>1, <3>2 DEF KeepBoth, k
  <2> QED
      BY <2>3, <2>4 DEF k
<1>2. LeaveTab(q, tab) = Keep(q, P)
  <2>1. ASSUME tab = Absent PROVE LeaveTab(q, tab) = Keep(q, P)
    <3>1. P = D
        BY <2>1
    <3> QED
        BY <2>1, <3>1, KeepAgain DEF LeaveTab
  <2>2. ASSUME tab # Absent PROVE LeaveTab(q, tab) = Keep(q, P)
    <3>1. D \ InTab(q, tab) = P
        BY <2>2 DEF InTab
    <3> QED
        BY <2>2, <3>1 DEF LeaveTab, DeleteWhere
  <2> QED
      BY <2>1, <2>2
<1>3. ASSUME NEW id
      PROVE  LeaveId(q, id) = Keep(q, {x \in D : id = Absent \/ x # id})
  <2> DEFINE I == {x \in D : id = Absent \/ x # id}
  <2>1. ASSUME id = Absent PROVE LeaveId(q, id) = Keep(q, I)
    <3>1. I = D
        BY <2>1
    <3> QED
        BY <2>1, <3>1, KeepAgain DEF LeaveId
  <2>2. ASSUME id # Absent PROVE LeaveId(q, id) = Keep(q, I)
    <3>1. D \ {id} = I
        BY <2>2
    <3> QED
        BY <2>2, <3>1 DEF LeaveId, Delete
  <2> QED
      BY <2>1, <2>2
<1>4. {x \in P : ws = Absent \/ q.entries[x].ws # ws} = OpenPanes(q, tab, ws)
    BY DEF OpenPanes
<1>5. {x \in T : ws = Absent \/ q.entries[x].ws # ws} = OpenTabs(q, tab, ws)
    BY DEF OpenTabs
<1>6. P \subseteq D /\ T \subseteq D
    OBVIOUS
<1>7. LeaveId(q, tab) = Keep(q, T)
    BY <1>3
<1> HIDE DEF P, T
<1>8. LeaveWorkspace(LeaveTab(q, tab), ws) = Keep(q, OpenPanes(q, tab, ws))
    BY <1>1, <1>2, <1>4, <1>6
<1>9. LeaveWorkspace(LeaveId(q, tab), ws) = Keep(q, OpenTabs(q, tab, ws))
    BY <1>1, <1>5, <1>6, <1>7
<1>10. LeaveId(q, ws) = Keep(q, OpenWorkspaces(q, ws))
    BY <1>3 DEF OpenWorkspaces
<1> QED
    BY <1>8, <1>9, <1>10

\* A collection that has some of another's entries, unchanged.
Within(p, q) ==
    /\ DOMAIN p.entries \subseteq DOMAIN q.entries
    /\ \A x \in DOMAIN p.entries : p.entries[x] = q.entries[x]

\* Whether an entry stays depends on the entry.
LEMMA OpenWithin ==
    ASSUME NEW p, NEW q, NEW tab, NEW ws, Within(p, q)
    PROVE  \A x \in DOMAIN p.entries :
              /\ x \in OpenPanes(p, tab, ws) <=> x \in OpenPanes(q, tab, ws)
              /\ x \in OpenTabs(p, tab, ws) <=> x \in OpenTabs(q, tab, ws)
              /\ x \in OpenWorkspaces(p, ws) <=> x \in OpenWorkspaces(q, ws)
    BY DEF Within, OpenPanes, OpenTabs, OpenWorkspaces

\* What deleteWhere leaves, with the entry set or rekeyed again, is part of what
\* it was left from.
LEMMA AgainWithin ==
    ASSUME NEW o, NEW gone, NEW i, NEW v, NEW S, NEW q, NEW r, r = Keep(q, S)
    PROVE  /\ Within(r, q)
           /\ q = Set(o, i, v) => Within(Set(r, i, v), q)
           /\ q = Rekeyed(o, gone, i, v) => Within(Rekeyed(r, gone, i, v), q)
<1>1. Within(r, q)
    BY KeepHolds DEF Within
<1>2. ASSUME NEW k, Within(k, q), q.entries[i] = v, i \in DOMAIN q.entries
      PROVE  Within(Set(k, i, v), q)
    BY <1>2, SetHolds DEF Within
<1>3. ASSUME NEW k PROVE Set(k, i, v).entries[i] = v /\ i \in DOMAIN Set(k, i, v).entries
    BY SetHolds DEF Has
<1>4. ASSUME q = Set(o, i, v) PROVE Within(Set(r, i, v), q)
    BY <1>1, <1>2, <1>3, <1>4
<1>5. ASSUME q = Rekeyed(o, gone, i, v) PROVE Within(Rekeyed(r, gone, i, v), q)
  <2>1. Within(Delete(r, gone), q)
      BY <1>1, KeepHolds DEF Within, Delete
  <2> QED
      BY <1>2, <1>3, <1>5, <2>1 DEF Rekeyed
<1> QED
    BY <1>1, <1>4, <1>5

\* To leave what was left changes nothing, also after the same entry was added
\* or rekeyed again.
LEMMA LeaveAgain ==
    ASSUME NEW o, NEW q, NEW r, NEW gone, NEW i, NEW v, NEW tab, NEW ws, Sound(o), Sound(q)
    PROVE  /\ r = Keep(q, OpenPanes(q, tab, ws)) =>
              /\ Keep(r, OpenPanes(r, tab, ws)) = r
              /\ q = Rekeyed(o, gone, i, v) =>
                    LET p == Rekeyed(r, gone, i, v) IN Keep(p, OpenPanes(p, tab, ws)) = r
           /\ r = Keep(q, OpenTabs(q, tab, ws)) =>
              /\ Keep(r, OpenTabs(r, tab, ws)) = r
              /\ q = Set(o, i, v) =>
                    LET p == Set(r, i, v) IN Keep(p, OpenTabs(p, tab, ws)) = r
           /\ r = Keep(q, OpenWorkspaces(q, ws)) =>
              /\ Keep(r, OpenWorkspaces(r, ws)) = r
              /\ q = Set(o, i, v) =>
                    LET p == Set(r, i, v) IN Keep(p, OpenWorkspaces(p, ws)) = r
<1>1. ASSUME NEW S, r = Keep(q, S)
      PROVE  /\ Sound(r) /\ Within(r, q) /\ DOMAIN r.entries \subseteq S
             /\ q = Set(o, i, v) => Within(Set(r, i, v), q)
             /\ q = Rekeyed(o, gone, i, v) => Within(Rekeyed(r, gone, i, v), q)
    BY <1>1, KeepSound, KeepHolds, AgainWithin
<1>2. ASSUME NEW S, NEW T, r = Keep(q, S), \A x \in DOMAIN r.entries : x \in T <=> x \in S
      PROVE  Keep(r, T) = r
  <2>1. Sound(r) /\ DOMAIN r.entries \subseteq T
      BY <1>1, <1>2
  <2> QED
      BY <2>1, KeepAgain
<1>3. ASSUME r = Keep(q, OpenPanes(q, tab, ws))
      PROVE  /\ Keep(r, OpenPanes(r, tab, ws)) = r
             /\ q = Rekeyed(o, gone, i, v) =>
                   LET p == Rekeyed(r, gone, i, v) IN Keep(p, OpenPanes(p, tab, ws)) = r
  <2> DEFINE p == Rekeyed(r, gone, i, v)
  <2>1. Keep(r, OpenPanes(r, tab, ws)) = r
    <3>1. Within(r, q)
        BY <1>1, <1>3
    <3> QED
        BY <1>2, <1>3, <3>1, OpenWithin
  <2>2. ASSUME q = Rekeyed(o, gone, i, v) PROVE Keep(p, OpenPanes(p, tab, ws)) = r
    <3>1. Within(p, q)
        BY <1>1, <1>3, <2>2
    <3>2. \A x \in DOMAIN p.entries :
             x \in OpenPanes(p, tab, ws) <=> x \in OpenPanes(q, tab, ws)
        BY <3>1, OpenWithin
    <3> QED
        BY <1>3, <2>2, <3>2, RekeyAgain
  <2> QED
      BY <2>1, <2>2
<1>4. ASSUME r = Keep(q, OpenTabs(q, tab, ws))
      PROVE  /\ Keep(r, OpenTabs(r, tab, ws)) = r
             /\ q = Set(o, i, v) =>
                   LET p == Set(r, i, v) IN Keep(p, OpenTabs(p, tab, ws)) = r
  <2> DEFINE p == Set(r, i, v)
  <2>1. Keep(r, OpenTabs(r, tab, ws)) = r
    <3>1. Within(r, q)
        BY <1>1, <1>4
    <3> QED
        BY <1>2, <1>4, <3>1, OpenWithin
  <2>2. ASSUME q = Set(o, i, v) PROVE Keep(p, OpenTabs(p, tab, ws)) = r
    <3>1. Within(p, q)
        BY <1>1, <1>4, <2>2
    <3>2. \A x \in DOMAIN p.entries :
             x \in OpenTabs(p, tab, ws) <=> x \in OpenTabs(q, tab, ws)
        BY <3>1, OpenWithin
    <3> QED
        BY <1>4, <2>2, <3>2, SetKeepAgain
  <2> QED
      BY <2>1, <2>2
<1>5. ASSUME r = Keep(q, OpenWorkspaces(q, ws))
      PROVE  /\ Keep(r, OpenWorkspaces(r, ws)) = r
             /\ q = Set(o, i, v) =>
                   LET p == Set(r, i, v) IN Keep(p, OpenWorkspaces(p, ws)) = r
  <2> DEFINE p == Set(r, i, v)
  <2>1. Keep(r, OpenWorkspaces(r, ws)) = r
    <3>1. Within(r, q)
        BY <1>1, <1>5
    <3> QED
        BY <1>2, <1>5, <3>1, OpenWithin
  <2>2. ASSUME q = Set(o, i, v) PROVE Keep(p, OpenWorkspaces(p, ws)) = r
    <3>1. Within(p, q)
        BY <1>1, <1>5, <2>2
    <3>2. \A x \in DOMAIN p.entries :
             x \in OpenWorkspaces(p, ws) <=> x \in OpenWorkspaces(q, ws)
        BY <3>1, OpenWithin
    <3> QED
        BY <1>5, <2>2, <3>2, SetKeepAgain
  <2> QED
      BY <2>1, <2>2
<1> QED
    BY <1>3, <1>4, <1>5

\* pane.moved, a second time: what was made is held, or closed again; the pane
\* has its new id; there is no agent left under the old one.
LEMMA MovePaneTwice ==
    ASSUME NEW c, NEW e, SoundCache(c)
    PROVE  movePane(movePane(c, e), e) = movePane(c, e)
<1> DEFINE d == movePane(c, e)
           f == movePane(d, e)
           gone == e.previous
           id == e.pane.id
           tab == e.closedTab
           ws == e.closedWorkspace
<1>1. SoundCache(d) /\ SoundCache(f)
    BY MovePaneSound
<1>2. Moved(d, c, e) /\ Moved(f, d, e)
    BY <1>1, MovePaneParts
<1> HIDE DEF d, f
<1>3. /\ Sound(c.workspaces) /\ Sound(c.tabs) /\ Sound(c.panes) /\ Sound(c.agents)
      /\ Sound(c.layouts)
      /\ Sound(d.workspaces) /\ Sound(d.tabs) /\ Sound(d.panes) /\ Sound(d.agents)
      /\ Sound(d.layouts)
    BY <1>1 DEF SoundCache
<1>4. \A o, new : Sound(o) => Sound(MayAdd(o, new))
    BY SetSound DEF MayAdd
<1>5. \A o, v : Sound(o) => Sound(Rekeyed(o, gone, id, v))
    BY DeleteSound, SetSound DEF Rekeyed
<1>6. f.workspaces = d.workspaces
  <2> DEFINE new == e.createdWorkspace
             q == MayAdd(c.workspaces, new)
             p == MayAdd(d.workspaces, new)
  <2>1. Sound(q) /\ Sound(p)
      BY <1>3, <1>4
  <2>2. d.workspaces = LeaveId(q, ws) /\ f.workspaces = LeaveId(p, ws)
      BY <1>2 DEF Moved
  <2>3. d.workspaces = Keep(q, OpenWorkspaces(q, ws))
        /\ f.workspaces = Keep(p, OpenWorkspaces(p, ws))
      BY <2>1, <2>2, LeaveParts
  <2>4. CASE new = Absent
    <3>1. p = d.workspaces
        BY <2>4 DEF MayAdd
    <3> HIDE DEF q, p
    <3> QED
        BY <1>3, <2>1, <2>3, <3>1, LeaveAgain
  <2>5. CASE new # Absent
    <3>1. q = Set(c.workspaces, new.id, new) /\ p = Set(d.workspaces, new.id, new)
        BY <2>5 DEF MayAdd
    <3> HIDE DEF q, p
    <3> QED
        BY <1>3, <2>1, <2>3, <3>1, LeaveAgain
  <2> QED
      BY <2>4, <2>5
<1>7. f.tabs = d.tabs
  <2> DEFINE new == e.createdTab
             q == MayAdd(c.tabs, new)
             p == MayAdd(d.tabs, new)
  <2>1. Sound(q) /\ Sound(p)
      BY <1>3, <1>4
  <2>2. /\ d.tabs = LeaveWorkspace(LeaveId(q, tab), ws)
        /\ f.tabs = LeaveWorkspace(LeaveId(p, tab), ws)
      BY <1>2 DEF Moved
  <2>3. d.tabs = Keep(q, OpenTabs(q, tab, ws)) /\ f.tabs = Keep(p, OpenTabs(p, tab, ws))
      BY <2>1, <2>2, LeaveParts
  <2>4. CASE new = Absent
    <3>1. p = d.tabs
        BY <2>4 DEF MayAdd
    <3> HIDE DEF q, p
    <3> QED
        BY <1>3, <2>1, <2>3, <3>1, LeaveAgain
  <2>5. CASE new # Absent
    <3>1. q = Set(c.tabs, new.id, new) /\ p = Set(d.tabs, new.id, new)
        BY <2>5 DEF MayAdd
    <3> HIDE DEF q, p
    <3> QED
        BY <1>3, <2>1, <2>3, <3>1, LeaveAgain
  <2> QED
      BY <2>4, <2>5
<1>8. f.layouts = d.layouts
  <2> DEFINE q == c.layouts
             p == d.layouts
  <2>1. /\ d.layouts = LeaveWorkspace(LeaveId(q, tab), ws)
        /\ f.layouts = LeaveWorkspace(LeaveId(p, tab), ws)
      BY <1>2 DEF Moved
  <2>2. d.layouts = Keep(q, OpenTabs(q, tab, ws)) /\ f.layouts = Keep(p, OpenTabs(p, tab, ws))
      BY <1>3, <2>1, LeaveParts
  <2> QED
      BY <1>3, <2>2, LeaveAgain
<1>9. f.panes = d.panes
  <2> DEFINE q == Rekeyed(c.panes, gone, id, e.pane)
             p == Rekeyed(d.panes, gone, id, e.pane)
  <2>1. Sound(q) /\ Sound(p)
      BY <1>3, <1>5
  <2>2. /\ d.panes = LeaveWorkspace(LeaveTab(q, tab), ws)
        /\ f.panes = LeaveWorkspace(LeaveTab(p, tab), ws)
      BY <1>2 DEF Moved
  <2>3. d.panes = Keep(q, OpenPanes(q, tab, ws)) /\ f.panes = Keep(p, OpenPanes(p, tab, ws))
      BY <2>1, <2>2, LeaveParts
  <2> QED
      BY <1>3, <2>1, <2>3, LeaveAgain
<1>10. f.agents = d.agents
  <2> DEFINE q == Follow(c.agents, e)
             p == Follow(d.agents, e)
             v == mergeAgent(c.agents.entries[gone], e.pane)
  <2>1. Sound(q) /\ Sound(p)
      BY <1>3, <1>5, DeleteSound DEF Follow
  <2>2. /\ d.agents = LeaveWorkspace(LeaveTab(q, tab), ws)
        /\ f.agents = LeaveWorkspace(LeaveTab(p, tab), ws)
      BY <1>2 DEF Moved
  <2>3. d.agents = Keep(q, OpenPanes(q, tab, ws)) /\ f.agents = Keep(p, OpenPanes(p, tab, ws))
      BY <2>1, <2>2, LeaveParts
  <2>4. CASE ~Has(d.agents, gone)
    <3>1. p = d.agents
        BY <1>3, <2>4, DeleteAgain DEF Follow
    <3> HIDE DEF q, p
    <3> QED
        BY <1>3, <2>1, <2>3, <3>1, LeaveAgain
  <2>5. CASE Has(d.agents, gone)
    <3>1. gone \in DOMAIN q.entries /\ d.agents.entries[gone] = q.entries[gone]
      <4> HIDE DEF q
      <4> QED
          BY <2>3, <2>5, KeepHolds DEF Has
    <3>2. gone \notin DOMAIN Delete(c.agents, gone).entries
        BY DEF Delete, Keep
    <3>3. Has(c.agents, gone) /\ q = Rekeyed(c.agents, gone, id, v)
        BY <3>1, <3>2 DEF Follow
    <3>4. gone = id
        BY <3>1, <3>2, <3>3, SetHolds DEF Rekeyed
    <3>5. q.entries[gone] = v
        BY <3>3, <3>4, SetHolds DEF Rekeyed
    <3>6. mergeAgent(v, e.pane) = v
        BY MergeAgain
    <3> HIDE DEF v
    <3>7. p = Rekeyed(d.agents, gone, id, v)
        BY <2>5, <3>1, <3>5, <3>6 DEF Follow
    <3> HIDE DEF q, p
    <3> QED
        BY <1>3, <2>1, <2>3, <3>3, <3>7, LeaveAgain
  <2> QED
      BY <2>4, <2>5
<1>11. f = d
    BY <1>1, <1>6, <1>7, <1>8, <1>9, <1>10, SameCache
<1> QED
    BY <1>11 DEF d, f

\* output and scroll changes, a second time.
LEMMA PaneRevisedTwice ==
    ASSUME NEW c, NEW e, SoundCache(c), e.type = "PaneRevised"
    PROVE  apply(apply(c, e), e) = apply(c, e)
<1> DEFINE old == c.panes.entries[e.id]
           pane == [old EXCEPT !.rev = e.rev]
           d == setPane(c, pane)
<1>1. \A k : apply(k, e) = IF Has(k.panes, e.id)
                           THEN setPane(k, [k.panes.entries[e.id] EXCEPT !.rev = e.rev])
                           ELSE k
    BY DEF apply
<1>2. CASE Has(c.panes, e.id)
  <2>1. apply(c, e) = d
      BY <1>1, <1>2
  <2>2. SoundCache(d)
      BY SetPaneSound
  <2>3. d.panes = Set(c.panes, pane.id, pane)
      BY DEF SoundCache, setPane
  <2>4. [pane EXCEPT !.rev = e.rev] = pane
      OBVIOUS
  <2>5. setPane(d, pane) = d
      BY SetPaneTwice
  <2> HIDE DEF d
  <2>6. Has(d.panes, e.id)
      BY <1>2, <2>3 DEF Set, Has
  <2>7. CASE pane.id = e.id
    <3>1. d.panes.entries[e.id] = pane
        BY <2>3, <2>7, SetHolds
    <3> QED
        BY <1>1, <2>1, <2>4, <2>5, <2>6, <3>1
  <2>8. CASE pane.id # e.id
    <3>1. d.panes.entries[e.id] = old
        BY <1>2, <2>3, <2>8, SetHolds DEF Has
    <3> QED
        BY <1>1, <2>1, <2>5, <2>6, <3>1
  <2> QED
      BY <2>7, <2>8
<1>3. CASE ~Has(c.panes, e.id)
    BY <1>1, <1>3
<1> QED
    BY <1>2, <1>3

\* Events that rewrite one collection.
LEMMA OneTwice ==
    ASSUME NEW c, NEW e, SoundCache(c), Decoded(e),
           e.type \in {"WorkspaceSet", "WorkspaceRenamed", "WorkspaceMoved",
                       "WorkspaceFocused", "TabCreated", "TabRenamed", "TabFocused",
                       "LayoutUpdated"}
    PROVE  apply(apply(c, e), e) = apply(c, e)
<1> DEFINE NewWorkspaces(o) ==
               CASE e.type = "WorkspaceSet" -> Set(o, e.workspace.id, e.workspace)
                 [] e.type = "WorkspaceRenamed" -> Relabel(o, e.id, e.label)
                 [] e.type = "WorkspaceMoved" -> Reset(IdsOf(e.workspaces), e.workspaces)
                 [] e.type = "WorkspaceFocused" -> FocusOnly(o, e.id)
                 [] OTHER -> o
           NewTabs(o) ==
               CASE e.type = "TabCreated" -> Set(o, e.tab.id, e.tab)
                 [] e.type = "TabRenamed" -> Relabel(o, e.id, e.label)
                 [] e.type = "TabFocused" -> FocusOnly(o, e.id)
                 [] OTHER -> o
           NewLayouts(o) == IF e.type = "LayoutUpdated" THEN Set(o, e.layout.tab, e.layout) ELSE o
           d == apply(c, e)
           f == apply(d, e)
<1>1. ASSUME NEW k, SoundCache(k)
      PROVE  LET n == apply(k, e) IN
             /\ n.workspaces = NewWorkspaces(k.workspaces)
             /\ n.tabs = NewTabs(k.tabs)
             /\ n.layouts = NewLayouts(k.layouts)
             /\ n.panes = k.panes /\ n.agents = k.agents
    BY <1>1 DEF SoundCache, apply
<1>2. SoundCache(d) /\ SoundCache(f)
    BY ApplySound
<1>3. /\ d.workspaces = NewWorkspaces(c.workspaces) /\ d.tabs = NewTabs(c.tabs)
      /\ d.layouts = NewLayouts(c.layouts)
    BY <1>1
<1> HIDE DEF d
<1>4. /\ f.workspaces = NewWorkspaces(d.workspaces) /\ f.tabs = NewTabs(d.tabs)
      /\ f.layouts = NewLayouts(d.layouts) /\ f.panes = d.panes /\ f.agents = d.agents
    BY <1>1, <1>2
<1> HIDE DEF f
<1>5. Sound(c.workspaces) /\ Sound(c.tabs) /\ Sound(c.layouts)
    BY DEF SoundCache
<1>6. f.workspaces = d.workspaces
    BY <1>3, <1>4, <1>5, SetTwice, AssignTwice
<1>7. f.tabs = d.tabs
    BY <1>3, <1>4, <1>5, SetTwice, AssignTwice
<1>8. f.layouts = d.layouts
    BY <1>3, <1>4, <1>5, SetTwice
<1> QED
    BY <1>2, <1>4, <1>6, <1>7, <1>8, SameCache DEF d, f

\* "Applying the same event twice leaves the same state": for every cache and
\* every event, with the payload of a reorder at home.
THEOREM ApplyTwice ==
    ASSUME NEW c, NEW e, SoundCache(c), Decoded(e), AtHome(c, e)
    PROVE  apply(apply(c, e), e) = apply(c, e)
<1>1. CASE e.type \in {"WorkspaceSet", "WorkspaceRenamed", "WorkspaceMoved",
                       "WorkspaceFocused", "TabCreated", "TabRenamed", "TabFocused",
                       "LayoutUpdated"}
    BY <1>1, OneTwice
<1>2. CASE e.type = "WorkspaceClosed"
    BY <1>2, CloseWorkspaceTwice DEF apply
<1>3. CASE e.type = "TabMoved"
    BY <1>3, ReorderTabsTwice DEF apply
<1>4. CASE e.type = "TabClosed"
    BY <1>4, CloseTabTwice DEF apply
<1>5. CASE e.type = "PaneSet"
    BY <1>5, SetPaneTwice DEF apply
<1>6. CASE e.type = "PaneMoved"
    BY <1>6, MovePaneTwice DEF apply
<1>7. CASE e.type = "PaneFocused"
    BY <1>7, FocusPaneTwice DEF apply
<1>8. CASE e.type = "PaneClosed"
    BY <1>8, ClosePaneTwice DEF apply
<1>9. CASE e.type = "PaneRevised"
    BY <1>9, PaneRevisedTwice
<1>10. CASE e.type = "PaneAgentDetected"
    BY <1>10, AgentDetectedTwice DEF apply
<1>11. CASE e.type = "PaneAgentStatusChanged"
    BY <1>11, AgentStatusTwice DEF apply
<1>12. CASE e.type \notin {"WorkspaceSet", "WorkspaceRenamed", "WorkspaceMoved",
                           "WorkspaceFocused", "WorkspaceClosed", "TabCreated",
                           "TabRenamed", "TabMoved", "TabFocused", "TabClosed", "PaneSet",
                           "PaneMoved", "PaneFocused", "PaneClosed", "PaneRevised",
                           "PaneAgentDetected", "PaneAgentStatusChanged", "LayoutUpdated"}
    BY <1>12 DEF apply
<1> QED
    BY <1>1, <1>2, <1>3, <1>4, <1>5, <1>6, <1>7, <1>8, <1>9, <1>10, <1>11, <1>12
=============================================================================
