--------------------------- MODULE QueriesProofs ---------------------------
(***************************************************************************)
(* A list in pages has every row that matched all along, once, and the     *)
(* scan status agrees with the images and reports it was counted from, for *)
(* any number of images, row ids and writes between the statements.        *)
(***************************************************************************)
EXTENDS Queries, FiniteSetTheorems, TLAPS

In(s, x) == \E n \in 1..Len(s) : s[n] = x
Below(s, c) == \A n \in 1..Len(s) : s[n] <= c

-----------------------------------------------------------------------------
(* Rows in the order of their ids.                                         *)

\* Row ids can be put in order: the place of one is the number of those up to it.
LEMMA OrderExists ==
    ASSUME NEW S, S \subseteq Nat, IsFiniteSet(S)
    PROVE  \E s \in [1..Cardinality(S) -> S] :
               \A m, n \in 1..Cardinality(S) : m < n => s[m] < s[n]
<1> DEFINE N == Cardinality(S)
           Upto(x) == {y \in S : y <= x}
           f == [x \in S |-> Cardinality(Upto(x))]
<1>1. N \in Nat
  BY FS_CardinalityType
<1>2. ASSUME NEW x \in S
      PROVE  IsFiniteSet(Upto(x)) /\ Cardinality(Upto(x)) \in 1..N
  <2>1. IsFiniteSet(Upto(x)) /\ Cardinality(Upto(x)) <= N
    BY FS_Subset
  <2>2. Cardinality(Upto(x)) \in Nat
    BY <2>1, FS_CardinalityType
  <2>3. x \in Upto(x)
    OBVIOUS
  <2>4. Cardinality(Upto(x)) # 0
    BY <2>1, <2>3, FS_EmptySet
  <2> QED
    BY <1>1, <2>1, <2>2, <2>4
<1>3. ASSUME NEW x \in S, NEW y \in S, x < y
      PROVE  f[x] < f[y]
  <2>0. /\ \A z \in S : z <= x => z <= y
        /\ y <= y /\ ~(y <= x)
    <3>1. x \in Nat /\ y \in Nat /\ \A z \in S : z \in Nat
      OBVIOUS
    <3> QED
      BY <1>3, <3>1
  <2>1. Upto(x) \in SUBSET Upto(y) /\ y \in Upto(y) /\ y \notin Upto(x)
    BY Zenon, <2>0
  <2>2. Cardinality(Upto(x)) <= Cardinality(Upto(y))
        /\ (Cardinality(Upto(y)) = Cardinality(Upto(x)) => Upto(y) = Upto(x))
    BY <1>2, <2>1, FS_Subset
  <2>3. Cardinality(Upto(x)) \in Nat /\ Cardinality(Upto(y)) \in Nat
    BY <1>2
  <2> HIDE DEF Upto
  <2> QED
    BY <2>1, <2>2, <2>3
<1>4. f \in [S -> 1..N]
  BY <1>2
<1> HIDE DEF f
<1>5. f \in Surjection(S, 1..N)
  <2>1. f \in Injection(S, 1..N)
    <3>1. ASSUME NEW x \in S, NEW y \in S, f[x] = f[y] PROVE x = y
      <4>1. x \in Nat /\ y \in Nat /\ f[x] \in Nat /\ f[y] \in Nat
        BY <1>4
      <4> QED
        BY <1>3, <3>1, <4>1
    <3> QED
      BY <1>4, <3>1 DEF Injection, IsInjective
  <2>2. IsFiniteSet(1..N) /\ Cardinality(1..N) = N
    BY <1>1, FS_Interval
  <2> QED
    BY Zenon, <2>1, <2>2, FS_Injection
<1>6. \A n \in 1..N : \E x \in S : f[x] = n
  BY Zenon, <1>5 DEF Surjection
<1> DEFINE s == [n \in 1..N |-> CHOOSE x \in S : f[x] = n]
<1>7. ASSUME NEW n \in 1..N PROVE s[n] \in S /\ f[s[n]] = n
  BY Zenon, <1>6
<1>8. s \in [1..N -> S]
  BY Zenon, <1>7
<1> HIDE DEF s
<1>9. ASSUME NEW m \in 1..N, NEW n \in 1..N, m < n PROVE s[m] < s[n]
  <2>1. s[m] \in S /\ s[n] \in S /\ f[s[m]] = m /\ f[s[n]] = n
    BY <1>7
  <2>2. s[n] < s[m] => f[s[n]] < f[s[m]]
    BY Zenon, <1>3, <2>1
  <2>3. m \in Nat /\ n \in Nat /\ m # n /\ ~(n < m)
    BY <1>1, <1>9
  <2>4. s[m] # s[n] /\ ~(s[n] < s[m])
    BY Zenon, <2>1, <2>2, <2>3
  <2>5. s[m] \in Nat /\ s[n] \in Nat
    BY Zenon, <2>1
  <2> QED
    BY <2>4, <2>5
<1> QED
  BY Zenon, <1>8, <1>9

\* The rows in order are all of them, once each.
LEMMA InOrderIs ==
    ASSUME NEW S, S \subseteq 1..MaxId
    PROVE  /\ InOrder(S) \in Seq(S) /\ Increasing(InOrder(S))
           /\ \A x \in S : In(InOrder(S), x)
<1> DEFINE N == Cardinality(S)
           s == InOrder(S)
<1>1. IsFiniteSet(S) /\ S \subseteq Nat /\ N \in Nat
  <2>1. MaxId \in Int /\ 1 \in Int
    BY QueriesAssumption
  <2>2. IsFiniteSet(1..MaxId)
    BY <2>1, FS_Interval
  <2>3. IsFiniteSet(S)
    BY Zenon, <2>2, FS_Subset
  <2> QED
    BY <2>3, FS_CardinalityType
<1>2. s \in [1..N -> S] /\ \A m, n \in 1..N : m < n => s[m] < s[n]
  BY Zenon, <1>1, OrderExists DEF InOrder
<1> HIDE DEF s
<1>3. s \in Seq(S) /\ Len(s) = N
  BY <1>1, <1>2
<1>4. s \in Injection(1..N, S)
  <2>1. ASSUME NEW m \in 1..N, NEW n \in 1..N, s[m] = s[n] PROVE m = n
    <3>1. s[m] \in Nat /\ s[n] \in Nat
      BY Zenon, <1>1, <1>2
    <3> QED
      BY <1>1, <1>2, <2>1, <3>1
  <2> QED
    BY <1>2, <2>1 DEF Injection, IsInjective
<1>5. s \in Surjection(1..N, S)
  <2>1. IsFiniteSet(1..N) /\ Cardinality(1..N) = N
    BY <1>1, FS_Interval
  <2> QED
    BY Zenon, <1>1, <1>4, <2>1, FS_Injection
<1>6. \A x \in S : In(s, x)
  BY Zenon, <1>3, <1>5 DEF Surjection, In
<1> QED
  BY <1>2, <1>3, <1>6 DEF s, Increasing

LEMMA Members ==
    ASSUME NEW S, NEW s \in Seq(S)
    PROVE  Len(s) \in Nat /\ \A n \in 1..Len(s) : s[n] \in S
  OBVIOUS

LEMMA Widened ==
    ASSUME NEW A, NEW B, A \subseteq B, NEW s \in Seq(A)
    PROVE  s \in Seq(B)
  OBVIOUS

\* A page is a beginning of the rows, up to one that stands for where it ends.
LEMMA TakeIs ==
    ASSUME NEW R, R \subseteq 1..MaxId, NEW rows \in Seq(R), Increasing(rows),
           \A x \in R : In(rows, x),
           NEW limit \in 0..2, NEW t, t = Take(rows, limit)
    PROVE  /\ t.items \in Seq(R) /\ Increasing(t.items) /\ t.more \in BOOLEAN
           /\ ~t.more => \A x \in R : In(t.items, x)
           /\ t.more => /\ Len(t.items) # 0
                        /\ Below(t.items, t.items[Len(t.items)])
                        /\ \A x \in R : x <= t.items[Len(t.items)] => In(t.items, x)
<1>0. R \subseteq Nat
  BY QueriesAssumption
<1>1. Len(rows) \in Nat /\ \A n \in 1..Len(rows) : rows[n] \in R /\ rows[n] \in Nat
  BY Zenon, <1>0, Members
<1>2. CASE limit > 0 /\ Len(rows) > limit
  <2> DEFINE s == SubSeq(rows, 1, limit)
  <2>1. t.items = s /\ t.more = TRUE
    BY Zenon, <1>2 DEF Take
  <2>2. s \in Seq(R) /\ Len(s) = limit /\ \A n \in 1..limit : s[n] = rows[n]
    BY <1>1, <1>2
  <2> HIDE DEF s
  <2>3. Increasing(s)
    BY <1>1, <1>2, <2>2 DEF Increasing
  <2>4. \A n \in 1..limit : s[n] <= s[limit]
    BY <1>1, <1>2, <2>2 DEF Increasing
  <2>5. ASSUME NEW x \in R, x <= s[limit] PROVE \E n \in 1..limit : s[n] = x
    <3>1. PICK n \in 1..Len(rows) : rows[n] = x
      BY Zenon DEF In
    <3>2. n <= limit
      <4>1. SUFFICES ASSUME limit < n PROVE FALSE
        BY <1>1
      <4>2. rows[limit] < rows[n]
        BY <1>2, <4>1, <1>1 DEF Increasing
      <4>3. s[limit] = rows[limit] /\ rows[limit] \in Nat /\ rows[n] \in Nat
        BY <1>1, <1>2, <2>2
      <4> QED
        BY <2>5, <3>1, <4>2, <4>3
    <3> QED
      BY <1>1, <2>2, <3>1, <3>2
  <2> QED
    <3>1. limit # 0
      BY <1>2
    <3> QED
      BY Zenon, <2>1, <2>2, <2>3, <2>4, <2>5, <3>1 DEF In, Below
<1>3. CASE ~(limit > 0 /\ Len(rows) > limit)
  <2>1. t.items = rows /\ t.more = FALSE
    BY Zenon, <1>3 DEF Take
  <2> QED
    BY Zenon, <2>1
<1> QED
  BY Zenon, <1>2, <1>3

LEMMA NumbersIn ==
    ASSUME NEW M \in Nat, NEW s \in Seq(1..M)
    PROVE  Len(s) \in Nat /\ \A n \in 1..Len(s) : s[n] \in Nat
  OBVIOUS

LEMMA Between ==
    ASSUME NEW a \in Nat, NEW b \in Nat, NEW c \in Nat, a <= b, b < c
    PROVE  a < c
  OBVIOUS

\* Two runs of ids in order, one above the other, are one.
LEMMA Joined ==
    ASSUME NEW s \in Seq(1..MaxId), NEW u \in Seq(1..MaxId), NEW b \in Nat,
           Increasing(s), Increasing(u),
           Below(s, b), \A n \in 1..Len(u) : b < u[n], NEW v, v = s \o u
    PROVE  /\ v \in Seq(1..MaxId) /\ Increasing(v)
           /\ \A x : In(s, x) \/ In(u, x) => In(v, x)
           /\ \A c \in Nat : b <= c /\ Below(u, c) => Below(v, c)
<1>1. /\ Len(s) \in Nat /\ Len(u) \in Nat /\ MaxId \in Nat
      /\ \A n \in 1..Len(s) : s[n] \in Nat
      /\ \A n \in 1..Len(u) : u[n] \in Nat
  BY Zenon, QueriesAssumption, NumbersIn
<1>2. /\ v \in Seq(1..MaxId) /\ Len(v) = Len(s) + Len(u)
      /\ \A n \in 1..Len(s) : v[n] = s[n]
      /\ \A n \in (Len(s) + 1)..Len(v) : v[n] = u[n - Len(s)]
  OBVIOUS
<1>3. \A m \in 1..Len(v) : \/ m \in 1..Len(s)
                           \/ m \in (Len(s) + 1)..Len(v) /\ m - Len(s) \in 1..Len(u)
  BY <1>1, <1>2
<1>4. ASSUME NEW m \in 1..Len(v), NEW n \in 1..Len(v), m < n PROVE v[m] < v[n]
  <2>1. CASE n \in 1..Len(s)
    <3>1. m \in 1..Len(s)
      BY <1>1, <1>4, <2>1
    <3> QED
      BY <1>2, <1>4, <2>1, <3>1 DEF Increasing
  <2>2. CASE /\ n \in (Len(s) + 1)..Len(v) /\ n - Len(s) \in 1..Len(u)
             /\ m \in 1..Len(s)
    <3>1. v[m] = s[m] /\ v[n] = u[n - Len(s)]
      BY Zenon, <1>2, <2>2
    <3>2. s[m] <= b /\ b < u[n - Len(s)] /\ s[m] \in Nat /\ u[n - Len(s)] \in Nat
      BY Zenon, <1>1, <2>2 DEF Below
    <3> QED
      BY Zenon, <3>1, <3>2, Between
  <2>3. CASE /\ n \in (Len(s) + 1)..Len(v) /\ n - Len(s) \in 1..Len(u)
             /\ m \in (Len(s) + 1)..Len(v) /\ m - Len(s) \in 1..Len(u)
    <3>1. v[m] = u[m - Len(s)] /\ v[n] = u[n - Len(s)]
      BY Zenon, <1>2, <2>3
    <3>2. m - Len(s) < n - Len(s)
      BY <1>1, <1>2, <1>4
    <3> QED
      BY Zenon, <2>3, <3>1, <3>2 DEF Increasing
  <2> QED
    BY Zenon, <1>3, <2>1, <2>2, <2>3
<1>5. \A n \in 1..Len(s) : \E m \in 1..Len(v) : v[m] = s[n]
  BY <1>1, <1>2
<1>6. ASSUME NEW n \in 1..Len(u) PROVE \E m \in 1..Len(v) : v[m] = u[n]
  <2>1. n + Len(s) \in (Len(s) + 1)..Len(v) /\ (n + Len(s)) - Len(s) = n
        /\ n + Len(s) \in 1..Len(v)
    BY <1>1, <1>2
  <2> QED
    BY Zenon, <1>2, <2>1
<1>7. ASSUME NEW c \in Nat, b <= c, Below(u, c), NEW m \in 1..Len(v)
      PROVE  v[m] <= c
  <2>1. CASE m \in 1..Len(s)
    <3>1. v[m] = s[m] /\ s[m] <= b /\ s[m] \in Nat
      BY Zenon, <1>1, <1>2, <2>1 DEF Below
    <3> QED
      BY <1>7, <3>1
  <2>2. CASE m \in (Len(s) + 1)..Len(v) /\ m - Len(s) \in 1..Len(u)
    BY Zenon, <1>2, <1>7, <2>2 DEF Below
  <2> QED
    BY Zenon, <1>3, <2>1, <2>2
<1>8. Increasing(v)
  BY Zenon, <1>4 DEF Increasing
<1>9. \A x : In(s, x) \/ In(u, x) => In(v, x)
  <2>1. \A x : In(s, x) => In(v, x)
    BY Zenon, <1>5 DEF In
  <2>2. \A x : In(u, x) => In(v, x)
    BY Zenon, <1>6 DEF In
  <2> QED
    BY Zenon, <2>1, <2>2
<1>10. \A c \in Nat : b <= c /\ Below(u, c) => Below(v, c)
  BY Zenon, <1>7 DEF Below
<1> QED
  BY Zenon, <1>2, <1>8, <1>9, <1>10

-----------------------------------------------------------------------------
(* A list.                                                                 *)

\* The rows of a query are ids, and those that match are among them.
LEMMA RowsTyped ==
    ASSUME TypeOK, NEW sel \in Selectors
    PROVE  Rows(sel) \subseteq 1..MaxId /\ Lasting(sel) \subseteq Rows(sel)
<1>1. \A i \in Images : id[i] # 0 => id[i] \in 1..MaxId
  BY QueriesAssumption DEF TypeOK
<1>2. ASSUME NEW l \in Labels, Meant(sel, l) PROVE Where(sel, l) = "true"
  <2>1. \/ sel.op = "Everything" \/ sel.op \in {"Equals", "In"}
        \/ sel.op \in {"NotEquals", "NotIn"} \/ sel.op = "Exists" \/ sel.op = "DoesNotExist"
    BY DEF Selectors, Operators
  <2>2. CASE sel.op = "Everything"
    BY <2>2 DEF Where
  <2>3. CASE sel.op \in {"Equals", "In"}
    BY <1>2, <2>3 DEF Meant, Means, Where
  <2>4. CASE sel.op \in {"NotEquals", "NotIn"}
    BY <1>2, <2>4 DEF Meant, Means, Where
  <2>5. CASE sel.op = "Exists"
    BY <1>2, <2>5 DEF Meant, Means, Where
  <2>6. CASE sel.op = "DoesNotExist"
    BY <1>2, <2>6 DEF Meant, Means, Where
  <2> QED
    BY Zenon, <2>1, <2>2, <2>3, <2>4, <2>5, <2>6
<1>3. Lasting(sel) \subseteq Rows(sel)
  BY Zenon, <1>2 DEF Lasting, Rows, TypeOK
<1> QED
  BY Zenon, <1>1, <1>3 DEF Rows

\* One more page: the list has the rows up to the new continue token.
LEMMA PageRead ==
    ASSUME TypeOK, NEW p \in Lists, ~p.done, NEW S, S \subseteq Lasting(p.sel), Paged(p, S)
    PROVE  ReadPage(p) \in Lists /\ ReadPage(p).sel = p.sel /\ Paged(ReadPage(p), S)
<1>1. PICK R : R = {n \in Rows(p.sel) : n > p.token}
  BY Zenon
<1>2. PICK rows : rows = PageRows(p.sel, p.token)
  BY Zenon
<1>3. PICK t : t = Take(rows, p.limit)
  BY Zenon
<1>4. /\ p.sel \in Selectors /\ p.limit \in 0..2 /\ p.token \in 0..MaxId
      /\ p.items \in Seq(1..MaxId) /\ MaxId \in Nat
  BY QueriesAssumption DEF Lists
<1>5. R \subseteq 1..MaxId /\ S \subseteq 1..MaxId /\ S \subseteq Rows(p.sel)
  BY Zenon, <1>1, <1>4, RowsTyped
<1>6. /\ rows \in Seq(R) /\ Increasing(rows)
      /\ \A x \in R : In(rows, x)
  BY Zenon, <1>1, <1>2, <1>5, InOrderIs DEF PageRows
<1>7. /\ t.items \in Seq(R) /\ Increasing(t.items) /\ t.more \in BOOLEAN
      /\ ~t.more => \A x \in R : In(t.items, x)
      /\ t.more => /\ Len(t.items) # 0
                   /\ Below(t.items, t.items[Len(t.items)])
                   /\ \A x \in R : x <= t.items[Len(t.items)] => In(t.items, x)
  BY ZenonT(30), <1>3, <1>4, <1>5, <1>6, TakeIs
<1>8. /\ Len(t.items) \in Nat
      /\ \A n \in 1..Len(t.items) : t.items[n] \in R /\ t.items[n] \in 1..MaxId
                                    /\ p.token < t.items[n]
  <2>1. Len(t.items) \in Nat /\ \A n \in 1..Len(t.items) : t.items[n] \in R
    BY Zenon, <1>7, Members
  <2>2. \A x \in R : x \in 1..MaxId /\ p.token < x
    BY <1>1, <1>4, <1>5
  <2> QED
    BY Zenon, <2>1, <2>2
<1>9. t.items \in Seq(1..MaxId)
  BY Zenon, <1>5, <1>7, Widened
<1>10. PICK v : v = p.items \o t.items
  BY Zenon
<1>11. PICK token : token = IF t.more THEN t.items[Len(t.items)] ELSE 0
  BY Zenon
<1>12. token \in 0..MaxId /\ (t.more => token \in 1..MaxId /\ p.token < token)
  <2>1. CASE t.more
    <3>1. Len(t.items) \in 1..Len(t.items)
      BY <1>7, <1>8, <2>1
    <3>2. token \in 1..MaxId /\ p.token < token
      BY Zenon, <1>8, <1>11, <2>1, <3>1
    <3> QED
      BY <1>4, <3>2
  <2>2. CASE ~t.more
    BY <1>4, <1>11, <2>2
  <2> QED
    BY Zenon, <2>1, <2>2
<1>13. p.token \in Nat /\ Increasing(p.items) /\ Below(p.items, p.token)
  BY <1>4 DEF Paged, Below
<1>14. /\ v \in Seq(1..MaxId) /\ Increasing(v)
       /\ \A x : In(p.items, x) \/ In(t.items, x) => In(v, x)
       /\ \A c \in Nat : p.token <= c /\ Below(t.items, c) => Below(v, c)
  <2>1. PICK s \in Seq(1..MaxId) : s = p.items
    BY Zenon, <1>4
  <2>2. PICK u \in Seq(1..MaxId) : u = t.items
    BY Zenon, <1>9
  <2>3. PICK b \in Nat : b = p.token
    BY Zenon, <1>13
  <2>4. /\ Increasing(s) /\ Increasing(u) /\ Below(s, b) /\ v = s \o u
        /\ \A n \in 1..Len(u) : b < u[n]
    BY Zenon, <1>7, <1>8, <1>10, <1>13, <2>1, <2>2, <2>3
  <2>5. /\ v \in Seq(1..MaxId) /\ Increasing(v)
        /\ \A x : In(s, x) \/ In(u, x) => In(v, x)
        /\ \A c \in Nat : b <= c /\ Below(u, c) => Below(v, c)
    BY Zenon, <2>4, Joined
  <2> QED
    BY Zenon, <2>1, <2>2, <2>3, <2>5
<1>15. PICK q : q = ReadPage(p)
  BY Zenon
<1>16. /\ q \in Lists /\ q.sel = p.sel /\ q.items = v /\ q.token = token /\ q.done = ~t.more
  <2>1. q = [p EXCEPT !.items = v, !.token = token, !.done = ~t.more]
    BY Zenon, <1>2, <1>3, <1>4, <1>10, <1>11, <1>15 DEF ReadPage, Lists
  <2> DEFINE y == [p EXCEPT !.items = v]
             z == [y EXCEPT !.token = token]
             x == [z EXCEPT !.done = ~t.more]
  <2>2. y \in Lists /\ y.sel = p.sel /\ y.items = v
    BY <1>14 DEF Lists
  <2> HIDE DEF y
  <2>3. z \in Lists /\ z.sel = p.sel /\ z.items = v /\ z.token = token
    BY Zenon, <1>12, <2>2 DEF Lists
  <2> HIDE DEF z
  <2>4. x \in Lists /\ x.sel = p.sel /\ x.items = v /\ x.token = token /\ x.done = ~t.more
    BY Zenon, <2>3 DEF Lists
  <2> QED
    BY Zenon, <2>1, <2>4 DEF x, y, z
<1>17. ASSUME ~q.done PROVE \A n \in 1..Len(q.items) : q.items[n] <= q.token
  <2>0. t.more /\ token \in 1..MaxId /\ p.token < token
    BY Zenon, <1>12, <1>16, <1>17
  <2>1. t.more /\ token \in Nat /\ p.token <= token
    BY <1>13, <2>0
  <2>2. Below(t.items, token)
    BY Zenon, <1>7, <1>11, <2>1
  <2>3. Below(v, token)
    BY Zenon, <1>14, <2>1, <2>2
  <2> QED
    BY Zenon, <1>16, <2>3 DEF Below
<1>18. ASSUME NEW x \in S, q.done \/ x <= q.token PROVE x \in Range(q.items)
  <2>1. In(v, x)
    <3>1. CASE x <= p.token
      <4>1. x \in Range(p.items)
        BY Zenon, <3>1 DEF Paged
      <4>2. In(p.items, x)
        <5>1. DOMAIN p.items = 1..Len(p.items)
          BY <1>4
        <5> QED
          BY Zenon, <4>1, <5>1 DEF Range, In
      <4> QED
        BY Zenon, <1>14, <4>2
    <3>2. CASE ~(x <= p.token)
      <4>1. x \in R
        BY <1>1, <1>4, <1>5, <3>2
      <4>2. In(t.items, x)
        BY Zenon, <1>7, <1>11, <1>16, <1>18, <4>1
      <4> QED
        BY Zenon, <1>14, <4>2
    <3> QED
      BY Zenon, <3>1, <3>2
  <2>2. DOMAIN v = 1..Len(v)
    BY <1>14
  <2> QED
    BY Zenon, <1>16, <2>1, <2>2 DEF Range, In
<1> QED
  BY Zenon, <1>14, <1>15, <1>16, <1>17, <1>18 DEF Paged

-----------------------------------------------------------------------------
(* The writers.                                                            *)

\* A writer between the two queries of the status is noted.
LEMMA Disturbed ==
    ASSUME TypeOK, Disturbs, StatusExact
    PROVE  /\ status' \in [step : {"idle", "counted", "read"},
                           images : 0..Cardinality(Images), claim : Claims, truth : Claims,
                           calm : BOOLEAN, orphans : BOOLEAN]
           /\ StatusExact' /\ ~(status'.step = "counted" /\ status'.calm)
<1> DEFINE T == [step : {"idle", "counted", "read"}, images : 0..Cardinality(Images),
                 claim : Claims, truth : Claims, calm : BOOLEAN, orphans : BOOLEAN]
<1>1. status \in T
  BY Zenon DEF TypeOK
<1>2. PICK calm \in BOOLEAN : /\ status' = [status EXCEPT !.calm = calm]
                              /\ calm <=> status.calm /\ status.step # "counted"
  BY Zenon, <1>1 DEF Disturbs
<1>3. /\ status' \in T /\ status'.step = status.step /\ status'.calm = calm
      /\ status'.claim = status.claim /\ status'.truth = status.truth
      /\ status'.orphans = status.orphans
  BY <1>1, <1>2
<1> QED
  BY Zenon, <1>2, <1>3 DEF StatusExact

\* The images stored and the ids drawn, and what writers make of them.
LEMMA WriteStep ==
    ASSUME ReadsInv, NEW i \in Images, Write(i)
    PROVE  ReadsInv'
<1>1. /\ TypeOK /\ IdsApart /\ StatusExact
      /\ page # NoList => Paged(page, steady) /\ steady \subseteq Lasting(page.sel)
      /\ status.step = "counted" /\ status.calm => status.images = Cardinality(Stored)
  BY Zenon DEF ReadsInv
<1>2. /\ id \in [Images -> 0..MaxId] /\ drawn \in [Images -> 0..MaxId]
      /\ nextId \in 1..MaxId + 1 /\ MaxId \in Nat
  BY Zenon, <1>1, QueriesAssumption DEF TypeOK
<1>3. ASSUME NEW n, page # NoList, n \in steady
      PROVE  \E j \in Images : n = id[j] /\ id[j] # 0 /\ Meant(page.sel, label[j])
  BY Zenon, <1>1, <1>3 DEF Lasting
<1>4. ASSUME page' = page, steady' \subseteq steady,
             \A n \in steady' : page # NoList =>
                \E j \in Images : n = id'[j] /\ id'[j] # 0 /\ Meant(page.sel, label'[j])
      PROVE  page' # NoList => Paged(page, steady)' /\ steady' \subseteq Lasting(page.sel)'
  BY Zenon, <1>1, <1>4 DEF Paged, Lasting
<1>10. CASE DrawId(i)
  <2>1. /\ id[i] = 0 /\ drawn[i] = 0 /\ nextId <= MaxId
        /\ drawn' = [drawn EXCEPT ![i] = nextId] /\ nextId' = nextId + 1
        /\ UNCHANGED <<id, label, reports, page, steady, status>>
    BY Zenon, <1>10 DEF DrawId
  <2>2. drawn'[i] = nextId /\ \A j \in Images \ {i} : drawn'[j] = drawn[j]
    BY Zenon, <1>2, <2>1
  <2>3. TypeOK'
    BY <1>1, <1>2, <2>1 DEF TypeOK
  <2>4. IdsApart'
    BY <1>1, <1>2, <2>1, <2>2 DEF IdsApart
  <2>5. StatusExact' /\ Stored' = Stored
    BY Zenon, <1>1, <2>1 DEF StatusExact, Stored
  <2>6. page' # NoList => Paged(page, steady)' /\ steady' \subseteq Lasting(page.sel)'
    BY Zenon, <1>1, <2>1 DEF Paged, Lasting
  <2> QED
    BY Zenon, <1>1, <2>1, <2>3, <2>4, <2>5, <2>6 DEF ReadsInv
<1>11. CASE CommitInsert(i)
  <2>1. /\ drawn[i] # 0 /\ id' = [id EXCEPT ![i] = drawn[i]]
        /\ drawn' = [drawn EXCEPT ![i] = 0] /\ Disturbs
        /\ UNCHANGED <<nextId, label, reports, page, steady>>
    BY Zenon, <1>11 DEF CommitInsert
  <2>2. /\ drawn'[i] = 0 /\ id'[i] = drawn[i] /\ id[i] = 0
        /\ \A j \in Images \ {i} : drawn'[j] = drawn[j] /\ id'[j] = id[j]
    BY Zenon, <1>1, <1>2, <2>1 DEF IdsApart
  <2>3. TypeOK'
    BY Zenon, <1>1, <1>2, <2>1, <2>2, Disturbed DEF TypeOK
  <2>4. IdsApart'
    BY <1>1, <1>2, <2>1, <2>2 DEF IdsApart
  <2>5. StatusExact' /\ ~(status'.step = "counted" /\ status'.calm)
    BY Zenon, <1>1, <2>1, Disturbed
  <2>6. page' # NoList => Paged(page, steady)' /\ steady' \subseteq Lasting(page.sel)'
    <3>1. ASSUME NEW n \in steady', page # NoList
          PROVE  \E j \in Images : n = id'[j] /\ id'[j] # 0 /\ Meant(page.sel, label'[j])
      <4>1. PICK j \in Images : n = id[j] /\ id[j] # 0 /\ Meant(page.sel, label[j])
        BY Zenon, <1>3, <2>1, <3>1
      <4>2. j # i
        BY Zenon, <2>1, <2>2, <3>1, <4>1
      <4> QED
        BY Zenon, <2>1, <2>2, <4>1, <4>2
    <3> QED
      BY Zenon, <1>4, <2>1, <3>1
  <2> QED
    BY Zenon, <2>3, <2>4, <2>5, <2>6 DEF ReadsInv
<1>12. CASE DeleteImage(i)
  <2>1. /\ id[i] # 0 /\ id' = [id EXCEPT ![i] = 0] /\ label' = [label EXCEPT ![i] = "a"]
        /\ steady' = steady \ {id[i]} /\ Disturbs
        /\ UNCHANGED <<nextId, drawn, reports, page>>
    BY Zenon, <1>12 DEF DeleteImage
  <2>2. /\ id'[i] = 0
        /\ \A j \in Images \ {i} : id'[j] = id[j] /\ label'[j] = label[j]
    BY Zenon, <1>1, <1>2, <2>1 DEF TypeOK
  <2>3. TypeOK'
    <3>1. 0 \in 0..MaxId /\ "a" \in Labels
      BY <1>2 DEF Labels, Values
    <3> QED
      BY Zenon, <1>1, <1>2, <2>1, <3>1, Disturbed DEF TypeOK
  <2>4. IdsApart'
    BY <1>1, <1>2, <2>1, <2>2 DEF IdsApart
  <2>5. StatusExact' /\ ~(status'.step = "counted" /\ status'.calm)
    BY Zenon, <1>1, <2>1, Disturbed
  <2>6. page' # NoList => Paged(page, steady)' /\ steady' \subseteq Lasting(page.sel)'
    <3>1. ASSUME NEW n \in steady', page # NoList
          PROVE  \E j \in Images : n = id'[j] /\ id'[j] # 0 /\ Meant(page.sel, label'[j])
      <4>1. PICK j \in Images : n = id[j] /\ id[j] # 0 /\ Meant(page.sel, label[j])
        BY Zenon, <1>3, <2>1, <3>1
      <4>2. j # i
        BY Zenon, <2>1, <2>2, <3>1, <4>1
      <4> QED
        BY Zenon, <2>1, <2>2, <4>1, <4>2
    <3> QED
      BY Zenon, <1>4, <2>1, <3>1
  <2> QED
    BY Zenon, <2>3, <2>4, <2>5, <2>6 DEF ReadsInv
<1>13. CASE Relabel(i)
  <2>1. /\ id[i] # 0 /\ \E l \in Labels : label' = [label EXCEPT ![i] = l]
        /\ steady' = IF page # NoList /\ ~Meant(page.sel, label'[i])
                     THEN steady \ {id[i]} ELSE steady
        /\ UNCHANGED <<nextId, id, drawn, reports, page, status>>
    BY Zenon, <1>13 DEF Relabel
  <2>2. label' \in [Images -> Labels] /\ \A j \in Images \ {i} : label'[j] = label[j]
    BY ZenonT(30), <1>1, <2>1 DEF TypeOK
  <2>3. TypeOK'
    BY Zenon, <1>1, <2>1, <2>2 DEF TypeOK
  <2>4. IdsApart' /\ StatusExact' /\ Stored' = Stored
    BY Zenon, <1>1, <2>1 DEF IdsApart, StatusExact, Stored
  <2>6. page' # NoList => Paged(page, steady)' /\ steady' \subseteq Lasting(page.sel)'
    <3>1. steady' \subseteq steady
      BY Zenon, <2>1
    <3>2. ASSUME NEW n \in steady', page # NoList
          PROVE  \E j \in Images : n = id'[j] /\ id'[j] # 0 /\ Meant(page.sel, label'[j])
      <4>1. PICK j \in Images : n = id[j] /\ id[j] # 0 /\ Meant(page.sel, label[j])
        BY Zenon, <1>3, <3>1, <3>2
      <4>2. Meant(page.sel, label'[j])
        BY Zenon, <2>1, <2>2, <3>2, <4>1
      <4> QED
        BY Zenon, <2>1, <4>1, <4>2
    <3> QED
      BY Zenon, <1>4, <2>1, <3>1, <3>2
  <2> QED
    BY Zenon, <1>1, <2>1, <2>3, <2>4, <2>6 DEF ReadsInv
<1>14. CASE WriteReport(i) \/ CollectReport(i)
  <2>1. Disturbs /\ reports' \subseteq Images /\ UNCHANGED <<nextId, id, drawn, label, page, steady>>
    BY Zenon, <1>1, <1>14 DEF WriteReport, CollectReport, TypeOK
  <2>2. TypeOK' /\ StatusExact' /\ ~(status'.step = "counted" /\ status'.calm)
    BY Zenon, <1>1, <2>1, Disturbed DEF TypeOK
  <2>3. IdsApart'
    BY Zenon, <1>1, <2>1 DEF IdsApart
  <2>4. page' # NoList => Paged(page, steady)' /\ steady' \subseteq Lasting(page.sel)'
    BY Zenon, <1>1, <2>1 DEF Paged, Lasting
  <2> QED
    BY Zenon, <2>2, <2>3, <2>4 DEF ReadsInv
<1> QED
  BY Zenon, <1>10, <1>11, <1>12, <1>13, <1>14 DEF Write

-----------------------------------------------------------------------------
(* The reader.                                                             *)

\* Counts of reports and of images tell which is the larger set.
LEMMA CountsTell ==
    ASSUME TypeOK, reports \subseteq Stored
    PROVE  computeScanStatus(Cardinality(Stored), Cardinality(reports)) = Truth
<1>1. IsFiniteSet(Stored) /\ Stored \subseteq Images
  BY QueriesAssumption, FS_Subset DEF Stored
<1>2. /\ Cardinality(reports) <= Cardinality(Stored)
      /\ Cardinality(Stored) = Cardinality(reports) => Stored = reports
      /\ IsFiniteSet(reports)
  BY <1>1, FS_Subset
<1>3. Cardinality(Stored) \in Nat /\ Cardinality(reports) \in Nat
  BY <1>1, <1>2, FS_CardinalityType
<1>4. Cardinality(Stored) = 0 <=> Stored = {}
  BY <1>1, FS_EmptySet
<1>5. Cardinality(reports) < Cardinality(Stored) <=> ~(Stored \subseteq reports)
  <2>1. CASE Stored \subseteq reports
    <3>1. Stored = reports
      BY Zenon, <2>1
    <3> QED
      BY <1>3, <2>1, <3>1
  <2>2. CASE ~(Stored \subseteq reports)
    <3>1. Cardinality(Stored) # Cardinality(reports)
      BY Zenon, <1>2, <2>2
    <3> QED
      BY <1>2, <1>3, <2>2, <3>1
  <2> QED
    BY Zenon, <2>1, <2>2
<1> QED
  BY Zenon, <1>4, <1>5 DEF computeScanStatus, Truth

\* A list begins, goes on or ends.
LEMMA ListStep ==
    ASSUME ReadsInv, StartList \/ ContinueList \/ EndList
    PROVE  ReadsInv'
<1>1. /\ TypeOK /\ IdsApart /\ StatusExact
      /\ page # NoList => Paged(page, steady) /\ steady \subseteq Lasting(page.sel)
      /\ status.step = "counted" /\ status.calm => status.images = Cardinality(Stored)
  BY Zenon DEF ReadsInv
<1>2. UNCHANGED <<nextId, id, drawn, label, reports, status>>
  BY Zenon DEF StartList, ContinueList, EndList, tableVars
<1>3. /\ IdsApart' /\ StatusExact' /\ Stored' = Stored
      /\ \A sel : Lasting(sel)' = Lasting(sel)
  BY Zenon, <1>1, <1>2 DEF IdsApart, StatusExact, Stored, Lasting
<1>4. NoList \notin Lists
  BY QueriesAssumption
<1>5. ASSUME page' \in Lists \cup {NoList}, steady' \subseteq 1..MaxId,
             page' # NoList => Paged(page, steady)' /\ steady' \subseteq Lasting(page.sel)'
      PROVE  ReadsInv'
  <2>1. TypeOK'
    BY Zenon, <1>1, <1>2, <1>5 DEF TypeOK
  <2> QED
    BY Zenon, <1>1, <1>2, <1>3, <1>5, <2>1 DEF ReadsInv
<1>6. CASE StartList
  <2>1. PICK sel \in Selectors, limit \in 0..2 :
           /\ page' = ReadPage([sel |-> sel, limit |-> limit, token |-> 0,
                                items |-> <<>>, done |-> FALSE])
           /\ steady' = Lasting(sel)
    BY Zenon, <1>6 DEF StartList
  <2>2. PICK p : p = [sel |-> sel, limit |-> limit, token |-> 0, items |-> <<>>, done |-> FALSE]
    BY Zenon
  <2>3. p \in Lists /\ ~p.done /\ p.sel = sel /\ p.token = 0 /\ p.items = <<>>
    BY <2>2, QueriesAssumption DEF Lists
  <2>4. Lasting(sel) \subseteq 1..MaxId
    BY Zenon, <1>1, RowsTyped
  <2>5. Paged(p, Lasting(sel))
    <3>1. Len(<<>>) = 0 /\ \A n : n \notin 1..0
      OBVIOUS
    <3>2. \A n \in Lasting(sel) : ~(n <= 0)
      BY <2>4, QueriesAssumption
    <3> QED
      BY Zenon, <2>3, <3>1, <3>2 DEF Paged, Increasing
  <2>6. page' \in Lists /\ page'.sel = sel /\ Paged(page', Lasting(sel))
    BY Zenon, <1>1, <2>1, <2>2, <2>3, <2>5, PageRead
  <2>7. Paged(page, steady)' /\ steady' \subseteq Lasting(page.sel)'
    <3>1. Paged(page, steady)'
      BY Zenon, <2>1, <2>6 DEF Paged
    <3>2. Lasting(page.sel)' = Lasting(sel)
      BY Zenon, <1>2, <2>6 DEF Lasting
    <3> QED
      BY Zenon, <2>1, <3>1, <3>2
  <2> QED
    BY Zenon, <1>5, <2>1, <2>4, <2>6, <2>7
<1>7. CASE ContinueList
  <2>1. page # NoList /\ ~page.done /\ page' = ReadPage(page) /\ steady' = steady
    BY Zenon, <1>7 DEF ContinueList
  <2>2. PICK p \in Lists : p = page
    BY Zenon, <1>1, <2>1 DEF TypeOK
  <2>3. ReadPage(p) \in Lists /\ ReadPage(p).sel = p.sel /\ Paged(ReadPage(p), steady)
    BY Zenon, <1>1, <2>1, <2>2, PageRead
  <2>4. Paged(page, steady)' /\ steady' \subseteq Lasting(page.sel)'
    <3>1. Paged(page, steady)'
      BY Zenon, <2>1, <2>2, <2>3 DEF Paged
    <3>2. Lasting(page.sel)' = Lasting(page.sel)
      BY Zenon, <1>2, <2>1, <2>2, <2>3 DEF Lasting
    <3> QED
      BY Zenon, <1>1, <2>1, <3>1, <3>2
  <2> QED
    BY Zenon, <1>1, <1>5, <2>1, <2>2, <2>3, <2>4 DEF TypeOK
<1>8. CASE EndList
  <2>1. page' = NoList /\ steady' = {}
    BY Zenon, <1>8 DEF EndList
  <2> QED
    BY Zenon, <1>5, <2>1
<1> QED
  BY Zenon, <1>6, <1>7, <1>8

\* The two queries of the status, and its answer.
LEMMA StatusStep ==
    ASSUME ReadsInv, fetchImageCounts \/ fetchVulnerabilityReports \/ Answered
    PROVE  ReadsInv'
<1>1. /\ TypeOK /\ IdsApart /\ StatusExact
      /\ page # NoList => Paged(page, steady) /\ steady \subseteq Lasting(page.sel)
      /\ status.step = "counted" /\ status.calm => status.images = Cardinality(Stored)
  BY Zenon DEF ReadsInv
<1>2. UNCHANGED <<nextId, id, drawn, label, reports, page, steady>>
  BY Zenon DEF fetchImageCounts, fetchVulnerabilityReports, Answered, tableVars
<1>3. /\ IdsApart' /\ Stored' = Stored /\ Truth' = Truth
      /\ page' # NoList => Paged(page, steady)' /\ steady' \subseteq Lasting(page.sel)'
  BY Zenon, <1>1, <1>2 DEF IdsApart, Stored, Truth, Lasting, Paged
<1>4. Cardinality(Stored) \in 0..Cardinality(Images) /\ 0 \in 0..Cardinality(Images)
  <2>1. Stored \subseteq Images
    BY Zenon DEF Stored
  <2>2. /\ Cardinality(Stored) <= Cardinality(Images)
        /\ Cardinality(Stored) \in Nat /\ Cardinality(Images) \in Nat
    BY <2>1, QueriesAssumption, FS_Subset, FS_CardinalityType
  <2> QED
    BY <2>2
<1>5. PICK C : C = 0..Cardinality(Images)
  BY Zenon
<1>6. PICK r \in [step : {"idle", "counted", "read"}, images : C, claim : Claims,
                  truth : Claims, calm : BOOLEAN, orphans : BOOLEAN] : r = status
  BY Zenon, <1>1, <1>5 DEF TypeOK
<1>7. ASSUME status' \in [step : {"idle", "counted", "read"}, images : C, claim : Claims,
                          truth : Claims, calm : BOOLEAN, orphans : BOOLEAN],
             StatusExact',
             status'.step = "counted" => status'.images = Cardinality(Stored)
      PROVE  ReadsInv'
  <2>1. TypeOK'
    BY Zenon, <1>1, <1>2, <1>5, <1>7 DEF TypeOK
  <2> QED
    BY Zenon, <1>3, <1>7, <2>1 DEF ReadsInv
<1>8. Truth \in Claims /\ \A m, n : computeScanStatus(m, n) \in Claims
  BY Zenon DEF Truth, computeScanStatus, Claims
<1>9. CASE fetchImageCounts
  <2>1. status' = [r EXCEPT !.step = "counted", !.images = Cardinality(Stored),
                            !.calm = TRUE]
    BY Zenon, <1>6, <1>9 DEF fetchImageCounts
  <2>2. /\ status' \in [step : {"idle", "counted", "read"}, images : C, claim : Claims,
                        truth : Claims, calm : BOOLEAN, orphans : BOOLEAN]
        /\ status'.step = "counted" /\ status'.images = Cardinality(Stored)
    BY Zenon, <1>4, <1>5, <2>1
  <2> QED
    BY Zenon, <1>7, <2>2 DEF StatusExact
<1>10. CASE fetchVulnerabilityReports
  <2>1. PICK c \in Claims : c = computeScanStatus(status.images, Cardinality(reports))
    BY Zenon, <1>8
  <2>2. PICK t \in Claims : t = Truth
    BY Zenon, <1>8
  <2>3. PICK o \in BOOLEAN : o = ~(reports \subseteq Stored)
    BY Zenon
  <2>4. r.step = "counted" /\ status' = [r EXCEPT !.step = "read", !.claim = c, !.truth = t, !.orphans = o]
    BY Zenon, <1>6, <1>10, <2>1, <2>2, <2>3 DEF fetchVulnerabilityReports
  <2>5. /\ status' \in [step : {"idle", "counted", "read"}, images : C, claim : Claims,
                        truth : Claims, calm : BOOLEAN, orphans : BOOLEAN]
        /\ status'.step = "read" /\ status'.claim = c /\ status'.truth = t
        /\ status'.orphans = o /\ status'.calm = r.calm
    BY Zenon, <2>4
  <2>6. ASSUME r.calm, ~o
        PROVE  c = t
    <3>1. status.images = Cardinality(Stored) /\ reports \subseteq Stored
      BY Zenon, <1>1, <1>6, <2>3, <2>4, <2>6
    <3> QED
      BY Zenon, <1>1, <2>1, <2>2, <3>1, CountsTell
  <2> QED
    BY Zenon, <1>7, <2>5, <2>6 DEF StatusExact
<1>11. CASE Answered
  <2>1. status' = [r EXCEPT !.step = "idle", !.images = 0, !.claim = "", !.truth = "",
                            !.calm = TRUE, !.orphans = FALSE]
    BY Zenon, <1>6, <1>11 DEF Answered
  <2>2. /\ status' \in [step : {"idle", "counted", "read"}, images : C, claim : Claims,
                        truth : Claims, calm : BOOLEAN, orphans : BOOLEAN]
        /\ status'.step = "idle"
    BY Zenon, <1>4, <1>5, <2>1 DEF Claims
  <2> QED
    BY Zenon, <1>7, <2>2 DEF StatusExact
<1> QED
  BY Zenon, <1>9, <1>10, <1>11

\* Nothing is stored and nobody reads.
LEMMA ReadsInit == Init => ReadsInv
<1> SUFFICES ASSUME Init PROVE ReadsInv
  OBVIOUS
<1>1. /\ nextId = 1 /\ reports = {} /\ page = NoList /\ steady = {}
      /\ \A i \in Images : id[i] = 0 /\ drawn[i] = 0
      /\ status.step = "idle"
  BY Zenon DEF Init
<1>2. TypeOK
  <2>1. /\ nextId \in 1..MaxId + 1 /\ 0 \in 0..MaxId
    BY <1>1, QueriesAssumption
  <2>2. id \in [Images -> 0..MaxId] /\ drawn \in [Images -> 0..MaxId]
    BY Zenon, <2>1 DEF Init
  <2>3. label \in [Images -> Labels]
    BY Zenon DEF Init, Labels, Values
  <2>4. 0 \in 0..Cardinality(Images)
    BY QueriesAssumption, FS_CardinalityType
  <2>5. status \in [step : {"idle", "counted", "read"}, images : 0..Cardinality(Images),
                    claim : Claims, truth : Claims, calm : BOOLEAN, orphans : BOOLEAN]
    BY Zenon, <2>4 DEF Init, Claims
  <2> QED
    BY Zenon, <1>1, <2>1, <2>2, <2>3, <2>5 DEF TypeOK
<1>3. IdsApart
  <2>1. 0 < 1
    OBVIOUS
  <2> QED
    BY Zenon, <1>1, <2>1 DEF IdsApart
<1> QED
  BY Zenon, <1>1, <1>2, <1>3 DEF ReadsInv, StatusExact

-----------------------------------------------------------------------------
(* The theorems.                                                           *)

\* The inductive invariant: row ids are drawn once, a list under way has every
\* lasting row up to its continue token, and an undisturbed count is right.
THEOREM ReadsInvariant == Spec => []ReadsInv
<1>1. Init => ReadsInv
  BY ReadsInit
<1>2. ReadsInv /\ [Next]_vars => ReadsInv'
  <2> SUFFICES ASSUME ReadsInv, [Next]_vars PROVE ReadsInv'
    OBVIOUS
  <2>1. CASE StartList \/ ContinueList \/ EndList
    BY Zenon, <2>1, ListStep
  <2>2. CASE fetchImageCounts \/ fetchVulnerabilityReports \/ Answered
    BY Zenon, <2>2, StatusStep
  <2>3. ASSUME NEW i \in Images, Write(i) PROVE ReadsInv'
    BY Zenon, <2>3, WriteStep
  <2>4. CASE UNCHANGED vars
    <3>1. UNCHANGED <<nextId, id, drawn, label, reports, page, steady, status>>
      BY Zenon, <2>4 DEF vars, tableVars
    <3>2. TypeOK' /\ IdsApart' /\ StatusExact' /\ Stored' = Stored
      BY Zenon, <3>1 DEF ReadsInv, TypeOK, IdsApart, StatusExact, Stored
    <3>3. page' # NoList => Paged(page, steady)' /\ steady' \subseteq Lasting(page.sel)'
      BY Zenon, <3>1 DEF ReadsInv, Paged, Lasting
    <3> QED
      BY Zenon, <3>1, <3>2, <3>3 DEF ReadsInv
  <2> QED
    BY Zenon, <2>1, <2>2, <2>3, <2>4 DEF Next
<1> QED
  BY <1>1, <1>2, PTL DEF Spec

\* Every variable of the two reads keeps its type; a list has ids of rows only.
THEOREM QueriesTyped == Spec => []TypeOK
<1>1. ReadsInv => TypeOK
  BY Zenon DEF ReadsInv
<1> QED
  BY <1>1, ReadsInvariant, PTL

\* A list in pages (list.go) is complete and repeats nothing, for every number
\* of images and rows, whatever is written between two pages.
THEOREM ListsExact == Spec => []PagesExact
<1>1. ASSUME ReadsInv PROVE PagesExact
  <2> SUFFICES ASSUME page # NoList
               PROVE  /\ IsInjective(page.items)
                      /\ page.done => steady \subseteq Range(page.items)
    BY Zenon DEF PagesExact
  <2>1. page \in Lists /\ Paged(page, steady)
    BY Zenon, <1>1 DEF ReadsInv, TypeOK
  <2>2. PICK s \in Seq(1..MaxId) : s = page.items
    BY <2>1 DEF Lists
  <2>3. IsInjective(s)
    <3>1. \A m, n \in 1..Len(s) : m < n => s[m] < s[n]
      BY Zenon, <2>1, <2>2 DEF Paged, Increasing
    <3>2. DOMAIN s = 1..Len(s) /\ Len(s) \in Nat /\ \A n \in 1..Len(s) : s[n] \in Nat
      BY <2>2, QueriesAssumption
    <3>3. ASSUME NEW m \in 1..Len(s), NEW n \in 1..Len(s), s[m] = s[n] PROVE m = n
      <4>1. ~(m < n)
        BY <3>1, <3>2, <3>3
      <4>2. ~(n < m)
        BY <3>1, <3>2, <3>3
      <4> QED
        BY <3>2, <4>1, <4>2
    <3> QED
      BY Zenon, <3>2, <3>3 DEF IsInjective
  <2>4. page.done => steady \subseteq Range(page.items)
    BY Zenon, <2>1 DEF Paged
  <2> QED
    BY Zenon, <2>2, <2>3, <2>4
<1> QED
  BY <1>1, ReadsInvariant, PTL

\* The status of a container (computeScanStatus) agrees with the images and
\* their reports, for every number of images, when nothing was written between
\* the two queries and every report has its image.
THEOREM StatusAgrees == Spec => []StatusExact
<1>1. ReadsInv => StatusExact
  BY Zenon DEF ReadsInv
<1> QED
  BY <1>1, ReadsInvariant, PTL
=============================================================================
