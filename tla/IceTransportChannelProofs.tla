---------------------- MODULE IceTransportChannelProofs ----------------------
(***************************************************************************)
(* Proofs about IceTransportChannel for every set of connections, every    *)
(* priority, every interval and every bound.                               *)
(*                                                                         *)
(* First the two operations on the controller's list: the sort is a stable *)
(* sort (the comparison is a strict weak order, so counting what stands    *)
(* before an element numbers the list), and erase takes out exactly the    *)
(* connection.  Then the methods, innermost first: _update_state, the      *)
(* sort with its switch of the selected connection, the setters of a       *)
(* connection that signal it, destroy; each is shown to keep Good, what    *)
(* holds of the memory even inside a handler, and to end Accurate, with    *)
(* what it leaves alone (Carried, Quiet).  Then one lemma per handler.     *)
(***************************************************************************)
EXTENDS IceTransportChannel, FiniteSetTheorems, TLAPS

(* R puts the elements of S in a strict total order *)
StrictOrder(S, R) ==
    /\ \A i \in S : <<i, i>> \notin R
    /\ \A i, j \in S : i # j => <<i, j>> \in R \/ <<j, i>> \in R
    /\ \A i, j, k \in S : <<i, j>> \in R /\ <<j, k>> \in R => <<i, k>> \in R

Rank(S, R) == [j \in S |-> Cardinality(Below(S, R, j))]

(* In a strict order the number of smaller elements numbers the elements   *)
LEMMA RankBijective ==
  ASSUME NEW S, NEW R, IsFiniteSet(S), StrictOrder(S, R)
  PROVE  /\ Cardinality(S) \in Nat
         /\ \A j \in S : Cardinality(Below(S, R, j)) \in 0 .. Cardinality(S) - 1
         /\ \A i, j \in S : Cardinality(Below(S, R, i)) = Cardinality(Below(S, R, j)) => i = j
         /\ \A n \in 1 .. Cardinality(S) : \E j \in S : Cardinality(Below(S, R, j)) = n - 1
PROOF
  <1> DEFINE N == Cardinality(S)
             T == 0 .. N - 1
             f == Rank(S, R)
  <1>1. N \in Nat
    BY FS_CardinalityType
  <1>2. \A j \in S : IsFiniteSet(Below(S, R, j)) /\ Cardinality(Below(S, R, j)) \in Nat
    <2> TAKE j \in S
    <2>1. Below(S, R, j) \in SUBSET S
      BY DEF Below
    <2> QED
      BY <2>1, FS_Subset, FS_CardinalityType
  <1>3. \A j \in S : Cardinality(Below(S, R, j)) \in T
    <2> TAKE j \in S
    <2>1. Below(S, R, j) \in SUBSET S /\ j \notin Below(S, R, j)
      BY DEF Below, StrictOrder
    <2>2. /\ Cardinality(Below(S, R, j)) <= N
          /\ N = Cardinality(Below(S, R, j)) => S = Below(S, R, j)
      BY <2>1, FS_Subset
    <2>3. N # Cardinality(Below(S, R, j))
      BY <2>1, <2>2
    <2> QED
      BY <1>1, <1>2, <2>2, <2>3
  <1>4. \A i, j \in S : <<i, j>> \in R => Cardinality(Below(S, R, i)) # Cardinality(Below(S, R, j))
    <2> SUFFICES ASSUME NEW i \in S, NEW j \in S, <<i, j>> \in R
                 PROVE  Cardinality(Below(S, R, i)) # Cardinality(Below(S, R, j))
      OBVIOUS
    <2>1. Below(S, R, i) \in SUBSET Below(S, R, j)
      BY DEF Below, StrictOrder
    <2>2. i \in Below(S, R, j) /\ i \notin Below(S, R, i)
      BY DEF Below, StrictOrder
    <2>3. Cardinality(Below(S, R, j)) = Cardinality(Below(S, R, i)) =>
             Below(S, R, j) = Below(S, R, i)
      BY <1>2, <2>1, FS_Subset
    <2> QED
      BY <2>2, <2>3
  <1>5. \A i, j \in S : Cardinality(Below(S, R, i)) = Cardinality(Below(S, R, j)) => i = j
    BY <1>4 DEF StrictOrder
  <1>6. f \in [S -> T] /\ \A j \in S : f[j] = Cardinality(Below(S, R, j))
    BY <1>3 DEF Rank
  <1> HIDE DEF f
  <1>7. f \in Injection(S, T)
    BY <1>5, <1>6 DEF Injection, IsInjective
  <1>8. IsFiniteSet(T) /\ Cardinality(T) = N
    BY <1>1, FS_Interval
  <1> HIDE DEF T
  <1>9. f \in Surjection(S, T)
    BY <1>7, <1>8, FS_Injection
  <1>10. \A t \in T : \E j \in S : f[j] = t
    BY <1>9 DEF Surjection
  <1>11. \A n \in 1 .. N : n - 1 \in T
    BY <1>1 DEF T
  <1>12. \A n \in 1 .. N : \E j \in S : Cardinality(Below(S, R, j)) = n - 1
    BY <1>6, <1>10, <1>11
  <1> QED
    BY <1>1, <1>3, <1>5, <1>12 DEF T

(* So that Nth enumerates the set: it yields elements of S only, and each  *)
LEMMA NthEnumerates ==
  ASSUME NEW S, NEW R, IsFiniteSet(S), StrictOrder(S, R)
  PROVE  /\ Cardinality(S) \in Nat
         /\ \A n \in 1 .. Cardinality(S) : Nth(S, R, n) \in S
         /\ \A j \in S : \E n \in 1 .. Cardinality(S) : Nth(S, R, n) = j
         /\ \A k, n \in 1 .. Cardinality(S) : k < n => <<Nth(S, R, k), Nth(S, R, n)>> \in R
PROOF
  <1> DEFINE N == Cardinality(S)
  <1>1. \A n \in 1 .. N : /\ Nth(S, R, n) \in S
                          /\ Cardinality(Below(S, R, Nth(S, R, n))) = n - 1
    BY RankBijective DEF Nth
  <1>2. ASSUME NEW j \in S
        PROVE  \E n \in 1 .. N : Nth(S, R, n) = j
    <2> PICK r \in 0 .. N - 1 : r = Cardinality(Below(S, R, j))
      BY RankBijective
    <2>1. r + 1 \in 1 .. N /\ (r + 1) - 1 = r
      BY RankBijective
    <2>2. Nth(S, R, r + 1) \in S /\ Cardinality(Below(S, R, Nth(S, R, r + 1))) = r
      BY <1>1, <2>1
    <2>3. Nth(S, R, r + 1) = j
      BY <2>2, RankBijective
    <2> QED
      BY <2>1, <2>3
  <1>3. ASSUME NEW k \in 1 .. N, NEW n \in 1 .. N, k < n
        PROVE  <<Nth(S, R, k), Nth(S, R, n)>> \in R
    <2> PICK i \in S, j \in S : i = Nth(S, R, k) /\ j = Nth(S, R, n)
      BY <1>1
    <2>1. Cardinality(Below(S, R, i)) = k - 1 /\ Cardinality(Below(S, R, j)) = n - 1
      BY <1>1
    <2>2. i # j
      BY <1>3, <2>1, RankBijective
    <2>3. ASSUME <<j, i>> \in R
          PROVE  FALSE
      <3>1. Below(S, R, i) \in SUBSET S
        BY DEF Below
      <3>2. IsFiniteSet(Below(S, R, i))
        BY <3>1, FS_Subset
      <3>3. Below(S, R, j) \in SUBSET Below(S, R, i)
        BY <2>3 DEF Below, StrictOrder
      <3>4. Cardinality(Below(S, R, j)) <= Cardinality(Below(S, R, i))
        BY <3>2, <3>3, FS_Subset
      <3>5. k \in Int /\ n \in Int
        BY RankBijective
      <3> QED
        BY <1>3, <2>1, <3>4, <3>5
    <2> QED
      BY <2>2, <2>3 DEF StrictOrder
  <1> QED
    BY <1>1, <1>2, <1>3, RankBijective

(* The keys the comparison goes by, in the order of their weight *)
Lex(w1, r1, p1, t1, w2, r2, p2, t2) ==
    \/ w1 < w2
    \/ w1 = w2 /\ r1 < r2
    \/ w1 = w2 /\ r1 = r2 /\ p1 > p2
    \/ w1 = w2 /\ r1 = r2 /\ p1 = p2 /\ t1 < t2

RecvRank(k) == IF k.recv THEN 0 ELSE 1

(* The keys of the comparison are numbers *)
LEMMA RankTypes ==
  ASSUME NEW k \in Connection
  PROVE  WriteRank(k) \in Int /\ RecvRank(k) \in Int /\ k.rtt \in Int /\ k.recv \in BOOLEAN
BY DEF Connection, WriteRank, RecvRank

(* _compare_connections, then rtt, is the lexicographic order of the four keys *)
LEMMA BetterIsLex ==
  ASSUME NEW m, m.conn \in [Conns -> Connection], NEW a \in Conns, NEW b \in Conns
  PROVE  Better(m, a, b) <=>
           Lex(WriteRank(m.conn[a]), RecvRank(m.conn[a]), Priority[a], m.conn[a].rtt,
               WriteRank(m.conn[b]), RecvRank(m.conn[b]), Priority[b], m.conn[b].rtt)
PROOF
  <1>1. m.conn[a] \in Connection /\ m.conn[b] \in Connection
    OBVIOUS
  <1>2. /\ (m.conn[a].recv /\ ~m.conn[b].recv) <=> RecvRank(m.conn[a]) < RecvRank(m.conn[b])
        /\ (m.conn[a].recv = m.conn[b].recv) <=> RecvRank(m.conn[a]) = RecvRank(m.conn[b])
    <2>1. m.conn[a].recv \in BOOLEAN /\ m.conn[b].recv \in BOOLEAN
      BY <1>1, RankTypes
    <2> PICK x \in BOOLEAN, y \in BOOLEAN : x = m.conn[a].recv /\ y = m.conn[b].recv
      BY <2>1
    <2>2. /\ RecvRank(m.conn[a]) = IF x THEN 0 ELSE 1
          /\ RecvRank(m.conn[b]) = IF y THEN 0 ELSE 1
      BY DEF RecvRank
    <2>3. /\ (x /\ ~y) <=> RecvRank(m.conn[a]) < RecvRank(m.conn[b])
          /\ (x = y) <=> RecvRank(m.conn[a]) = RecvRank(m.conn[b])
      BY <2>2
    <2> QED
      BY <2>3
  <1> QED
    BY <1>2 DEF Better, Lex

(* Before of StableSort as a relation of its own *)
BeforeIn(m) ==
    {p \in (DOMAIN m.order) \X (DOMAIN m.order) :
        \/ Better(m, m.order[p[1]], m.order[p[2]])
        \/ p[1] < p[2] /\ ~Better(m, m.order[p[2]], m.order[p[1]])}

(* What the stable sort goes by is a strict total order of the positions *)
LEMMA BeforeIsOrder ==
  ASSUME NEW m, m.conn \in [Conns -> Connection], m.order \in Seq(Conns)
  PROVE  StrictOrder(DOMAIN m.order, BeforeIn(m))
PROOF
  <1> DEFINE D == DOMAIN m.order
             W(i) == WriteRank(m.conn[m.order[i]])
             V(i) == RecvRank(m.conn[m.order[i]])
             P(i) == Priority[m.order[i]]
             T(i) == m.conn[m.order[i]].rtt
             L(i, j) == Lex(W(i), V(i), P(i), T(i), W(j), V(j), P(j), T(j))
  <1>1. \A i \in D : i \in Int /\ m.order[i] \in Conns
    OBVIOUS
  <1>2. \A i \in D : W(i) \in Int /\ V(i) \in Int /\ P(i) \in Int /\ T(i) \in Int
    <2> TAKE i \in D
    <2>1. m.conn[m.order[i]] \in Connection
      BY <1>1
    <2> QED
      BY <1>1, <2>1, RankTypes, ConnsAssumption
  <1>3. \A i, j \in D : Better(m, m.order[i], m.order[j]) <=> L(i, j)
    BY <1>1, BetterIsLex
  <1>4. \A i, j \in D : <<i, j>> \in BeforeIn(m) <=> L(i, j) \/ (i < j /\ ~L(j, i))
    <2> TAKE i \in D, j \in D
    <2>1. <<i, j>> \in BeforeIn(m) <=>
             \/ Better(m, m.order[i], m.order[j])
             \/ i < j /\ ~Better(m, m.order[j], m.order[i])
      <3> DEFINE p == <<i, j>>
      <3>1. p \in (DOMAIN m.order) \X (DOMAIN m.order) /\ p[1] = i /\ p[2] = j
        OBVIOUS
      <3> HIDE DEF p
      <3>2. p \in BeforeIn(m) <=>
               \/ Better(m, m.order[p[1]], m.order[p[2]])
               \/ p[1] < p[2] /\ ~Better(m, m.order[p[2]], m.order[p[1]])
        BY <3>1 DEF BeforeIn
      <3> QED
        BY <3>1, <3>2 DEF p
    <2> QED
      BY <1>3, <2>1
  <1>5. \A i \in D : ~L(i, i)
    BY <1>2 DEF Lex
  <1>6. \A i, j \in D : i # j => \/ L(i, j) \/ (i < j /\ ~L(j, i))
                                \/ L(j, i) \/ (j < i /\ ~L(i, j))
    BY <1>1
  <1>7. ASSUME NEW i \in D, NEW j \in D, NEW k \in D,
               L(i, j) \/ (i < j /\ ~L(j, i)), L(j, k) \/ (j < k /\ ~L(k, j))
        PROVE  L(i, k) \/ (i < k /\ ~L(k, i))
    <2> PICK wi \in Int, wj \in Int, wk \in Int : wi = W(i) /\ wj = W(j) /\ wk = W(k)
      BY <1>2
    <2> PICK vi \in Int, vj \in Int, vk \in Int : vi = V(i) /\ vj = V(j) /\ vk = V(k)
      BY <1>2
    <2> PICK pi \in Int, pj \in Int, pk \in Int : pi = P(i) /\ pj = P(j) /\ pk = P(k)
      BY <1>2
    <2> PICK ti \in Int, tj \in Int, tk \in Int : ti = T(i) /\ tj = T(j) /\ tk = T(k)
      BY <1>2
    <2>1. /\ L(i, j) <=> Lex(wi, vi, pi, ti, wj, vj, pj, tj)
          /\ L(j, i) <=> Lex(wj, vj, pj, tj, wi, vi, pi, ti)
          /\ L(j, k) <=> Lex(wj, vj, pj, tj, wk, vk, pk, tk)
          /\ L(k, j) <=> Lex(wk, vk, pk, tk, wj, vj, pj, tj)
          /\ L(i, k) <=> Lex(wi, vi, pi, ti, wk, vk, pk, tk)
          /\ L(k, i) <=> Lex(wk, vk, pk, tk, wi, vi, pi, ti)
      OBVIOUS
    <2> HIDE DEF L, W, V, P, T
    <2> QED
      BY <1>1, <1>7, <2>1 DEF Lex
  <1> HIDE DEF L
  <1> QED
    BY <1>4, <1>5, <1>6, <1>7 DEF StrictOrder

(* The positions of a list are finitely many *)
LEMMA DomainFinite ==
  ASSUME NEW T, NEW s \in Seq(T)
  PROVE  /\ DOMAIN s = 1 .. Len(s) /\ Len(s) \in Nat
         /\ IsFiniteSet(DOMAIN s) /\ Cardinality(DOMAIN s) = Len(s)
PROOF
  <1>1. DOMAIN s = 1 .. Len(s) /\ Len(s) \in Nat
    OBVIOUS
  <1>2. IsFiniteSet(1 .. Len(s)) /\ Cardinality(1 .. Len(s)) = Len(s)
    BY <1>1, FS_Interval
  <1> QED
    BY <1>1, <1>2

(* No two connections are each better than the other *)
LEMMA BetterAsymmetric ==
  ASSUME NEW m, m.conn \in [Conns -> Connection], NEW a \in Conns, NEW b \in Conns
  PROVE  ~(Better(m, a, b) /\ Better(m, b, a))
PROOF
  <1>1. m.conn[a] \in Connection /\ m.conn[b] \in Connection
    OBVIOUS
  <1> PICK w1 \in Int, w2 \in Int : w1 = WriteRank(m.conn[a]) /\ w2 = WriteRank(m.conn[b])
    BY <1>1, RankTypes
  <1> PICK r1 \in Int, r2 \in Int : r1 = RecvRank(m.conn[a]) /\ r2 = RecvRank(m.conn[b])
    BY <1>1, RankTypes
  <1> PICK t1 \in Int, t2 \in Int : t1 = m.conn[a].rtt /\ t2 = m.conn[b].rtt
    BY <1>1, RankTypes
  <1> PICK p1 \in Int, p2 \in Int : p1 = Priority[a] /\ p2 = Priority[b]
    BY ConnsAssumption
  <1>2. /\ Better(m, a, b) <=> Lex(w1, r1, p1, t1, w2, r2, p2, t2)
        /\ Better(m, b, a) <=> Lex(w2, r2, p2, t2, w1, r1, p1, t1)
    BY BetterIsLex
  <1>3. ~(Lex(w1, r1, p1, t1, w2, r2, p2, t2) /\ Lex(w2, r2, p2, t2, w1, r1, p1, t1))
    BY DEF Lex
  <1> QED
    BY <1>2, <1>3

(* r is the list of m, rearranged by g so that nothing stands before a     *)
(* better one and equals keep their order                                  *)
StablySorted(m, r, g) ==
    LET D == DOMAIN m.order
    IN  /\ DOMAIN r = D
        /\ \A n \in D : r[n] = m.order[g[n]]
        /\ \A j \in D : \E n \in D : g[n] = j
        /\ \A k, n \in D : k < n =>
              /\ ~Better(m, r[n], r[k])
              /\ Better(m, r[k], r[n]) \/ g[k] < g[n]

(* absl::c_stable_sort with _compare_connections: the list is rearranged,  *)
(* nothing stands before a better one and equals keep their order, for     *)
(* every list and whatever the state of the connections: the comparison is *)
(* a strict weak order, as std::stable_sort requires                       *)
THEOREM StableSortCorrect ==
  ASSUME NEW m, m.conn \in [Conns -> Connection], m.order \in Seq(Conns)
  PROVE  \E g \in [DOMAIN m.order -> DOMAIN m.order] : StablySorted(m, StableSort(m), g)
PROOF
  <1> DEFINE D == DOMAIN m.order
             Q == BeforeIn(m)
             g == [n \in D |-> Nth(D, Q, n)]
             r == StableSort(m)
  <1>1. /\ D = 1 .. Len(m.order) /\ Len(m.order) \in Nat
        /\ IsFiniteSet(D) /\ Cardinality(D) = Len(m.order)
    BY DomainFinite
  <1>2. StrictOrder(D, Q)
    BY BeforeIsOrder
  <1>3. D = 1 .. Cardinality(D)
    BY <1>1
  <1>4. DOMAIN r = D /\ \A n \in D : r[n] = m.order[g[n]]
    BY DEF StableSort, BeforeIn
  <1>5. \A i, j \in D : <<i, j>> \in Q =>
             /\ ~Better(m, m.order[j], m.order[i])
             /\ Better(m, m.order[i], m.order[j]) \/ i < j
    <2> SUFFICES ASSUME NEW i \in D, NEW j \in D, <<i, j>> \in Q
                 PROVE  /\ ~Better(m, m.order[j], m.order[i])
                        /\ Better(m, m.order[i], m.order[j]) \/ i < j
      OBVIOUS
    <2> PICK a \in Conns, b \in Conns : a = m.order[i] /\ b = m.order[j]
      OBVIOUS
    <2>1. Better(m, a, b) \/ (i < j /\ ~Better(m, b, a))
      BY DEF BeforeIn
    <2>2. ~(Better(m, a, b) /\ Better(m, b, a))
      BY BetterAsymmetric
    <2> QED
      BY <2>1, <2>2
  <1>6. IsFiniteSet(D)
    BY <1>1
  <1> HIDE DEF D, Q, r
  <1>7. /\ \A n \in 1 .. Cardinality(D) : Nth(D, Q, n) \in D
        /\ \A j \in D : \E n \in 1 .. Cardinality(D) : Nth(D, Q, n) = j
        /\ \A k, n \in 1 .. Cardinality(D) : k < n => <<Nth(D, Q, k), Nth(D, Q, n)>> \in Q
    BY <1>2, <1>6, NthEnumerates
  <1>8. /\ \A n \in D : Nth(D, Q, n) \in D
        /\ \A j \in D : \E n \in D : Nth(D, Q, n) = j
        /\ \A k, n \in D : k < n => <<Nth(D, Q, k), Nth(D, Q, n)>> \in Q
    BY <1>3, <1>7, Zenon
  <1>9. /\ g \in [D -> D] /\ \A n \in D : g[n] \in D
        /\ \A j \in D : \E n \in D : g[n] = j
        /\ \A k, n \in D : k < n => <<g[k], g[n]>> \in Q
    BY <1>8
  <1> HIDE DEF g
  <1>10. \A k, n \in D : k < n =>
            /\ ~Better(m, r[n], r[k])
            /\ Better(m, r[k], r[n]) \/ g[k] < g[n]
    <2> SUFFICES ASSUME NEW k \in D, NEW n \in D, k < n
                 PROVE  /\ ~Better(m, r[n], r[k])
                        /\ Better(m, r[k], r[n]) \/ g[k] < g[n]
      OBVIOUS
    <2> PICK i \in D, j \in D : i = g[k] /\ j = g[n]
      BY <1>9
    <2>1. <<i, j>> \in Q /\ r[k] = m.order[i] /\ r[n] = m.order[j]
      BY <1>4, <1>9
    <2> QED
      BY <1>5, <2>1
  <1> QED
    BY <1>4, <1>9, <1>10 DEF D, r, StablySorted

(* In particular the sort neither drops nor invents a connection *)
LEMMA SortKeepsMembers ==
  ASSUME NEW m, m.conn \in [Conns -> Connection], m.order \in Seq(Conns)
  PROVE  StableSort(m) \in Seq(Conns) /\ Members(StableSort(m)) = Members(m.order)
PROOF
  <1> DEFINE s == m.order
             r == StableSort(m)
  <1>1. DOMAIN s = 1 .. Len(s) /\ Len(s) \in Nat
    BY DomainFinite
  <1>2. PICK g \in [DOMAIN s -> DOMAIN s] : StablySorted(m, r, g)
    BY StableSortCorrect
  <1>3. /\ DOMAIN r = DOMAIN s
        /\ \A n \in DOMAIN s : r[n] = s[g[n]] /\ g[n] \in DOMAIN s
        /\ \A j \in DOMAIN s : \E n \in DOMAIN s : g[n] = j
    BY <1>2 DEF StablySorted
  <1>4. StableSort(m) = [n \in DOMAIN s |-> r[n]]
    BY <1>3 DEF StableSort
  <1>5. \A n \in DOMAIN s : r[n] \in Conns
    BY <1>3
  <1> HIDE DEF r
  <1>6. [n \in DOMAIN s |-> r[n]] \in [1 .. Len(s) -> Conns]
    BY <1>1, <1>5
  <1>7. StableSort(m) \in Seq(Conns)
    BY <1>1, <1>4, <1>6
  <1>8. Members(r) = Members(s)
    <2>1. ASSUME NEW x \in Members(r)
          PROVE  x \in Members(s)
      BY <1>3 DEF Members
    <2>2. ASSUME NEW x \in Members(s)
          PROVE  x \in Members(r)
      <3>1. PICK j \in DOMAIN s : x = s[j]
        BY DEF Members
      <3>2. PICK n \in DOMAIN s : g[n] = j
        BY <1>3
      <3> QED
        BY <1>3, <3>1, <3>2 DEF Members
    <2> QED
      BY <2>1, <2>2
  <1> QED
    BY <1>7, <1>8 DEF r

(* erase leaves every other connection on the list, and only those *)
LEMMA EraseMembers ==
  ASSUME NEW s \in Seq(Conns), NEW c
  PROVE  Erase(s, c) \in Seq(Conns) /\ Members(Erase(s, c)) = Members(s) \ {c}
PROOF
  <1> DEFINE K == {i \in DOMAIN s : s[i] # c}
             B == {p \in K \X K : p[1] < p[2]}
             N == Cardinality(K)
             g(n) == Nth(K, B, n)
             r == [n \in 1 .. N |-> s[g(n)]]
  <1>1. Erase(s, c) = r
    BY DEF Erase
  <1>2. IsFiniteSet(DOMAIN s) /\ \A i \in DOMAIN s : i \in Int /\ s[i] \in Conns
    BY DomainFinite
  <1>3. IsFiniteSet(K)
    BY <1>2, FS_Subset
  <1>4. StrictOrder(K, B)
    <2>1. \A i, j \in K : <<i, j>> \in B <=> i < j
      OBVIOUS
    <2>2. \A i \in K : i \in Int
      BY <1>2
    <2> HIDE DEF K, B
    <2> QED
      BY <2>1, <2>2 DEF StrictOrder
  <1>5. /\ N \in Nat
        /\ \A n \in 1 .. N : g(n) \in K
        /\ \A j \in K : \E n \in 1 .. N : g(n) = j
    BY <1>3, <1>4, NthEnumerates
  <1> HIDE DEF g, N
  <1>6. DOMAIN r = 1 .. N /\ \A n \in 1 .. N : r[n] = s[g(n)] /\ s[g(n)] \in Conns
    BY <1>2, <1>5
  <1>7. r \in Seq(Conns)
    BY <1>5, <1>6
  <1> HIDE DEF r
  <1>8. Members(r) = Members(s) \ {c}
    <2>1. ASSUME NEW x \in Members(r)
          PROVE  x \in Members(s) \ {c}
      BY <1>5, <1>6 DEF Members
    <2>2. ASSUME NEW x \in Members(s) \ {c}
          PROVE  x \in Members(r)
      <3>1. PICK j \in DOMAIN s : x = s[j] /\ s[j] # c
        BY DEF Members
      <3>2. PICK n \in 1 .. N : g(n) = j
        BY <1>5, <3>1
      <3> QED
        BY <1>6, <3>1, <3>2 DEF Members
    <2> QED
      BY <2>1, <2>2
  <1> QED
    BY <1>1, <1>7, <1>8

-----------------------------------------------------------------------------
(* The inductive invariant *)

(* The connections on the list are alive, and had says that there was one *)
Listed(m) == \A c \in Members(m.order) : m.conn[c].life = "live" /\ m.had = TRUE

SelectedListed(m) ==
    m.selected # NoConn => m.selected \in Members(m.order) /\ m.chosen = m.selected

(* No password and no answered ping before the peer's parameters *)
RemoteKnown(m) ==
    \A c \in Conns : m.conn[c].pwd = TRUE \/ m.conn[c].ws = "writable" => m.remote = TRUE

(* What holds of the memory inside the handlers too *)
Good(m) ==
    /\ m \in Memory
    /\ Listed(m) /\ SelectedListed(m) /\ RemoteKnown(m)
    /\ m.stale = FALSE
    /\ m.writable = TRUE => m.been = TRUE

Accurate(m) ==
    /\ m.writable = ChannelWritable(m)
    /\ m.receiving = ChannelReceiving(m)
    /\ m.state = ChannelState(m)

NoneFreed(m) == \A c \in Conns : m.conn[c].life # "freed"

(* What the reported state is computed from *)
SameView(m, r) ==
    /\ Members(r.order) = Members(m.order)
    /\ \A c \in Conns : r.conn[c].ws = m.conn[c].ws /\ r.conn[c].recv = m.conn[c].recv
    /\ r.selected = m.selected /\ r.had = m.had /\ r.been = m.been /\ r.writable = m.writable

(* A list of connections has connections only *)
LEMMA MembersTyped ==
  ASSUME NEW s \in Seq(Conns)
  PROVE  Members(s) \in SUBSET Conns
BY DEF Members

(* The state of the channel is a function of the view *)
LEMMA ViewDecides ==
  ASSUME NEW m \in Memory, NEW r, SameView(m, r)
  PROVE  /\ ChannelWritable(r) = ChannelWritable(m)
         /\ ChannelReceiving(r) = ChannelReceiving(m)
         /\ ChannelState(r) = ChannelState(m)
PROOF
  <1>1. Members(m.order) \in SUBSET Conns /\ m.selected \in Conns \cup {NoConn}
    <2>1. m.order \in Seq(Conns) /\ m.selected \in Conns \cup {NoConn}
      BY DEF Memory
    <2> QED
      BY <2>1, MembersTyped
  <1>2. ChannelWritable(r) = ChannelWritable(m)
    BY <1>1 DEF SameView, ChannelWritable, Writable
  <1>3. ChannelReceiving(r) = ChannelReceiving(m)
    <2>1. \A c \in Members(m.order) : r.conn[c].recv = m.conn[c].recv
      BY <1>1 DEF SameView
    <2>2. Members(r.order) = Members(m.order)
      BY DEF SameView
    <2> QED
      BY <2>1, <2>2, Zenon DEF ChannelReceiving
  <1>4. ChannelState(r) = ChannelState(m)
    <2>1. \A c \in Members(m.order) : r.conn[c].ws = m.conn[c].ws
      BY <1>1 DEF SameView
    <2>2. (\E c \in Members(r.order) : r.conn[c].ws # "timeout") <=>
             \E c \in Members(m.order) : m.conn[c].ws # "timeout"
      BY <2>1 DEF SameView
    <2> QED
      BY <2>2 DEF ChannelState, SameView
  <1> QED
    BY <1>2, <1>3, <1>4

(* A change the view does not show leaves the report accurate *)
LEMMA ViewKeepsAccuracy ==
  ASSUME NEW m \in Memory, NEW r, SameView(m, r), r.receiving = m.receiving, r.state = m.state,
         Accurate(m)
  PROVE  Accurate(r)
PROOF
  <1>1. r.writable = m.writable
    BY DEF SameView
  <1> QED
    BY <1>1, ViewDecides DEF Accurate

(* The parts of the memory that _update_state leaves alone *)
LEMMA UpdateStateEffect ==
  ASSUME NEW m \in Memory
  PROVE  LET u == UpdateState(m)
         IN  /\ u \in Memory
             /\ u.conn = m.conn /\ u.order = m.order /\ u.selected = m.selected
             /\ u.chosen = m.chosen /\ u.had = m.had /\ u.remote = m.remote
             /\ u.stale = m.stale
             /\ m.been = TRUE => u.been = TRUE
             /\ u.writable = TRUE => u.been = TRUE
             /\ Accurate(u)
PROOF
  <1> DEFINE w == ChannelWritable(m)
             v == ChannelReceiving(m)
             b == m.been \/ w
             m1 == [m EXCEPT !.writable = w, !.been = b, !.receiving = v]
             q == ChannelState(m1)
             u == [m1 EXCEPT !.state = q]
  <1>1. UpdateState(m) = u
    BY DEF UpdateState
  <1>2. w \in BOOLEAN /\ v \in BOOLEAN
    BY DEF ChannelWritable, ChannelReceiving
  <1>3. q \in {"new", "checking", "connected", "disconnected", "failed"}
    BY DEF ChannelState
  <1>4. b \in BOOLEAN
    OBVIOUS
  <1>5. ChannelWritable(m1) = w /\ ChannelReceiving(m1) = v
    BY DEF ChannelWritable, ChannelReceiving, Writable, Memory
  <1> HIDE DEF w, v, q, b
  <1>6. /\ m1 \in Memory
        /\ m1.conn = m.conn /\ m1.order = m.order /\ m1.selected = m.selected
        /\ m1.chosen = m.chosen /\ m1.had = m.had /\ m1.remote = m.remote
        /\ m1.stale = m.stale
        /\ m1.writable = w /\ m1.receiving = v /\ m1.been = b
    BY <1>2, <1>4 DEF Memory
  <1> HIDE DEF m1
  <1>7. /\ u \in Memory
        /\ u.conn = m1.conn /\ u.order = m1.order /\ u.selected = m1.selected
        /\ u.chosen = m1.chosen /\ u.had = m1.had /\ u.remote = m1.remote
        /\ u.stale = m1.stale /\ u.been = m1.been
        /\ u.writable = m1.writable /\ u.receiving = m1.receiving
        /\ u.state = q
    BY <1>3, <1>6 DEF Memory
  <1> HIDE DEF u
  <1>8. SameView(m1, u)
    BY <1>7 DEF SameView
  <1>9. Accurate(u)
    <2>1. /\ ChannelWritable(u) = ChannelWritable(m1)
          /\ ChannelReceiving(u) = ChannelReceiving(m1)
          /\ ChannelState(u) = q
      BY <1>6, <1>8, ViewDecides DEF q
    <2> QED
      BY <1>5, <1>6, <1>7, <2>1 DEF Accurate
  <1>10. (m.been = TRUE => u.been = TRUE) /\ (u.writable = TRUE => u.been = TRUE)
    <2>1. m.been \in BOOLEAN
      BY DEF Memory
    <2> QED
      BY <1>2, <1>6, <1>7, <2>1 DEF b
  <1> QED
    BY <1>1, <1>6, <1>7, <1>9, <1>10

(* Starting the ping timer changes nothing the report is about *)
LEMMA MaybeStartPingingEffect ==
  ASSUME NEW m \in Memory
  PROVE  LET u == MaybeStartPinging(m)
         IN  /\ u \in Memory
             /\ u.conn = m.conn /\ u.order = m.order /\ u.selected = m.selected
             /\ u.chosen = m.chosen /\ u.had = m.had /\ u.remote = m.remote
             /\ u.stale = m.stale /\ u.been = m.been /\ u.writable = m.writable
             /\ Accurate(m) => Accurate(u)
PROOF
  <1> DEFINE u == [m EXCEPT !.pinging = TRUE, !.due = m.interval]
  <1>1. MaybeStartPinging(m) \in {m, u}
    BY DEF MaybeStartPinging
  <1>2. m.interval \in 0 .. STRONG_PING_INTERVAL
    BY IntervalAssumption DEF Memory
  <1>3. /\ u \in Memory
        /\ u.conn = m.conn /\ u.order = m.order /\ u.selected = m.selected
        /\ u.chosen = m.chosen /\ u.had = m.had /\ u.remote = m.remote
        /\ u.stale = m.stale /\ u.been = m.been /\ u.writable = m.writable
        /\ u.receiving = m.receiving /\ u.state = m.state
    BY <1>2 DEF Memory
  <1> HIDE DEF u
  <1>4. SameView(m, u)
    BY <1>3 DEF SameView
  <1>5. Accurate(m) => Accurate(u)
    BY <1>3, <1>4, ViewKeepsAccuracy
  <1> QED
    BY <1>1, <1>3, <1>5

(* The best connection, if there is one, is on the list *)
LEMMA TopListed ==
  ASSUME NEW m, m.order \in Seq(Conns)
  PROVE  Top(m) = NoConn \/ Top(m) \in Members(m.order)
PROOF
  <1>1. CASE m.order = <<>>
    BY <1>1 DEF Top
  <1>2. CASE m.order # <<>>
    <2>1. 1 \in DOMAIN m.order
      BY <1>2
    <2> QED
      BY <1>2, <2>1 DEF Top, Members
  <1> QED
    BY <1>1, <1>2

(* A sort that does not find a deleted connection in the controller's      *)
(* pointer keeps everything right and leaves the connections as they are   *)
LEMMA SortEffect ==
  ASSUME NEW m, Good(m), m.chosen # NoConn => m.conn[m.chosen].life # "freed"
  PROVE  LET r == SortConnectionsAndUpdateState(m)
         IN  /\ Good(r) /\ Accurate(r)
             /\ r.conn = m.conn /\ r.had = m.had /\ r.remote = m.remote
             /\ Members(r.order) = Members(m.order)
             /\ m.been = TRUE => r.been = TRUE
PROOF
  <1> DEFINE o == StableSort(m)
             m1 == [m EXCEPT !.order = o]
             st == m1.stale \/ (ReadsChosen(m1) /\ m1.conn[m1.chosen].life = "freed")
             m2 == [m1 EXCEPT !.stale = st]
             c == ConnToSwitchTo(m2)
             m3 == IF c = NoConn THEN m2 ELSE SwitchSelectedConnection(m2, c)
             u == UpdateState(m3)
             r == MaybeStartPinging(u)
  <1>1. SortConnectionsAndUpdateState(m) = r
    BY DEF SortConnectionsAndUpdateState
  <1>2. m \in Memory
    BY DEF Good
  <1>3. o \in Seq(Conns) /\ Members(o) = Members(m.order)
    <2>1. m.conn \in [Conns -> Connection] /\ m.order \in Seq(Conns)
      BY <1>2 DEF Memory
    <2> QED
      BY <2>1, SortKeepsMembers
  <1> HIDE DEF o
  <1>4. /\ m1 \in Memory
        /\ m1.conn = m.conn /\ m1.order = o /\ m1.selected = m.selected
        /\ m1.chosen = m.chosen /\ m1.had = m.had /\ m1.remote = m.remote
        /\ m1.stale = m.stale /\ m1.been = m.been /\ m1.writable = m.writable
    BY <1>2, <1>3 DEF Memory
  <1> HIDE DEF m1
  <1>5. st = FALSE
    BY <1>4 DEF ReadsChosen, Good
  <1> HIDE DEF st
  <1>6. /\ m2 \in Memory
        /\ m2.conn = m.conn /\ m2.order = o /\ m2.selected = m.selected
        /\ m2.chosen = m.chosen /\ m2.had = m.had /\ m2.remote = m.remote
        /\ m2.stale = FALSE /\ m2.been = m.been
    BY <1>4, <1>5 DEF Memory
  <1> HIDE DEF m2
  <1>7. c = NoConn \/ c \in Members(o)
    BY <1>3, <1>6, TopListed DEF ConnToSwitchTo
  <1>8. c = NoConn \/ c \in Conns
    BY <1>3, <1>7, MembersTyped
  <1> HIDE DEF c
  <1>9. /\ m3 \in Memory
        /\ m3.conn = m.conn /\ m3.order = o
        /\ m3.had = m.had /\ m3.remote = m.remote
        /\ m3.stale = FALSE /\ m3.been = m.been
        /\ \/ m3.selected = m.selected /\ m3.chosen = m.chosen
           \/ m3.selected \in Members(o) /\ m3.chosen = m3.selected
    <2>1. CASE c = NoConn
      BY <1>6, <2>1
    <2>2. CASE c # NoConn
      <3>1. m3 = [m2 EXCEPT !.selected = c, !.chosen = c]
        BY <1>6, <2>2 DEF SwitchSelectedConnection, Memory
      <3> QED
        BY <1>6, <1>7, <1>8, <2>2, <3>1 DEF Memory
    <2> QED
      BY <2>1, <2>2
  <1> HIDE DEF m3
  <1>10. /\ u \in Memory
         /\ u.conn = m.conn /\ u.order = o /\ u.selected = m3.selected
         /\ u.chosen = m3.chosen /\ u.had = m.had /\ u.remote = m.remote
         /\ u.stale = FALSE
         /\ m.been = TRUE => u.been = TRUE
         /\ u.writable = TRUE => u.been = TRUE
         /\ Accurate(u)
    BY <1>9, UpdateStateEffect
  <1> HIDE DEF u
  <1>11. /\ r \in Memory
         /\ r.conn = m.conn /\ r.order = o /\ r.selected = m3.selected
         /\ r.chosen = m3.chosen /\ r.had = m.had /\ r.remote = m.remote
         /\ r.stale = FALSE
         /\ m.been = TRUE => r.been = TRUE
         /\ r.writable = TRUE => r.been = TRUE
         /\ Accurate(r)
    BY <1>10, MaybeStartPingingEffect
  <1> HIDE DEF r
  <1>12. Listed(r)
    BY <1>3, <1>11 DEF Listed, Good
  <1>13. SelectedListed(r)
    BY <1>3, <1>9, <1>11 DEF SelectedListed, Good
  <1>14. RemoteKnown(r)
    BY <1>11 DEF RemoteKnown, Good
  <1> QED
    BY <1>1, <1>3, <1>11, <1>12, <1>13, <1>14 DEF Good

(* What a chain of methods leaves of the memory *)
Carried(m, r) ==
    /\ \A d \in Conns : r.conn[d].life = m.conn[d].life
    /\ r.had = m.had /\ r.remote = m.remote
    /\ m.been = TRUE => r.been = TRUE

(* Methods called one after the other carry the memory on *)
LEMMA CarriedTransitive ==
  ASSUME NEW m, NEW r, NEW q, Carried(m, r), Carried(r, q)
  PROVE  Carried(m, q)
BY DEF Carried

(* A chain of methods that carries the memory on deletes nothing *)
LEMMA CarriedNoneFreed ==
  ASSUME NEW m, NEW r, Carried(m, r), NoneFreed(m)
  PROVE  NoneFreed(r)
BY DEF Carried, NoneFreed

(* Where nothing is deleted, the controller's pointer is not dangling *)
LEMMA ChosenNotFreed ==
  ASSUME NEW m \in Memory, NoneFreed(m)
  PROVE  m.chosen # NoConn => m.conn[m.chosen].life # "freed"
PROOF
  <1>1. m.chosen \in Conns \cup {NoConn}
    BY DEF Memory
  <1> QED
    BY <1>1 DEF NoneFreed

(* A connection that keeps its life and password can be overwritten *)
LEMMA ConnectionWritten ==
  ASSUME NEW m, Good(m), NEW c \in Conns, NEW k \in Connection,
         k.life = m.conn[c].life, k.pwd = m.conn[c].pwd,
         k.ws = "writable" => m.remote = TRUE,
         NEW r, r = [m EXCEPT !.conn[c] = k]
  PROVE  /\ Good(r) /\ Carried(m, r)
         /\ k.ws = m.conn[c].ws /\ k.recv = m.conn[c].recv =>
               SameView(m, r) /\ (Accurate(m) => Accurate(r))
PROOF
  <1>1. m \in Memory /\ m.conn \in [Conns -> Connection]
    BY DEF Good, Memory
  <1>2. /\ r \in Memory
        /\ r.order = m.order /\ r.selected = m.selected
        /\ r.chosen = m.chosen /\ r.had = m.had /\ r.remote = m.remote
        /\ r.stale = m.stale /\ r.been = m.been /\ r.writable = m.writable
        /\ r.receiving = m.receiving /\ r.state = m.state
        /\ r.conn = [m.conn EXCEPT ![c] = k]
    BY <1>1 DEF Memory
  <1>3. r.conn[c] = k /\ \A d \in Conns : d # c => r.conn[d] = m.conn[d]
    BY <1>1, <1>2
  <1>4. \A d \in Conns : r.conn[d].life = m.conn[d].life /\ r.conn[d].pwd = m.conn[d].pwd
    BY <1>3
  <1>5. Listed(r)
    <2>1. Members(m.order) \in SUBSET Conns
      BY <1>1, MembersTyped DEF Memory
    <2> QED
      BY <1>2, <1>4, <2>1 DEF Listed, Good
  <1>6. SelectedListed(r)
    BY <1>2 DEF SelectedListed, Good
  <1>7. RemoteKnown(r)
    BY <1>2, <1>3, <1>4 DEF RemoteKnown, Good
  <1>8. Good(r)
    BY <1>2, <1>5, <1>6, <1>7 DEF Good
  <1>9. Carried(m, r)
    BY <1>2, <1>4 DEF Carried
  <1>10. k.ws = m.conn[c].ws /\ k.recv = m.conn[c].recv => SameView(m, r)
    BY <1>2, <1>3 DEF SameView
  <1> QED
    BY <1>1, <1>2, <1>8, <1>9, <1>10, ViewKeepsAccuracy

(* A change of receiving, with the sort its signal leads to *)
LEMMA SetReceivingKeeps ==
  ASSUME NEW m, Good(m), Accurate(m), NoneFreed(m), NEW c \in Conns, NEW b \in BOOLEAN
  PROVE  LET r == SetReceiving(m, c, b)
         IN  /\ Good(r) /\ Accurate(r) /\ Carried(m, r)
             /\ \A d \in Conns : r.conn[d].ws = m.conn[d].ws /\ r.conn[d].out = m.conn[d].out
PROOF
  <1> DEFINE r == SetReceiving(m, c, b)
  <1>1. CASE m.conn[c].recv = b
    BY <1>1 DEF SetReceiving, Carried
  <1>2. CASE m.conn[c].recv # b
    <2> DEFINE k == [m.conn[c] EXCEPT !.recv = b]
               q == [m EXCEPT !.conn[c] = k]
    <2>1. m \in Memory /\ m.conn \in [Conns -> Connection] /\ m.conn[c] \in Connection
      BY DEF Good, Memory
    <2>2. r = SortConnectionsAndUpdateState(q)
      BY <1>2 DEF SetReceiving
    <2>3. /\ k \in Connection /\ k.life = m.conn[c].life /\ k.pwd = m.conn[c].pwd
          /\ k.ws = m.conn[c].ws /\ k.out = m.conn[c].out
      BY <2>1 DEF Connection
    <2> HIDE DEF k
    <2>4. k.ws = "writable" => m.remote = TRUE
      BY <2>3 DEF Good, RemoteKnown
    <2>5. \A d \in Conns : q.conn[d].ws = m.conn[d].ws /\ q.conn[d].out = m.conn[d].out
      BY <2>1, <2>3 DEF Memory
    <2>6. Good(q) /\ Carried(m, q)
      BY <2>3, <2>4, ConnectionWritten
    <2> HIDE DEF q
    <2>7. q \in Memory /\ NoneFreed(q)
      BY <2>6, CarriedNoneFreed DEF Good
    <2>8. q.chosen # NoConn => q.conn[q.chosen].life # "freed"
      BY <2>7, ChosenNotFreed
    <2> HIDE DEF r
    <2>9. /\ Good(r) /\ Accurate(r)
          /\ r.conn = q.conn /\ r.had = q.had /\ r.remote = q.remote
          /\ q.been = TRUE => r.been = TRUE
      BY <2>2, <2>6, <2>8, SortEffect
    <2>10. Carried(m, r)
      BY <2>6, <2>9 DEF Carried
    <2>11. \A d \in Conns : r.conn[d].ws = m.conn[d].ws /\ r.conn[d].out = m.conn[d].out
      BY <2>5, <2>9
    <2> QED
      BY <2>9, <2>10, <2>11 DEF r
  <1> QED
    BY <1>1, <1>2

(* IceConnection::update_receiving *)
LEMMA UpdateReceivingKeeps ==
  ASSUME NEW m, Good(m), Accurate(m), NoneFreed(m), NEW c \in Conns
  PROVE  LET r == UpdateReceiving(m, c)
         IN  Good(r) /\ Accurate(r) /\ Carried(m, r)
PROOF
  <1> DEFINE b == m.conn[c].answered \/ m.conn[c].resp < WEAK_CONNECTION_RECEIVE_TIMEOUT
  <1>1. b \in BOOLEAN
    OBVIOUS
  <1>2. UpdateReceiving(m, c) = SetReceiving(m, c, b)
    BY DEF UpdateReceiving
  <1> HIDE DEF b
  <1> QED
    BY <1>1, <1>2, SetReceivingKeeps

(* A change of the write state, with the sort its signal leads to *)
LEMMA SetWriteStateKeeps ==
  ASSUME NEW m, Good(m), Accurate(m), NoneFreed(m), NEW c \in Conns, NEW w \in WriteState,
         w = "writable" => m.remote = TRUE
  PROVE  LET r == SetWriteState(m, c, w)
         IN  Good(r) /\ Accurate(r) /\ Carried(m, r)
PROOF
  <1> DEFINE r == SetWriteState(m, c, w)
  <1>1. CASE m.conn[c].ws = w
    BY <1>1 DEF SetWriteState, Carried
  <1>2. CASE m.conn[c].ws # w
    <2> DEFINE k == [m.conn[c] EXCEPT !.ws = w]
               q == [m EXCEPT !.conn[c] = k]
    <2>1. m \in Memory /\ m.conn \in [Conns -> Connection] /\ m.conn[c] \in Connection
      BY DEF Good, Memory
    <2>2. r = SortConnectionsAndUpdateState(q)
      BY <1>2 DEF SetWriteState
    <2>3. /\ k \in Connection /\ k.life = m.conn[c].life /\ k.pwd = m.conn[c].pwd
          /\ k.ws = w
      BY <2>1 DEF Connection
    <2> HIDE DEF k
    <2>4. Good(q) /\ Carried(m, q)
      BY <2>3, ConnectionWritten
    <2> HIDE DEF q
    <2>5. q \in Memory /\ NoneFreed(q)
      BY <2>4, CarriedNoneFreed DEF Good
    <2>6. q.chosen # NoConn => q.conn[q.chosen].life # "freed"
      BY <2>5, ChosenNotFreed
    <2> HIDE DEF r
    <2>7. /\ Good(r) /\ Accurate(r)
          /\ r.conn = q.conn /\ r.had = q.had /\ r.remote = q.remote
          /\ q.been = TRUE => r.been = TRUE
      BY <2>2, <2>4, <2>6, SortEffect
    <2>8. Carried(m, r)
      BY <2>4, <2>7 DEF Carried
    <2> QED
      BY <2>7, <2>8 DEF r
  <1> QED
    BY <1>1, <1>2

(* IceConnection::update_state *)
LEMMA UpdateConnectionKeeps ==
  ASSUME NEW m, Good(m), Accurate(m), NoneFreed(m), NEW c \in Conns
  PROVE  LET r == UpdateConnection(m, c)
         IN  Good(r) /\ Accurate(r) /\ Carried(m, r)
PROOF
  <1> DEFINE k == m.conn[c]
             m1 == IF /\ k.ws = "writable"
                      /\ TooManyPingFails(k)
                      /\ TooLongWithoutResponse(k, CONNECTION_WRITE_CONNECT_TIMEOUT)
                   THEN SetWriteState(m, c, "unreliable") ELSE m
             m2 == IF /\ m1.conn[c].ws \in {"unreliable", "init"}
                      /\ TooLongWithoutResponse(m1.conn[c], CONNECTION_WRITE_TIMEOUT)
                   THEN SetWriteState(m1, c, "timeout") ELSE m1
             r == UpdateReceiving(m2, c)
  <1>1. UpdateConnection(m, c) = r
    BY DEF UpdateConnection
  <1>2. Carried(m, m) /\ "unreliable" \in WriteState /\ "timeout" \in WriteState
    BY DEF Carried, WriteState
  <1>3. m1 \in {m, SetWriteState(m, c, "unreliable")}
    OBVIOUS
  <1>4. m2 \in {m1, SetWriteState(m1, c, "timeout")}
    OBVIOUS
  <1> HIDE DEF m1, m2
  <1>5. Good(m1) /\ Accurate(m1) /\ Carried(m, m1)
    BY <1>2, <1>3, SetWriteStateKeeps
  <1>6. NoneFreed(m1) /\ Carried(m1, m1)
    BY <1>5, CarriedNoneFreed DEF Carried
  <1>7. Good(m2) /\ Accurate(m2) /\ Carried(m1, m2)
    BY <1>2, <1>4, <1>5, <1>6, SetWriteStateKeeps
  <1>8. NoneFreed(m2)
    BY <1>6, <1>7, CarriedNoneFreed
  <1>9. Good(r) /\ Accurate(r) /\ Carried(m2, r)
    BY <1>7, <1>8, UpdateReceivingKeeps
  <1> HIDE DEF r
  <1> QED
    BY <1>1, <1>5, <1>7, <1>9, CarriedTransitive

(* A counter that is increased stays below its cap *)
LEMMA LeastTyped ==
  ASSUME NEW cap \in Nat, NEW a \in 0 .. cap
  PROVE  Least(a + 1, cap) \in 0 .. cap
BY DEF Least

(* Ages stay below their cap *)
LEMMA OlderTyped ==
  ASSUME NEW cap \in Nat, NEW a \in 0 .. cap
  PROVE  Older(a, cap) \in 0 .. cap
BY LeastTyped DEF Older

(* The moving average of round-trip times is a natural number *)
LEMMA AverageTyped ==
  ASSUME NEW old \in Nat, NEW new \in Nat
  PROVE  MovingAverage(old, new) \in Nat
PROOF
  <1> PICK p \in Nat : p = RTT_RATIO * old
    BY RttAssumption
  <1> PICK n \in Nat : n = p + new
    OBVIOUS
  <1> PICK d \in Nat \ {0} : d = RTT_RATIO + 1
    BY RttAssumption
  <1>1. n \div d \in Nat
    OBVIOUS
  <1> QED
    BY <1>1 DEF MovingAverage

(* IceConnection::received_ping_response *)
LEMMA PingResponseKeeps ==
  ASSUME NEW m, Good(m), Accurate(m), NoneFreed(m), NEW c \in Conns,
         NEW rtt \in Nat, NEW later \in BOOLEAN, m.remote = TRUE
  PROVE  LET r == ReceivedPingResponse(m, c, rtt, later)
         IN  Good(r) /\ Accurate(r) /\ Carried(m, r)
PROOF
  <1> DEFINE k == m.conn[c]
             t == IF k.samples > 0 THEN MovingAverage(k.rtt, rtt) ELSE rtt
             n == Least(k.samples + 1, RTT_RATIO + 2)
             k1 == [k EXCEPT !.rtt = t, !.samples = n, !.resp = 0, !.answered = later, !.out = <<>>]
             q == [m EXCEPT !.conn[c] = k1]
             u == UpdateReceiving(q, c)
             r == SetWriteState(u, c, "writable")
  <1>1. ReceivedPingResponse(m, c, rtt, later) = r
    BY DEF ReceivedPingResponse
  <1>2. k \in Connection
    BY DEF Good, Memory
  <1>3. t \in Nat
    <2>1. k.rtt \in Nat
      BY <1>2 DEF Connection
    <2> QED
      BY <2>1, AverageTyped
  <1>4. n \in 0 .. RTT_RATIO + 2
    <2>1. k.samples \in 0 .. RTT_RATIO + 2
      BY <1>2 DEF Connection
    <2>2. RTT_RATIO + 2 \in Nat
      BY RttAssumption
    <2> QED
      BY <2>1, <2>2, LeastTyped
  <1>5. 0 \in 0 .. WEAK_CONNECTION_RECEIVE_TIMEOUT /\ <<>> \in Seq(Age)
    BY IntervalAssumption
  <1> HIDE DEF t, n, k
  <1>6. /\ k1 \in Connection /\ k1.life = k.life /\ k1.pwd = k.pwd
        /\ k1.ws = k.ws /\ k1.recv = k.recv
    BY <1>2, <1>3, <1>4, <1>5 DEF Connection
  <1> HIDE DEF k1
  <1>7. Good(q) /\ Carried(m, q) /\ Accurate(q)
    BY <1>6, ConnectionWritten DEF k
  <1> HIDE DEF q
  <1>8. NoneFreed(q)
    BY <1>7, CarriedNoneFreed
  <1>9. Good(u) /\ Accurate(u) /\ Carried(q, u)
    BY <1>7, <1>8, UpdateReceivingKeeps
  <1> HIDE DEF u
  <1>10. NoneFreed(u) /\ u.remote = TRUE
    BY <1>7, <1>8, <1>9, CarriedNoneFreed DEF Carried
  <1>11. Good(r) /\ Accurate(r) /\ Carried(u, r)
    BY <1>9, <1>10, SetWriteStateKeeps DEF WriteState
  <1> HIDE DEF r
  <1> QED
    BY <1>1, <1>7, <1>9, <1>11, CarriedTransitive

(* IceConnection::destroy: c is off the list before it is deleted *)
LEMMA DestroyKeeps ==
  ASSUME NEW m, Good(m), NEW c \in Conns
  PROVE  LET r == DestroyConnection(m, c)
         IN  /\ Good(r) /\ Accurate(r)
             /\ r.conn = [m.conn EXCEPT ![c] = [m.conn[c] EXCEPT !.life = "freed"]]
             /\ r.had = m.had /\ r.remote = m.remote
             /\ m.been = TRUE => r.been = TRUE
PROOF
  <1> DEFINE o == Erase(m.order, c)
             m1 == [m EXCEPT !.pinged = @ \ {c}, !.unpinged = @ \ {c}, !.order = o]
             s1 == SwitchSelectedConnection(m1, NoConn)
             m2 == IF m.selected = c THEN SortConnectionsAndUpdateState(s1) ELSE UpdateState(m1)
             k == [m.conn[c] EXCEPT !.life = "freed"]
             r == [m2 EXCEPT !.conn[c].life = "freed"]
  <1>1. DestroyConnection(m, c) = r
    BY DEF DestroyConnection
  <1>2. m \in Memory /\ m.order \in Seq(Conns) /\ m.conn \in [Conns -> Connection]
    BY DEF Good, Memory
  <1>3. o \in Seq(Conns) /\ Members(o) = Members(m.order) \ {c}
    BY <1>2, EraseMembers
  <1> HIDE DEF o
  <1>4. /\ m1 \in Memory
        /\ m1.conn = m.conn /\ m1.order = o /\ m1.selected = m.selected
        /\ m1.chosen = m.chosen /\ m1.had = m.had /\ m1.remote = m.remote
        /\ m1.stale = m.stale /\ m1.been = m.been /\ m1.writable = m.writable
    BY <1>2, <1>3 DEF Memory
  <1> HIDE DEF m1
  <1>5. /\ m2 \in Memory /\ Accurate(m2) /\ m2.stale = FALSE
        /\ m2.conn = m.conn /\ m2.had = m.had /\ m2.remote = m.remote
        /\ m.been = TRUE => m2.been = TRUE
        /\ m2.writable = TRUE => m2.been = TRUE
        /\ Members(m2.order) = Members(o)
        /\ SelectedListed(m2) /\ m2.selected # c
    <2>1. CASE m.selected = c
      <3>1. m.chosen = c /\ m.conn[c].life = "live"
        BY <2>1, ConnsAssumption DEF Good, SelectedListed, Listed
      <3>2. s1 = [m1 EXCEPT !.selected = NoConn]
        BY <1>4 DEF SwitchSelectedConnection, Memory
      <3>3. /\ s1 \in Memory
            /\ s1.conn = m.conn /\ s1.order = o /\ s1.selected = NoConn
            /\ s1.chosen = m.chosen /\ s1.had = m.had /\ s1.remote = m.remote
            /\ s1.stale = m.stale /\ s1.been = m.been /\ s1.writable = m.writable
        BY <1>4, <3>2 DEF Memory
      <3> HIDE DEF s1
      <3>4. Listed(s1) /\ SelectedListed(s1) /\ RemoteKnown(s1)
        BY <1>3, <3>3 DEF Listed, SelectedListed, RemoteKnown, Good
      <3>5. Good(s1)
        BY <3>3, <3>4 DEF Good
      <3>6. /\ Good(m2) /\ Accurate(m2)
            /\ m2.conn = s1.conn /\ m2.had = s1.had /\ m2.remote = s1.remote
            /\ Members(m2.order) = Members(s1.order)
            /\ s1.been = TRUE => m2.been = TRUE
        BY <2>1, <3>1, <3>3, <3>5, SortEffect
      <3> HIDE DEF m2
      <3>7. m2.selected # c
        BY <1>3, <3>3, <3>6, ConnsAssumption DEF Good, SelectedListed
      <3> QED
        BY <3>3, <3>6, <3>7 DEF Good
    <2>2. CASE m.selected # c
      <3>1. /\ m2 \in Memory /\ Accurate(m2) /\ m2.stale = m1.stale
            /\ m2.conn = m1.conn /\ m2.had = m1.had /\ m2.remote = m1.remote
            /\ m2.order = m1.order /\ m2.selected = m1.selected /\ m2.chosen = m1.chosen
            /\ m1.been = TRUE => m2.been = TRUE
            /\ m2.writable = TRUE => m2.been = TRUE
        BY <1>4, <2>2, UpdateStateEffect
      <3> HIDE DEF m2
      <3>2. SelectedListed(m2)
        BY <1>3, <1>4, <2>2, <3>1 DEF SelectedListed, Good
      <3> QED
        BY <1>4, <2>2, <3>1, <3>2 DEF Good
    <2> QED
      BY <2>1, <2>2
  <1> HIDE DEF m2
  <1>6. k \in Connection /\ k.ws = m.conn[c].ws /\ k.recv = m.conn[c].recv /\ k.pwd = m.conn[c].pwd
    BY <1>2 DEF Connection
  <1>7. r = [m2 EXCEPT !.conn[c] = k]
    BY <1>5
  <1> HIDE DEF k, r
  <1>8. /\ r \in Memory
        /\ r.order = m2.order /\ r.selected = m2.selected
        /\ r.chosen = m2.chosen /\ r.had = m2.had /\ r.remote = m2.remote
        /\ r.stale = m2.stale /\ r.been = m2.been /\ r.writable = m2.writable
        /\ r.receiving = m2.receiving /\ r.state = m2.state
        /\ r.conn = [m.conn EXCEPT ![c] = k]
    BY <1>5, <1>6, <1>7 DEF Memory
  <1>9. r.conn[c] = k /\ \A d \in Conns : d # c => r.conn[d] = m.conn[d]
    BY <1>2, <1>8
  <1>10. SameView(m2, r)
    BY <1>5, <1>6, <1>8, <1>9 DEF SameView
  <1>11. Accurate(r)
    BY <1>5, <1>8, <1>10, ViewKeepsAccuracy
  <1>12. Listed(r)
    <2>1. Members(m.order) \in SUBSET Conns
      BY <1>2, MembersTyped
    <2> QED
      BY <1>3, <1>5, <1>8, <1>9, <2>1 DEF Listed, Good
  <1>13. SelectedListed(r)
    BY <1>5, <1>8 DEF SelectedListed
  <1>14. RemoteKnown(r)
    BY <1>5, <1>6, <1>8, <1>9 DEF RemoteKnown, Good
  <1>15. Good(r)
    BY <1>5, <1>8, <1>12, <1>13, <1>14 DEF Good
  <1> QED
    BY <1>1, <1>5, <1>8, <1>11, <1>15 DEF k

(* The inductive invariant: connections are only deleted by the destructor *)
(* and by an error response, after which no sort can follow                *)
IceInv ==
    /\ Good(ice) /\ Accurate(ice)
    /\ loop \in {"none", "update", "destroy"}
    /\ todo \in Seq(Conns)
    /\ phase \in {"open", "closed", "undefined"}
    /\ phase # "open" => loop = "none"
    /\ phase = "open" /\ loop # "destroy" => NoneFreed(ice)

(* What every step does to the flags that only go up, and what it needs    *)
(* before it makes the channel writable                                    *)
Monotone ==
    /\ ice.remote = TRUE => ice'.remote = TRUE
    /\ ice.had = TRUE => ice'.had = TRUE
    /\ ice.been = TRUE => ice'.been = TRUE
    /\ \A c \in Conns : ice'.conn[c].ws = "writable" => ice.remote = TRUE

(* A connection as it is created *)
LEMMA NewConnectionTyped ==
  ASSUME NEW u \in Ufrags, NEW b \in BOOLEAN
  PROVE  LET k == NewConnection(u, b)
         IN  k \in Connection /\ k.life = "live" /\ k.pwd = b /\ k.ws = "init"
PROOF
  <1>1. /\ "live" \in {"none", "live", "freed"} /\ "init" \in WriteState
        /\ InitRtt \in Nat /\ 0 \in 0 .. RTT_RATIO + 2
        /\ 0 \in 0 .. MIN_PINGS_AT_WEAK_PING_INTERVAL
        /\ AgeCap \in Age /\ <<>> \in Seq(Age) /\ 0 \in 0 .. MaxReqs
        /\ WEAK_CONNECTION_RECEIVE_TIMEOUT \in 0 .. WEAK_CONNECTION_RECEIVE_TIMEOUT
    BY IntervalAssumption, RttAssumption DEF WriteState, Age
  <1> QED
    BY <1>1 DEF NewConnection, Connection

(* A new channel satisfies the invariant *)
LEMMA InitInv ==
  Init => IceInv
PROOF
  <1> SUFFICES ASSUME Init
               PROVE  IceInv
    OBVIOUS
  <1> DEFINE k == [NewConnection(NoUfrag, FALSE) EXCEPT !.life = "none"]
  <1>1. /\ k \in Connection /\ k.life = "none" /\ k.pwd = FALSE /\ k.ws = "init"
    <2> DEFINE n == NewConnection(NoUfrag, FALSE)
    <2>1. n \in Connection /\ n.pwd = FALSE /\ n.ws = "init"
      BY NewConnectionTyped, UfragAssumption
    <2> HIDE DEF n
    <2>2. LET q == [n EXCEPT !.life = "none"]
          IN  q \in Connection /\ q.life = "none" /\ q.pwd = FALSE /\ q.ws = "init"
      BY <2>1 DEF Connection
    <2> QED
      BY <2>2 DEF n
  <1>2. /\ ice.conn = [c \in Conns |-> k] /\ ice.order = <<>> /\ ice.selected = NoConn
        /\ ice.writable = FALSE /\ ice.receiving = FALSE /\ ice.state = "new"
        /\ ice.had = FALSE /\ ice.been = FALSE /\ ice.stale = FALSE
    BY DEF Init
  <1>3. \A c \in Conns : ice.conn[c] = k
    BY <1>2
  <1> HIDE DEF k
  <1>4. ice \in Memory
    <2>1. /\ [c \in Conns |-> k] \in [Conns -> Connection]
          /\ <<>> \in Seq(Conns)
          /\ 0 \in 0 .. STRONG_PING_INTERVAL /\ STRONG_PING_INTERVAL \in 0 .. STRONG_PING_INTERVAL
      BY <1>1, IntervalAssumption
    <2> QED
      BY <2>1, UfragAssumption DEF Init, Memory, k
  <1>5. Members(ice.order) = {}
    BY <1>2 DEF Members
  <1>6. Listed(ice) /\ SelectedListed(ice) /\ RemoteKnown(ice) /\ NoneFreed(ice)
    BY <1>1, <1>2, <1>3, <1>5 DEF Listed, SelectedListed, RemoteKnown, NoneFreed
  <1>7. Accurate(ice)
    BY <1>2, <1>5 DEF Accurate, ChannelWritable, ChannelReceiving, ChannelState
  <1> QED
    BY <1>2, <1>4, <1>6, <1>7 DEF Init, IceInv, Good

(* add_connection puts one more connection on the list *)
LEMMA AppendMembers ==
  ASSUME NEW s \in Seq(Conns), NEW c \in Conns
  PROVE  Append(s, c) \in Seq(Conns) /\ Members(Append(s, c)) = Members(s) \cup {c}
PROOF
  <1> DEFINE t == Append(s, c)
  <1>1. /\ t \in Seq(Conns) /\ DOMAIN s = 1 .. Len(s) /\ DOMAIN t = 1 .. Len(s) + 1
        /\ t[Len(s) + 1] = c /\ \A i \in DOMAIN s : t[i] = s[i]
        /\ Len(s) \in Nat
    OBVIOUS
  <1> HIDE DEF t
  <1>2. \A i \in DOMAIN t : i \in DOMAIN s \/ i = Len(s) + 1
    BY <1>1
  <1>3. DOMAIN s \subseteq DOMAIN t /\ Len(s) + 1 \in DOMAIN t
    BY <1>1
  <1>4. Members(t) = Members(s) \cup {c}
    BY <1>1, <1>2, <1>3 DEF Members
  <1> QED
    BY <1>1, <1>4 DEF t

(* A binding request from an unknown address: the new connection is alive *)
LEMMA UnknownAddressKeeps ==
  ASSUME IceInv, NEW c \in Conns, NEW u \in Ufrags, UnknownAddress(c, u)
  PROVE  IceInv' /\ Monotone
PROOF
  <1> DEFINE k == NewConnection(u, ice.remote)
             o == Append(ice.order, c)
             q == [ice EXCEPT !.conn[c] = k, !.had = TRUE, !.order = o, !.unpinged = @ \cup {c}]
  <1>1. /\ Good(ice) /\ NoneFreed(ice) /\ ice \in Memory
        /\ ice.conn \in [Conns -> Connection] /\ ice.order \in Seq(Conns) /\ ice.remote \in BOOLEAN
        /\ phase = "open" /\ loop = "none"
    BY DEF IceInv, UnknownAddress, Idle, Good, Memory
  <1>2. ice' = SortConnectionsAndUpdateState(q) /\ UNCHANGED <<loop, todo, phase>>
    BY DEF UnknownAddress
  <1>3. k \in Connection /\ k.life = "live" /\ k.pwd = ice.remote /\ k.ws = "init"
    BY <1>1, NewConnectionTyped
  <1>4. o \in Seq(Conns) /\ Members(o) = Members(ice.order) \cup {c}
    BY <1>1, AppendMembers
  <1> HIDE DEF k, o
  <1>5. /\ q \in Memory
        /\ q.order = o /\ q.selected = ice.selected
        /\ q.chosen = ice.chosen /\ q.had = TRUE /\ q.remote = ice.remote
        /\ q.stale = ice.stale /\ q.been = ice.been /\ q.writable = ice.writable
        /\ q.conn = [ice.conn EXCEPT ![c] = k]
    BY <1>1, <1>3, <1>4 DEF Memory
  <1>6. q.conn[c] = k /\ \A d \in Conns : d # c => q.conn[d] = ice.conn[d]
    BY <1>1, <1>5
  <1> HIDE DEF q
  <1>7. Listed(q)
    <2>1. Members(ice.order) \in SUBSET Conns
      BY <1>1, MembersTyped
    <2> QED
      BY <1>1, <1>3, <1>4, <1>5, <1>6, <2>1 DEF Listed, Good
  <1>8. SelectedListed(q)
    BY <1>1, <1>4, <1>5 DEF SelectedListed, Good
  <1>9. RemoteKnown(q)
    BY <1>1, <1>3, <1>5, <1>6 DEF RemoteKnown, Good
  <1>10. Good(q)
    BY <1>1, <1>5, <1>7, <1>8, <1>9 DEF Good
  <1>11. NoneFreed(q)
    BY <1>1, <1>3, <1>6 DEF NoneFreed
  <1>12. q.chosen # NoConn => q.conn[q.chosen].life # "freed"
    BY <1>5, <1>11, ChosenNotFreed
  <1>13. /\ Good(ice') /\ Accurate(ice')
         /\ ice'.conn = q.conn /\ ice'.had = q.had /\ ice'.remote = q.remote
         /\ q.been = TRUE => ice'.been = TRUE
    BY <1>2, <1>10, <1>12, SortEffect
  <1>14. NoneFreed(ice')
    BY <1>11, <1>13 DEF NoneFreed
  <1>15. IceInv'
    BY <1>1, <1>2, <1>13, <1>14 DEF IceInv
  <1>16. Monotone
    BY <1>1, <1>3, <1>5, <1>6, <1>13 DEF Monotone, Good, RemoteKnown
  <1> QED
    BY <1>15, <1>16

(* set_remote_ice_params: passwords come with the parameters *)
LEMMA SetRemoteIceParamsKeeps ==
  ASSUME IceInv, NEW u \in Answers, SetRemoteIceParams(u)
  PROVE  IceInv' /\ Monotone
PROOF
  <1> DEFINE f == [c \in Conns |-> IF c \in Members(ice.order)
                                  THEN MaybeSetRemoteIceParams(ice.conn[c], u) ELSE ice.conn[c]]
             q == [ice EXCEPT !.remote = TRUE, !.ufrag = u, !.conn = f]
  <1>1. /\ Good(ice) /\ NoneFreed(ice) /\ ice \in Memory
        /\ ice.conn \in [Conns -> Connection] /\ ice.order \in Seq(Conns) /\ ice.remote \in BOOLEAN
        /\ phase = "open" /\ loop = "none"
    BY DEF IceInv, SetRemoteIceParams, Idle, Good, Memory
  <1>2. ice' = SortConnectionsAndUpdateState(q) /\ UNCHANGED <<loop, todo, phase>>
    BY DEF SetRemoteIceParams
  <1>3. /\ f \in [Conns -> Connection]
        /\ \A c \in Conns : f[c].life = ice.conn[c].life /\ f[c].ws = ice.conn[c].ws
    <2>1. ASSUME NEW c \in Conns
          PROVE  LET k == MaybeSetRemoteIceParams(ice.conn[c], u)
                 IN  k \in Connection /\ k.life = ice.conn[c].life /\ k.ws = ice.conn[c].ws
      <3>1. ice.conn[c] \in Connection
        BY <1>1
      <3> QED
        BY <3>1 DEF Connection, MaybeSetRemoteIceParams
    <2>2. \A c \in Conns : /\ f[c] \in Connection
                           /\ f[c].life = ice.conn[c].life /\ f[c].ws = ice.conn[c].ws
      BY <1>1, <2>1
    <2> QED
      BY <2>2
  <1> HIDE DEF f
  <1>4. /\ q \in Memory
        /\ q.order = ice.order /\ q.selected = ice.selected
        /\ q.chosen = ice.chosen /\ q.had = ice.had /\ q.remote = TRUE
        /\ q.stale = ice.stale /\ q.been = ice.been /\ q.writable = ice.writable
        /\ q.conn = f
    BY <1>1, <1>3, UfragAssumption DEF Memory
  <1> HIDE DEF q
  <1>5. Listed(q)
    <2>1. Members(ice.order) \in SUBSET Conns
      BY <1>1, MembersTyped
    <2> QED
      BY <1>1, <1>3, <1>4, <2>1 DEF Listed, Good
  <1>6. SelectedListed(q) /\ RemoteKnown(q)
    BY <1>1, <1>4 DEF SelectedListed, RemoteKnown, Good
  <1>7. Good(q)
    BY <1>1, <1>4, <1>5, <1>6 DEF Good
  <1>8. NoneFreed(q)
    BY <1>1, <1>3, <1>4 DEF NoneFreed
  <1>9. q.chosen # NoConn => q.conn[q.chosen].life # "freed"
    BY <1>4, <1>8, ChosenNotFreed
  <1>10. /\ Good(ice') /\ Accurate(ice')
         /\ ice'.conn = q.conn /\ ice'.had = q.had /\ ice'.remote = q.remote
         /\ q.been = TRUE => ice'.been = TRUE
    BY <1>2, <1>7, <1>9, SortEffect
  <1>11. NoneFreed(ice')
    BY <1>8, <1>10 DEF NoneFreed
  <1>12. IceInv'
    BY <1>1, <1>2, <1>10, <1>11 DEF IceInv
  <1>13. Monotone
    BY <1>1, <1>3, <1>4, <1>10 DEF Monotone, Good, RemoteKnown
  <1> QED
    BY <1>12, <1>13

(* A handler that carries the memory on keeps the invariant *)
LEMMA CarriedKeeps ==
  ASSUME IceInv, Good(ice'), Accurate(ice'), Carried(ice, ice')
  PROVE  Monotone /\ (NoneFreed(ice) => NoneFreed(ice'))
PROOF
  <1>1. Monotone
    BY DEF Monotone, Carried, Good, RemoteKnown
  <1> QED
    BY <1>1, CarriedNoneFreed

(* The fields that neither the invariant nor the reported state reads *)
Quiet(m, r) ==
    /\ \A d \in Conns : /\ r.conn[d].life = m.conn[d].life /\ r.conn[d].ws = m.conn[d].ws
                        /\ r.conn[d].recv = m.conn[d].recv /\ r.conn[d].pwd = m.conn[d].pwd
    /\ r.order = m.order /\ r.selected = m.selected /\ r.chosen = m.chosen
    /\ r.had = m.had /\ r.remote = m.remote /\ r.stale = m.stale /\ r.been = m.been
    /\ r.writable = m.writable /\ r.receiving = m.receiving /\ r.state = m.state

(* A change of the other fields keeps the memory good and the report accurate *)
LEMMA QuietKeeps ==
  ASSUME NEW m, Good(m), Accurate(m), NEW r \in Memory, Quiet(m, r)
  PROVE  Good(r) /\ Accurate(r) /\ Carried(m, r)
PROOF
  <1>1. m \in Memory /\ Members(m.order) \in SUBSET Conns
    <2>1. m \in Memory /\ m.order \in Seq(Conns)
      BY DEF Good, Memory
    <2> QED
      BY <2>1, MembersTyped
  <1>2. Listed(r) /\ SelectedListed(r) /\ RemoteKnown(r)
    BY <1>1 DEF Listed, SelectedListed, RemoteKnown, Good, Quiet
  <1>3. SameView(m, r) /\ Carried(m, r)
    BY DEF SameView, Carried, Quiet
  <1>4. Accurate(r)
    BY <1>1, <1>3, ViewKeepsAccuracy DEF Quiet
  <1> QED
    BY <1>2, <1>3, <1>4 DEF Good, Quiet

(* check_response deletes the request *)
LEMMA RequestDeletedKeeps ==
  ASSUME NEW m, Good(m), Accurate(m), NEW c \in Conns, NEW n \in 0 .. MaxReqs
  PROVE  LET r == [m EXCEPT !.conn[c].reqs = n]
         IN  Good(r) /\ Accurate(r) /\ Carried(m, r)
PROOF
  <1> DEFINE k == [m.conn[c] EXCEPT !.reqs = n]
             r == [m EXCEPT !.conn[c] = k]
  <1>1. m.conn[c] \in Connection
    BY DEF Good, Memory
  <1>2. /\ k \in Connection /\ k.life = m.conn[c].life /\ k.pwd = m.conn[c].pwd
        /\ k.ws = m.conn[c].ws /\ k.recv = m.conn[c].recv
    BY <1>1 DEF Connection
  <1>3. k.ws = "writable" => m.remote = TRUE
    BY <1>2 DEF Good, RemoteKnown
  <1> HIDE DEF k
  <1>4. Good(r) /\ Accurate(r) /\ Carried(m, r)
    BY <1>2, <1>3, ConnectionWritten
  <1> QED
    BY <1>4 DEF k

(* A ping response: only after the peer's parameters *)
LEMMA PingResponseStep ==
  ASSUME IceInv, NEW c \in Conns, NEW rtt \in RttSamples, NEW later \in BOOLEAN,
         PingResponse(c, rtt, later)
  PROVE  IceInv' /\ Monotone
PROOF
  <1> DEFINE q == ReceivedPingResponse(ice, c, rtt, later)
  <1>1. /\ Good(ice) /\ Accurate(ice) /\ NoneFreed(ice) /\ phase = "open" /\ loop = "none"
        /\ ice.conn[c].pwd
    BY DEF IceInv, PingResponse, AcceptsResponse, Idle
  <1>2. ice.remote = TRUE
    <2>1. ice.conn[c].pwd \in BOOLEAN
      BY <1>1 DEF Good, Memory, Connection
    <2> QED
      BY <1>1, <2>1 DEF Good, RemoteKnown
  <1>3. PICK n \in 0 .. MaxReqs : ice' = [q EXCEPT !.conn[c].reqs = n]
    BY DEF PingResponse
  <1>4. UNCHANGED <<loop, todo, phase>>
    BY DEF PingResponse
  <1>5. Good(q) /\ Accurate(q) /\ Carried(ice, q)
    BY <1>1, <1>2, PingResponseKeeps, RttAssumption
  <1> HIDE DEF q
  <1>6. Good(ice') /\ Accurate(ice') /\ Carried(q, ice')
    BY <1>3, <1>5, RequestDeletedKeeps
  <1>7. Carried(ice, ice')
    BY <1>5, <1>6, CarriedTransitive
  <1>8. Monotone /\ NoneFreed(ice')
    BY <1>1, <1>6, <1>7, CarriedKeeps
  <1> QED
    BY <1>1, <1>4, <1>6, <1>8 DEF IceInv

(* An error response: ends the model when it deletes the connection *)
LEMMA ErrorResponseStep ==
  ASSUME IceInv, NEW c \in Conns, NEW code \in Codes, ErrorResponse(c, code)
  PROVE  IceInv' /\ Monotone
PROOF
  <1> DEFINE fatal == ErrorCode(code) \notin RetryCodes
             d == IF fatal THEN DestroyConnection(ice, c) ELSE ice
  <1>1. /\ Good(ice) /\ Accurate(ice) /\ NoneFreed(ice) /\ phase = "open" /\ loop = "none"
    BY DEF IceInv, ErrorResponse, AcceptsResponse, Idle
  <1>2. PICK n \in 0 .. MaxReqs : ice' = [d EXCEPT !.conn[c].reqs = n, !.err = code]
    BY DEF ErrorResponse
  <1>3. loop' = loop /\ todo' = todo /\ phase' = IF fatal THEN "undefined" ELSE phase
    BY DEF ErrorResponse
  <1>4. /\ Good(d) /\ Accurate(d)
        /\ d.had = ice.had /\ d.remote = ice.remote /\ (ice.been = TRUE => d.been = TRUE)
        /\ ~fatal => d = ice
    <2>1. CASE fatal
      BY <1>1, <2>1, DestroyKeeps
    <2>2. CASE ~fatal
      BY <1>1, <2>2
    <2> QED
      BY <2>1, <2>2
  <1> HIDE DEF d, fatal
  <1> DEFINE q == [d EXCEPT !.conn[c].reqs = n]
  <1>5. Good(q) /\ Accurate(q) /\ Carried(d, q)
    BY <1>4, RequestDeletedKeeps
  <1>6. ice' = [q EXCEPT !.err = code]
    BY <1>2
  <1> HIDE DEF q
  <1>7. ice' \in Memory /\ Quiet(q, ice')
    <2>1. q \in Memory
      BY <1>5 DEF Good
    <2> QED
      BY <1>6, <2>1 DEF Memory, Quiet
  <1>8. Good(ice') /\ Accurate(ice') /\ Carried(q, ice')
    BY <1>5, <1>7, QuietKeeps
  <1>9. Carried(d, ice')
    BY <1>5, <1>8, CarriedTransitive
  <1>10. Monotone
    BY <1>4, <1>8, <1>9 DEF Monotone, Carried, Good, RemoteKnown
  <1>11. ~fatal => NoneFreed(ice')
    BY <1>1, <1>4, <1>9, CarriedNoneFreed
  <1> QED
    BY <1>1, <1>3, <1>8, <1>10, <1>11 DEF IceInv

(* Time passes *)
LEMMA TickStep ==
  ASSUME IceInv, Tick
  PROVE  IceInv' /\ Monotone
PROOF
  <1> DEFINE g(c) == [ice.conn[c] EXCEPT
                         !.sent = Older(@, AgeCap),
                         !.resp = Older(@, WEAK_CONNECTION_RECEIVE_TIMEOUT),
                         !.out = [i \in DOMAIN @ |-> Older(@[i], AgeCap)]]
             f == [c \in Conns |-> IF ice.conn[c].life # "live" THEN ice.conn[c] ELSE g(c)]
             e == IF ice.pinging THEN ice.due - 1 ELSE ice.due
             l == Older(ice.last, STRONG_PING_INTERVAL)
  <1>1. /\ Good(ice) /\ Accurate(ice) /\ NoneFreed(ice) /\ phase = "open" /\ loop = "none"
        /\ ice \in Memory /\ ice.conn \in [Conns -> Connection]
    BY DEF IceInv, Tick, Idle, Good, Memory
  <1>2. ice' = [ice EXCEPT !.conn = f, !.due = e, !.last = l] /\ UNCHANGED <<loop, todo, phase>>
    BY DEF Tick
  <1>3. ASSUME NEW c \in Conns
        PROVE  /\ g(c) \in Connection /\ g(c).life = ice.conn[c].life /\ g(c).ws = ice.conn[c].ws
               /\ g(c).recv = ice.conn[c].recv /\ g(c).pwd = ice.conn[c].pwd
    <2> PICK k \in Connection : k = ice.conn[c]
      BY <1>1
    <2> DEFINE x == Older(k.sent, AgeCap)
               y == Older(k.resp, WEAK_CONNECTION_RECEIVE_TIMEOUT)
               z == [i \in DOMAIN k.out |-> Older(k.out[i], AgeCap)]
               h == [k EXCEPT !.sent = x, !.resp = y, !.out = z]
    <2>1. g(c) = h
      OBVIOUS
    <2>2. k.sent \in Age /\ k.resp \in 0 .. WEAK_CONNECTION_RECEIVE_TIMEOUT /\ k.out \in Seq(Age)
      BY DEF Connection
    <2>3. x \in Age /\ y \in 0 .. WEAK_CONNECTION_RECEIVE_TIMEOUT
      BY <2>2, OlderTyped, IntervalAssumption DEF Age
    <2>4. z \in Seq(Age)
      <3>1. /\ DOMAIN k.out = 1 .. Len(k.out) /\ Len(k.out) \in Nat
            /\ \A i \in DOMAIN k.out : k.out[i] \in Age
        BY <2>2
      <3>2. \A i \in DOMAIN k.out : Older(k.out[i], AgeCap) \in Age
        BY <3>1, OlderTyped, IntervalAssumption DEF Age
      <3>3. z \in [1 .. Len(k.out) -> Age]
        BY <3>1, <3>2
      <3> HIDE DEF z
      <3> QED
        BY <3>1, <3>3
    <2> HIDE DEF x, y, z
    <2>5. /\ h \in Connection /\ h.life = k.life /\ h.ws = k.ws
          /\ h.recv = k.recv /\ h.pwd = k.pwd
      BY <2>3, <2>4 DEF Connection
    <2> QED
      BY <2>1, <2>5
  <1> HIDE DEF g
  <1>4. /\ f \in [Conns -> Connection]
        /\ \A c \in Conns : /\ f[c].life = ice.conn[c].life /\ f[c].ws = ice.conn[c].ws
                             /\ f[c].recv = ice.conn[c].recv /\ f[c].pwd = ice.conn[c].pwd
    BY <1>1, <1>3
  <1>5. e \in 0 .. STRONG_PING_INTERVAL
    <2>1. ice.due \in 0 .. STRONG_PING_INTERVAL /\ (ice.pinging => ice.due > 0)
      BY <1>1 DEF Tick, Memory
    <2> QED
      BY <2>1, IntervalAssumption
  <1>6. l \in 0 .. STRONG_PING_INTERVAL
    <2>1. ice.last \in 0 .. STRONG_PING_INTERVAL
      BY <1>1 DEF Memory
    <2> QED
      BY <2>1, OlderTyped, IntervalAssumption
  <1> HIDE DEF f, e, l
  <1>7. ice' \in Memory /\ ice'.conn = f
    BY <1>1, <1>2, <1>4, <1>5, <1>6 DEF Memory
  <1>8. Quiet(ice, ice')
    BY <1>1, <1>2, <1>4, <1>7 DEF Quiet, Memory
  <1>9. Good(ice') /\ Accurate(ice') /\ Carried(ice, ice')
    BY <1>1, <1>7, <1>8, QuietKeeps
  <1>10. Monotone /\ NoneFreed(ice')
    BY <1>1, <1>9, CarriedKeeps
  <1> QED
    BY <1>1, <1>2, <1>9, <1>10 DEF IceInv

(* One iteration of _update_connection_states *)
LEMMA UpdateConnectionStatesStep ==
  ASSUME IceInv, UpdateConnectionStates
  PROVE  IceInv' /\ Monotone
PROOF
  <1>1. /\ Good(ice) /\ Accurate(ice) /\ loop = "update" /\ phase = "open" /\ NoneFreed(ice)
        /\ Head(todo) \in Conns /\ Tail(todo) \in Seq(Conns)
    BY DEF IceInv, UpdateConnectionStates
  <1>2. ice' = UpdateConnection(ice, Head(todo)) /\ todo' = Tail(todo) /\ UNCHANGED <<loop, phase>>
    BY DEF UpdateConnectionStates
  <1>3. Good(ice') /\ Accurate(ice') /\ Carried(ice, ice')
    BY <1>1, <1>2, UpdateConnectionKeeps
  <1>4. Monotone /\ NoneFreed(ice')
    BY <1>1, <1>3, CarriedKeeps
  <1> QED
    BY <1>1, <1>2, <1>3, <1>4 DEF IceInv

(* Choosing whom to ping starts at most a new round and yields nullptr or  *)
(* a connection                                                            *)
LEMMA SelectionQuiet ==
  ASSUME NEW m \in Memory, NEW p \in Selection(m)
  PROVE  p[1] \in Memory /\ Quiet(m, p[1]) /\ p[2] \in Conns \cup {NoConn}
PROOF
  <1> DEFINE n == [m EXCEPT !.unpinged = @ \cup m.pinged, !.pinged = {}]
             s == StartRound(m)
  <1>1. s \in {m, n}
    BY DEF StartRound
  <1>2. n \in Memory /\ Quiet(m, n) /\ Quiet(m, m)
    BY DEF Memory, Quiet
  <1> HIDE DEF n, s
  <1>3. s \in Memory /\ Quiet(m, s)
    BY <1>1, <1>2
  <1>4. LongestWaiting(s) \in SUBSET Conns
    BY <1>3 DEF LongestWaiting, Memory
  <1>5. m.chosen \in Conns \cup {NoConn}
    BY DEF Memory
  <1>6. \/ p = <<m, NoConn>> \/ p = <<m, m.chosen>> \/ p = <<s, NoConn>>
        \/ \E c \in LongestWaiting(s) : p = <<s, c>>
    BY DEF Selection, s
  <1> QED
    BY <1>2, <1>3, <1>4, <1>5, <1>6

(* A ping touches counters and time stamps only *)
LEMMA PingConnectionQuiet ==
  ASSUME NEW m \in Memory, NEW c \in Conns
  PROVE  PingConnection(m, c) \in Memory /\ Quiet(m, PingConnection(m, c))
PROOF
  <1> PICK k \in Connection : k = m.conn[c]
    BY DEF Memory
  <1> DEFINE o == IF Len(k.out) < CONNECTION_WRITE_CONNECT_FAILS THEN Append(k.out, 0) ELSE k.out
             x == Least(k.reqs + 1, MaxReqs)
             y == Least(k.pings + 1, MIN_PINGS_AT_WEAK_PING_INTERVAL)
             k1 == [k EXCEPT !.sent = 0, !.answered = FALSE, !.out = o, !.reqs = x, !.pings = y]
             a == IF c \in m.pinged THEN m.unpinged ELSE m.unpinged \ {c}
             b == m.pinged \cup {c}
             r == [m EXCEPT !.conn[c] = k1, !.last = 0, !.unpinged = a, !.pinged = b]
  <1>1. PingConnection(m, c) = r
    BY DEF PingConnection
  <1>2. /\ k.out \in Seq(Age) /\ k.reqs \in 0 .. MaxReqs
        /\ k.pings \in 0 .. MIN_PINGS_AT_WEAK_PING_INTERVAL
    BY DEF Connection
  <1>3. 0 \in Age /\ 0 \in 0 .. STRONG_PING_INTERVAL
    BY IntervalAssumption DEF Age
  <1>4. o \in Seq(Age)
    BY <1>2, <1>3
  <1>5. x \in 0 .. MaxReqs /\ y \in 0 .. MIN_PINGS_AT_WEAK_PING_INTERVAL
    <2>1. MaxReqs \in Nat /\ MIN_PINGS_AT_WEAK_PING_INTERVAL \in Nat
      BY IntervalAssumption
    <2> QED
      BY <1>2, <2>1, LeastTyped
  <1>6. a \in SUBSET Conns /\ b \in SUBSET Conns /\ m.conn \in [Conns -> Connection]
    BY DEF Memory
  <1> HIDE DEF o, x, y, a, b
  <1>7. /\ k1 \in Connection /\ k1.life = k.life /\ k1.ws = k.ws
        /\ k1.recv = k.recv /\ k1.pwd = k.pwd
    BY <1>3, <1>4, <1>5 DEF Connection
  <1> HIDE DEF k1
  <1>8. r \in Memory /\ r.conn = [m.conn EXCEPT ![c] = k1]
    BY <1>3, <1>6, <1>7 DEF Memory
  <1>9. \A d \in Conns : /\ r.conn[d].life = m.conn[d].life /\ r.conn[d].ws = m.conn[d].ws
                         /\ r.conn[d].recv = m.conn[d].recv /\ r.conn[d].pwd = m.conn[d].pwd
    BY <1>6, <1>7, <1>8
  <1>10. /\ r.order = m.order /\ r.selected = m.selected /\ r.chosen = m.chosen
         /\ r.had = m.had /\ r.remote = m.remote /\ r.stale = m.stale /\ r.been = m.been
         /\ r.writable = m.writable /\ r.receiving = m.receiving /\ r.state = m.state
    BY DEF Memory
  <1> HIDE DEF r
  <1> QED
    BY <1>1, <1>8, <1>9, <1>10 DEF Quiet

(* The end of _on_check_and_ping *)
LEMMA SelectAndPingStep ==
  ASSUME IceInv, SelectAndPing
  PROVE  IceInv' /\ Monotone
PROOF
  <1>1. /\ Good(ice) /\ Accurate(ice) /\ loop = "update" /\ phase = "open" /\ NoneFreed(ice)
        /\ ice \in Memory
    BY DEF IceInv, SelectAndPing, Good
  <1>2. loop' = "none" /\ UNCHANGED <<todo, phase>>
    BY DEF SelectAndPing
  <1> DEFINE t == NextPingInterval(ice)
  <1>3. PICK p \in Selection(ice) :
           LET m == IF p[2] = NoConn THEN p[1] ELSE PingConnection(p[1], p[2])
           IN  ice' = [m EXCEPT !.interval = t, !.due = t]
    BY DEF SelectAndPing
  <1> DEFINE m == IF p[2] = NoConn THEN p[1] ELSE PingConnection(p[1], p[2])
  <1>4. ice' = [m EXCEPT !.interval = t, !.due = t]
    BY <1>3
  <1>5. t \in {WEAK_PING_INTERVAL, STRONG_PING_INTERVAL} /\ t \in 0 .. STRONG_PING_INTERVAL
    BY IntervalAssumption DEF NextPingInterval
  <1> PICK q, d : q = p[1] /\ d = p[2]
    OBVIOUS
  <1>6. q \in Memory /\ Quiet(ice, q) /\ d \in Conns \cup {NoConn}
    BY <1>1, SelectionQuiet
  <1>7. m \in Memory /\ Quiet(q, m)
    <2>1. CASE d = NoConn
      BY <1>6, <2>1 DEF Quiet
    <2>2. CASE d # NoConn
      BY <1>6, <2>2, PingConnectionQuiet
    <2> QED
      BY <2>1, <2>2
  <1> HIDE DEF t, m
  <1>8. ice' \in Memory /\ Quiet(m, ice')
    BY <1>4, <1>5, <1>7 DEF Memory, Quiet
  <1>9. Quiet(ice, ice')
    BY <1>6, <1>7, <1>8 DEF Quiet
  <1>10. Good(ice') /\ Accurate(ice') /\ Carried(ice, ice')
    BY <1>1, <1>8, <1>9, QuietKeeps
  <1>11. Monotone /\ NoneFreed(ice')
    BY <1>1, <1>10, CarriedKeeps
  <1> QED
    BY <1>1, <1>2, <1>10, <1>11 DEF IceInv

(* One iteration of ~IceTransportChannel *)
LEMMA DestroyConnectionsStep ==
  ASSUME IceInv, DestroyConnections
  PROVE  IceInv' /\ Monotone
PROOF
  <1>1. /\ Good(ice) /\ Accurate(ice) /\ loop = "destroy" /\ phase = "open"
        /\ Head(todo) \in Conns /\ Tail(todo) \in Seq(Conns)
    BY DEF IceInv, DestroyConnections
  <1>2. ice' = DestroyConnection(ice, Head(todo)) /\ todo' = Tail(todo) /\ UNCHANGED <<loop, phase>>
    BY DEF DestroyConnections
  <1>3. /\ Good(ice') /\ Accurate(ice')
        /\ ice'.had = ice.had /\ ice'.remote = ice.remote
        /\ ice.been = TRUE => ice'.been = TRUE
    BY <1>1, <1>2, DestroyKeeps
  <1>4. Monotone
    BY <1>3 DEF Monotone, Good, RemoteKnown
  <1> QED
    BY <1>1, <1>2, <1>3, <1>4 DEF IceInv

(* A step that leaves the memory as it is *)
LEMMA UnchangedMonotone ==
  ASSUME IceInv, UNCHANGED ice
  PROVE  Monotone /\ Good(ice') /\ Accurate(ice') /\ (NoneFreed(ice) => NoneFreed(ice'))
PROOF
  <1>1. Good(ice) /\ Accurate(ice)
    BY DEF IceInv
  <1>2. Monotone
    BY <1>1 DEF Monotone, Good, RemoteKnown
  <1> QED
    BY <1>1, <1>2

(* Every step keeps the invariant and the flags that only go up *)
LEMMA StepInv ==
  IceInv /\ [Next]_vars => IceInv' /\ Monotone
PROOF
  <1> SUFFICES ASSUME IceInv, [Next]_vars
               PROVE  IceInv' /\ Monotone
    OBVIOUS
  <1>1. CASE \E c \in Conns : \E u \in Ufrags : UnknownAddress(c, u)
    BY <1>1, UnknownAddressKeeps
  <1>2. CASE \E c \in Conns : \E rtt \in RttSamples, later \in BOOLEAN : PingResponse(c, rtt, later)
    BY <1>2, PingResponseStep
  <1>3. CASE \E c \in Conns : \E code \in Codes : ErrorResponse(c, code)
    BY <1>3, ErrorResponseStep
  <1>4. CASE \E u \in Answers : SetRemoteIceParams(u)
    BY <1>4, SetRemoteIceParamsKeeps
  <1>5. CASE Tick
    BY <1>5, TickStep
  <1>6. CASE CheckAndPing
    <2>1. /\ UNCHANGED ice /\ phase' = phase /\ loop' = "update" /\ todo' = ice.order
          /\ phase = "open" /\ loop = "none"
      BY <1>6 DEF CheckAndPing, Idle
    <2>2. ice.order \in Seq(Conns)
      BY DEF IceInv, Good, Memory
    <2> QED
      BY <2>1, <2>2, UnchangedMonotone DEF IceInv
  <1>7. CASE DeleteChannel
    <2>1. /\ UNCHANGED ice /\ phase' = phase /\ loop' = "destroy" /\ todo' = ice.order
          /\ phase = "open"
      BY <1>7 DEF DeleteChannel, Idle
    <2>2. ice.order \in Seq(Conns)
      BY DEF IceInv, Good, Memory
    <2> QED
      BY <2>1, <2>2, UnchangedMonotone DEF IceInv
  <1>8. CASE UpdateConnectionStates
    BY <1>8, UpdateConnectionStatesStep
  <1>9. CASE SelectAndPing
    BY <1>9, SelectAndPingStep
  <1>10. CASE DestroyConnections
    BY <1>10, DestroyConnectionsStep
  <1>11. CASE ChannelDeleted
    <2>1. /\ UNCHANGED <<ice, todo>> /\ phase' = "closed" /\ loop' = "none"
      BY <1>11 DEF ChannelDeleted
    <2> QED
      BY <2>1, UnchangedMonotone DEF IceInv
  <1>12. CASE UNCHANGED vars
    BY <1>12, UnchangedMonotone DEF IceInv, vars
  <1> QED
    BY <1>1, <1>2, <1>3, <1>4, <1>5, <1>6, <1>7, <1>8, <1>9, <1>10, <1>11, <1>12
    DEF Next, LoopStep

-----------------------------------------------------------------------------
(* The inductive invariant: every handler, with all the signals it sends,  *)
(* and every iteration of the two loops keeps the memory Good and Accurate, *)
(* and nothing is deleted while a sort may still come                      *)
THEOREM IceInvariant == Spec => []IceInv
PROOF
  <1>1. IceInv /\ [Next]_vars => IceInv'
    BY StepInv
  <1> QED
    BY InitInv, <1>1, PTL DEF Spec

(* _selected_connection is never dangling, and the controller agrees       *)
THEOREM SelectionSound == Spec => []SelectedAlive
PROOF
  <1>1. IceInv => SelectedAlive
    <2> SUFFICES ASSUME IceInv
                 PROVE  SelectedAlive
      OBVIOUS
    <2>1. TypeOK
      BY DEF IceInv, Good, TypeOK
    <2>2. Listed(ice) /\ SelectedListed(ice)
      BY DEF IceInv, Good
    <2> QED
      BY <2>1, <2>2 DEF SelectedAlive, Listed, SelectedListed
  <1> QED
    BY <1>1, IceInvariant, PTL

(* The pointer that the controller keeps to a destroyed connection is not  *)
(* read by a later sort_and_switch_connection                              *)
THEOREM NothingStaleRead == Spec => []NoStaleRead
PROOF
  <1>1. IceInv => NoStaleRead
    BY DEF IceInv, Good, NoStaleRead
  <1> QED
    BY <1>1, IceInvariant, PTL

(* What the channel last signalled follows from its connections, between   *)
(* any two handlers and any two iterations of a loop                       *)
THEOREM ReportedAccurate == Spec => []StateAccurate
PROOF
  <1>1. IceInv => StateAccurate
    BY DEF IceInv, Accurate, StateAccurate
  <1> QED
    BY <1>1, IceInvariant, PTL

(* The channel as its listeners see it *)
View(m) == [remote |-> m.remote, had |-> m.had, been |-> m.been,
            writable |-> m.writable, receiving |-> m.receiving, state |-> m.state]

(* Every step is a step of IceChannel *)
LEMMA ViewRefined ==
  ASSUME IceInv, IceInv', Monotone
  PROVE  Ch!ChannelNext
PROOF
  <1> DEFINE d == View(ice')
             has == \E c \in Members(ice'.order) : ice'.conn[c].ws # "timeout"
  <1>1. Good(ice') /\ Accurate(ice') /\ ice' \in Memory
    BY DEF IceInv, Good
  <1>2. d \in Ch!Channel
    BY <1>1 DEF View, Memory, Ch!Channel
  <1>3. /\ ice'.writable \in BOOLEAN /\ ice'.receiving \in BOOLEAN /\ ice'.had \in BOOLEAN
        /\ ice'.been \in BOOLEAN /\ ice'.remote \in BOOLEAN
        /\ ice.remote \in BOOLEAN /\ ice.had \in BOOLEAN /\ ice.been \in BOOLEAN
    BY <1>1 DEF Memory, IceInv, Good
  <1>4. Members(ice'.order) \in SUBSET Conns
    <2>1. ice'.order \in Seq(Conns)
      BY <1>1 DEF Memory
    <2> QED
      BY <2>1, MembersTyped
  <1>5. \A c \in Members(ice'.order) : ice'.had = TRUE
    BY <1>1 DEF Good, Listed
  <1>6. ASSUME ice'.writable = TRUE
        PROVE  ice.remote = TRUE /\ ice'.had = TRUE /\ ice'.been = TRUE /\ has
    <2>1. ice'.selected # NoConn /\ ice'.conn[ice'.selected].ws = "writable"
      BY <1>1, <1>6 DEF Accurate, ChannelWritable, Writable
    <2>2. ice'.selected \in Members(ice'.order)
      BY <1>1, <2>1 DEF Good, SelectedListed
    <2> QED
      BY <1>1, <1>4, <1>5, <1>6, <2>1, <2>2 DEF Monotone, Good
  <1>7. ice'.receiving = TRUE => ice'.had = TRUE
    BY <1>1, <1>5 DEF Accurate, ChannelReceiving
  <1>8. has => ice'.had = TRUE
    BY <1>5
  <1>9. has \in BOOLEAN
    OBVIOUS
  <1>10. ice'.state = Ch!StateOf(ice'.had, has, ice'.been, ice'.writable)
    BY <1>1 DEF Accurate, ChannelState, Ch!StateOf
  <1> HIDE DEF has
  <1>11. Ch!MayBecome(View(ice), d)
    BY <1>3, <1>6, <1>7, <1>8, <1>9, <1>10 DEF Ch!MayBecome, View, Monotone
  <1> QED
    BY <1>2, <1>11 DEF Ch!ChannelNext, View

(* The channel, its controller and its connections implement IceChannel,   *)
(* which is all that MediaTransport knows of them                          *)
THEOREM ChannelRefinement == Spec => ImplementsChannel
PROOF
  <1>1. Init => Ch!ChannelInit
    BY DEF Init, Ch!ChannelInit
  <1>2. IceInv /\ IceInv' /\ [Next]_vars => Ch!ChannelNext
    BY StepInv, ViewRefined
  <1> QED
    BY <1>1, <1>2, IceInvariant, PTL DEF Spec, ImplementsChannel, Ch!ChannelSpec
=============================================================================
