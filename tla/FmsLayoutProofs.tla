---------------------------- MODULE FmsLayoutProofs ----------------------------
(***************************************************************************)
(* Every sector has one owner, for every disk, directory and set of        *)
(* programs: what FmsSafety says of chains, files and available sectors    *)
(* holds in every reachable state.                                         *)
(*                                                                         *)
(* The inductive invariant Layout says that there is a pool P of which m   *)
(* sectors are taken, and sectors Q[i] of the file of each entry i, with   *)
(* which the links (Tidy), the entries (EntryAt), the blocks (BlockAt) and *)
(* both avail maps (MapsAre) agree.  The first part proves of these P and  *)
(* Q what the writes of a link do to them, the second has one lemma per    *)
(* action, which shows that P, m and Q exist behind the step as well; the  *)
(* third computes Chain from them.                                         *)
(***************************************************************************)
EXTENDS FmsProofs, FiniteSetTheorems

-----------------------------------------------------------------------------
(* First part: the sectors of a disk as two things, the pool P, the        *)
(* available sectors in the order in which their links name them, and for  *)
(* every entry i of the directory the sectors Q[i] of its file.  While     *)
(* files are written the first m sectors of P are taken: they are in P and *)
(* in a Q[i], and the disk alone, on which PUTAVL has recorded nothing,    *)
(* shows them as available.  X stands for the sectors of the directory     *)
(* itself.  The lemmas say what each way the code writes a link does to P, *)
(* m and Q: ASNNXT (TidyGrow), an empty link (TidyEnd), PUTAVL             *)
(* (TidyResync), the growth of the directory (TidyTake, TidySlots), DELETE *)
(* (TidyFree), a restart (TidyForget, TidyWalk).                           *)

\* No sector is twice in the pool, and links lead only forward in it.  A taken
\* sector may end its file, or lead to a later one that the same file took.
Pooled(L, P) ==
  /\ \A j, k \in 1..Len(P) : P[j] = P[k] => j = k
  /\ \A j \in 1..Len(P) : L[P[j]] = None \/ \E k \in 1..Len(P) : j < k /\ L[P[j]] = P[k]

\* Behind the taken sectors every link names the next sector.
InOrder(L, P, m) ==
  \A j \in 1..Len(P) : m < j /\ j < Len(P) => L[P[j]] = P[j + 1]

\* Within a file every link names the next sector.
Chained(L, Q) ==
  \A i \in DOMAIN Q : \A k \in 1..Len(Q[i]) : k < Len(Q[i]) => L[Q[i][k]] = Q[i][k + 1]

\* No sector is in two files or twice in one, none of a file is available or the
\* directory's, and none of the pool is the directory's.
Apart(P, m, Q, X) ==
  /\ \A i, j \in DOMAIN Q : \A k \in 1..Len(Q[i]), l \in 1..Len(Q[j]) :
       Q[i][k] = Q[j][l] => i = j /\ k = l
  /\ \A i \in DOMAIN Q : \A k \in 1..Len(Q[i]) :
       Q[i][k] \notin X /\ \A l \in 1..Len(P) : l > m => Q[i][k] # P[l]
  /\ \A l \in 1..Len(P) : P[l] \notin X

\* The sectors and their links are as they should be.
Tidy(L, P, m, Q, X) ==
  /\ L \in [Sector -> Addr] /\ P \in Seq(Sector) /\ m \in 0..Len(P)
  /\ Q \in [DOMAIN Q -> Seq(Sector)]
  /\ Pooled(L, P) /\ InOrder(L, P, m) /\ Chained(L, Q) /\ Apart(P, m, Q, X)

\* Sector s is nobody's, not even available.
Lost(s, P, Q, X) ==
  /\ s \notin X
  /\ \A l \in 1..Len(P) : P[l] # s
  /\ \A i \in DOMAIN Q : \A k \in 1..Len(Q[i]) : Q[i][k] # s

\* The sectors of P that are taken are in Q.
Covered(P, m, Q) ==
  \A j \in 1..m : \E i \in DOMAIN Q : \E k \in 1..Len(Q[i]) : P[j] = Q[i][k]

\* The links after the last sector of q has been linked to sector a.
Linked(L, q, a) == IF Len(q) = 0 THEN L ELSE [L EXCEPT ![q[Len(q)]] = a]

\* In Q1 file i has one more sector than in Q.
Grows(Q1, Q, i, a) == Q1 = [Q EXCEPT ![i] = Append(@, a)]

\* In Q1 file i has no sectors.
Empties(Q1, Q, i) == Q1 = [Q EXCEPT ![i] = <<>>]

\* The pool P1 is P and behind it the sectors q.
Joins(P1, P, q) ==
  /\ P1 \in Seq(Sector) /\ Len(P1) = Len(P) + Len(q)
  /\ \A j \in 1..Len(P) : P1[j] = P[j]
  /\ \A k \in 1..Len(q) : P1[Len(P) + k] = q[k]

-----------------------------------------------------------------------------
\* What Tidy says of the members.
LEMMA TidyTypes ==
  ASSUME NEW L, NEW P, NEW m, NEW Q, NEW X, Tidy(L, P, m, Q, X)
  PROVE  /\ \A s \in Sector : L[s] \in Addr
         /\ Len(P) \in Nat /\ m \in Nat /\ m <= Len(P)
         /\ \A j \in 1..Len(P) : P[j] \in Sector
         /\ \A i \in DOMAIN Q : Q[i] \in Seq(Sector) /\ Len(Q[i]) \in Nat
         /\ \A i \in DOMAIN Q : \A k \in 1..Len(Q[i]) : Q[i][k] \in Sector
         /\ None \notin Sector
  <1>1. \A i \in DOMAIN Q : Q[i] \in Seq(Sector)
    BY DEF Tidy
  <1>2. \A i \in DOMAIN Q : Len(Q[i]) \in Nat /\ \A k \in 1..Len(Q[i]) : Q[i][k] \in Sector
    BY <1>1
  <1>3. None \notin Sector
    BY SizeAssumption DEF Sector, None
  <1>4. Len(P) \in Nat /\ \A j \in 1..Len(P) : P[j] \in Sector
    BY DEF Tidy
  <1>5. m \in Nat /\ m <= Len(P)
    BY <1>4 DEF Tidy
  <1>6. \A s \in Sector : L[s] \in Addr
    BY DEF Tidy
  <1> QED  BY <1>1, <1>2, <1>3, <1>4, <1>5, <1>6

\* Writing an empty link into the last sector of a file.
LEMMA TidyEnd ==
  ASSUME NEW L, NEW P, NEW m, NEW Q, NEW X, Tidy(L, P, m, Q, X),
         NEW i \in DOMAIN Q, Len(Q[i]) > 0
  PROVE  Tidy(Linked(L, Q[i], None), P, m, Q, X)
  <1> DEFINE e == Q[i][Len(Q[i])]
             L1 == [L EXCEPT ![e] = None]
  <1>0. /\ L \in [Sector -> Addr] /\ P \in Seq(Sector) /\ m \in 0..Len(P)
        /\ Q \in [DOMAIN Q -> Seq(Sector)] /\ Len(P) \in Nat /\ m \in Nat
        /\ \A j \in DOMAIN Q : Len(Q[j]) \in Nat
        /\ \A j \in DOMAIN Q : \A k \in 1..Len(Q[j]) : Q[j][k] \in Sector
        /\ \A j \in 1..Len(P) : P[j] \in Sector
    BY DEF Tidy
  <1>1. e \in Sector
    BY <1>0
  <1>2. /\ L1 \in [Sector -> Addr]
        /\ \A s \in Sector : L1[s] = IF s = e THEN None ELSE L[s]
    BY <1>0, <1>1 DEF Addr
  <1>3. Pooled(L1, P)
    BY <1>0, <1>2 DEF Tidy, Pooled
  <1>4. InOrder(L1, P, m)
    <2> SUFFICES ASSUME NEW j \in 1..Len(P), m < j, j < Len(P)  PROVE L1[P[j]] = P[j + 1]
      BY DEF InOrder
    <2>1. P[j] # e /\ P[j] \in Sector
      BY <1>0 DEF Tidy, Apart
    <2> QED  BY <1>2, <2>1 DEF Tidy, InOrder
  <1>5. Chained(L1, Q)
    <2> SUFFICES ASSUME NEW j \in DOMAIN Q, NEW k \in 1..Len(Q[j]), k < Len(Q[j])
                 PROVE  L1[Q[j][k]] = Q[j][k + 1]
      BY DEF Chained
    <2>1. Q[j][k] # e /\ Q[j][k] \in Sector
      BY <1>0 DEF Tidy, Apart
    <2> QED  BY <1>2, <2>1 DEF Tidy, Chained
  <1>6. Tidy(L1, P, m, Q, X)
    BY <1>0, <1>2, <1>3, <1>4, <1>5 DEF Tidy
  <1>7. Linked(L, Q[i], None) = L1
    BY <1>0 DEF Linked
  <1> HIDE DEF L1
  <1> QED  BY <1>6, <1>7

\* A file takes the next sector of the pool; its last sector is linked to it.
LEMMA TidyGrow ==
  ASSUME NEW L, NEW P, NEW m, NEW Q, NEW X, Tidy(L, P, m, Q, X),
         NEW i \in DOMAIN Q, m < Len(P), NEW Q1, Grows(Q1, Q, i, P[m + 1])
  PROVE  Tidy(Linked(L, Q[i], P[m + 1]), P, m + 1, Q1, X)
  <1> DEFINE n == Len(Q[i])
             e == Q[i][n]
             a == P[m + 1]
             r == Append(Q[i], a)
             L1 == Linked(L, Q[i], a)
  <1> USE DEF Grows
  <1>0. /\ Q \in [DOMAIN Q -> Seq(Sector)] /\ L \in [Sector -> Addr]
        /\ Len(P) \in Nat /\ m \in Nat /\ a \in Sector /\ m + 1 \in 1..Len(P)
        /\ \A j \in 1..Len(P) : P[j] \in Sector
        /\ \A j \in DOMAIN Q : Q[j] \in Seq(Sector) /\ Len(Q[j]) \in Nat
        /\ \A j \in DOMAIN Q : \A k \in 1..Len(Q[j]) : Q[j][k] \in Sector
    BY TidyTypes DEF Tidy
  <1>1. /\ r \in Seq(Sector) /\ Len(r) = n + 1 /\ n \in Nat /\ r[n + 1] = a
        /\ \A k \in 1..n : r[k] = Q[i][k]
    BY <1>0, AppendProperties
  <1>2. /\ Q1 \in [DOMAIN Q -> Seq(Sector)] /\ DOMAIN Q1 = DOMAIN Q
        /\ \A j \in DOMAIN Q : Q1[j] = IF j = i THEN r ELSE Q[j]
    BY <1>0, <1>1 DEF Grows
  <1> HIDE DEF r
  <1>3. /\ L1 \in [Sector -> Addr]
        /\ \A s \in Sector : L1[s] = IF n > 0 /\ s = e THEN a ELSE L[s]
        /\ n > 0 => e \in Sector
    <2>1. CASE n = 0
      BY <1>0, <2>1 DEF Linked
    <2>2. CASE n > 0
      <3>1. e \in Sector
        BY <1>0, <2>2
      <3> QED  BY <1>0, <2>2, <3>1 DEF Addr, Linked
    <2> QED  BY <1>1, <2>1, <2>2
  <1> HIDE DEF L1
  <1>4. \A j \in DOMAIN Q : \A k \in 1..Len(Q[j]) : Q[j][k] # a /\ Q[j][k] \notin X
    BY <1>0 DEF Tidy, Apart
  <1>5. Pooled(L1, P)
    <2> SUFFICES ASSUME NEW j \in 1..Len(P)
                 PROVE  L1[P[j]] = None \/ \E k \in 1..Len(P) : j < k /\ L1[P[j]] = P[k]
      BY DEF Pooled, Tidy
    <2>1. CASE n > 0 /\ P[j] = e
      <3>1. ~(j > m)
        BY <1>0, <1>1, <2>1 DEF Tidy, Apart
      <3> QED  BY <1>0, <1>3, <2>1, <3>1
    <2>2. CASE ~(n > 0 /\ P[j] = e)
      BY <1>0, <1>3, <2>2 DEF Tidy, Pooled
    <2> QED  BY <2>1, <2>2
  <1>6. InOrder(L1, P, m + 1)
    <2> SUFFICES ASSUME NEW j \in 1..Len(P), m + 1 < j, j < Len(P)  PROVE L1[P[j]] = P[j + 1]
      BY DEF InOrder
    <2>0. j > m /\ P[j] \in Sector
      BY <1>0
    <2>1. ~(n > 0 /\ P[j] = e)
      <3> SUFFICES ASSUME n > 0  PROVE e # P[j]
        OBVIOUS
      <3>1. n \in 1..n
        BY <1>1
      <3> QED  BY <2>0, <3>1 DEF Tidy, Apart
    <2>2. L1[P[j]] = L[P[j]]
      BY <1>3, <2>0, <2>1
    <2> QED  BY <2>2, <2>0, <1>0 DEF Tidy, InOrder
  <1>7. Chained(L1, Q1)
    <2> SUFFICES ASSUME NEW j \in DOMAIN Q, NEW k \in 1..Len(Q1[j]), k < Len(Q1[j])
                 PROVE  L1[Q1[j][k]] = Q1[j][k + 1]
      BY <1>2 DEF Chained
    <2>1. CASE j = i /\ k = n
      BY <1>0, <1>1, <1>2, <1>3, <2>1
    <2>2. CASE ~(j = i /\ k = n)
      <3>1. /\ k \in 1..Len(Q[j]) /\ k < Len(Q[j])
            /\ Q1[j][k] = Q[j][k] /\ Q1[j][k + 1] = Q[j][k + 1]
        <4>1. CASE j = i
          <5>1. Len(Q1[j]) = n + 1 /\ k \in 1..n /\ k < n /\ k + 1 \in 1..n
            BY <1>0, <1>1, <1>2, <2>2, <4>1
          <5> QED  BY <1>1, <1>2, <4>1, <5>1
        <4>2. CASE j # i
          <5>1. Q1[j] = Q[j] /\ Len(Q[j]) \in Nat
            BY <1>0, <1>2, <4>2
          <5> QED  BY <5>1
        <4> QED  BY <4>1, <4>2
      <3>2. ~(n > 0 /\ Q[j][k] = e)
        <4>1. n > 0 => n \in 1..Len(Q[i])
          BY <1>1
        <4>2. Q[j][k] = e /\ n > 0 => j = i /\ k = n
          BY <3>1, <4>1 DEF Tidy, Apart
        <4> QED  BY <2>2, <4>2
      <3> QED  BY <1>0, <1>3, <3>1, <3>2 DEF Tidy, Chained
    <2> QED  BY <2>1, <2>2
  <1>8. Apart(P, m + 1, Q1, X)
    <2>1. ASSUME NEW j \in DOMAIN Q, NEW h \in DOMAIN Q, NEW k \in 1..Len(Q1[j]),
                 NEW l \in 1..Len(Q1[h]), Q1[j][k] = Q1[h][l]
          PROVE  j = h /\ k = l
      <3>1. CASE (j = i /\ k = n + 1) \/ (h = i /\ l = n + 1)
        BY <1>0, <1>1, <1>2, <1>4, <2>1, <3>1
      <3>2. CASE ~(j = i /\ k = n + 1) /\ ~(h = i /\ l = n + 1)
        <4>1. /\ k \in 1..Len(Q[j]) /\ l \in 1..Len(Q[h])
              /\ Q1[j][k] = Q[j][k] /\ Q1[h][l] = Q[h][l]
          BY <1>0, <1>1, <1>2, <3>2
        <4> QED  BY <2>1, <4>1 DEF Tidy, Apart
      <3> QED  BY <3>1, <3>2
    <2>2. ASSUME NEW j \in DOMAIN Q, NEW k \in 1..Len(Q1[j])
          PROVE  Q1[j][k] \notin X /\ \A l \in 1..Len(P) : l > m + 1 => Q1[j][k] # P[l]
      <3>1. CASE j = i /\ k = n + 1
        <4>1. a \notin X
          BY <1>0 DEF Tidy, Apart
        <4>2. \A l \in 1..Len(P) : l > m + 1 => a # P[l]
          BY <1>0 DEF Tidy, Pooled
        <4> QED  BY <1>1, <1>2, <3>1, <4>1, <4>2
      <3>2. CASE ~(j = i /\ k = n + 1)
        <4>1. k \in 1..Len(Q[j]) /\ Q1[j][k] = Q[j][k]
          BY <1>0, <1>1, <1>2, <3>2
        <4>2. \A l \in 1..Len(P) : l > m + 1 => l > m
          BY <1>0
        <4> QED  BY <4>1, <4>2 DEF Tidy, Apart
      <3> QED  BY <3>1, <3>2
    <2> QED  BY <1>2, <2>1, <2>2 DEF Tidy, Apart
  <1>10. P \in Seq(Sector) /\ m + 1 \in 0..Len(P)
    BY <1>0 DEF Tidy
  <1>11. Tidy(L1, P, m + 1, Q1, X)
    BY <1>2, <1>3, <1>5, <1>6, <1>7, <1>8, <1>10 DEF Tidy
  <1> QED  BY <1>11 DEF L1

\* The sector that the file took is not lost.
LEMMA GrowLost ==
  ASSUME NEW L, NEW P, NEW m, NEW Q, NEW X, Tidy(L, P, m, Q, X),
         NEW i \in DOMAIN Q, m < Len(P), NEW Q1, Grows(Q1, Q, i, P[m + 1])
  PROVE  \A s : Lost(s, P, Q1, X) <=> Lost(s, P, Q, X)
  <1> DEFINE n == Len(Q[i])
             r == Append(Q[i], P[m + 1])
  <1>0. /\ Len(P) \in Nat /\ m \in Nat /\ m + 1 \in 1..Len(P) /\ P[m + 1] \in Sector
        /\ \A j \in DOMAIN Q : Q[j] \in Seq(Sector) /\ Len(Q[j]) \in Nat
    BY TidyTypes
  <1>1. /\ Len(r) = n + 1 /\ n \in Nat /\ r[n + 1] = P[m + 1]
        /\ \A k \in 1..n : r[k] = Q[i][k]
    BY <1>0, AppendProperties
  <1>2. DOMAIN Q1 = DOMAIN Q /\ \A j \in DOMAIN Q : Q1[j] = IF j = i THEN r ELSE Q[j]
    BY DEF Tidy, Grows
  <1> HIDE DEF r
  <1>3. ASSUME NEW s  PROVE Lost(s, P, Q1, X) <=> Lost(s, P, Q, X)
    <2>1. ASSUME Lost(s, P, Q, X)  PROVE Lost(s, P, Q1, X)
      <3> SUFFICES ASSUME NEW j \in DOMAIN Q, NEW k \in 1..Len(Q1[j])  PROVE Q1[j][k] # s
        BY <1>2, <2>1 DEF Lost
      <3>1. CASE j = i /\ k = n + 1
        BY <1>0, <1>1, <1>2, <2>1, <3>1 DEF Lost
      <3>2. CASE ~(j = i /\ k = n + 1)
        BY <1>0, <1>1, <1>2, <2>1, <3>2 DEF Lost
      <3> QED  BY <3>1, <3>2
    <2>2. ASSUME Lost(s, P, Q1, X)  PROVE Lost(s, P, Q, X)
      <3> SUFFICES ASSUME NEW j \in DOMAIN Q, NEW k \in 1..Len(Q[j])  PROVE Q[j][k] # s
        BY <2>2 DEF Lost
      <3>1. k \in 1..Len(Q1[j]) /\ Q1[j][k] = Q[j][k]
        BY <1>0, <1>1, <1>2
      <3> QED  BY <1>2, <2>2, <3>1 DEF Lost
    <2> QED  BY <2>1, <2>2
  <1> QED  BY <1>3

\* The chain of available sectors ends.
LEMMA TidyLast ==
  ASSUME NEW L, NEW P, NEW m, NEW Q, NEW X, Tidy(L, P, m, Q, X), Len(P) > 0
  PROVE  L[P[Len(P)]] = None
  <1>1. Len(P) \in Nat
    BY DEF Tidy
  <1> QED  BY <1>1 DEF Tidy, Pooled

\* P1 is what follows the first m elements of P.
Rest(P1, P, m) ==
  P1 \in Seq(Sector) /\ Len(P1) = Len(P) - m /\ \A j \in 1..Len(P1) : P1[j] = P[m + j]

\* There is such a rest.
LEMMA RestExists ==
  ASSUME NEW P \in Seq(Sector), NEW m \in 0..Len(P)
  PROVE  Rest(SubSeq(P, m + 1, Len(P)), P, m)
  BY DEF Rest

\* The pool begins again behind the sectors that were taken from it.
LEMMA TidyResync ==
  ASSUME NEW L, NEW P, NEW m, NEW Q, NEW X, Tidy(L, P, m, Q, X), Covered(P, m, Q),
         NEW P1, Rest(P1, P, m)
  PROVE  /\ Tidy(L, P1, 0, Q, X)
         /\ \A s : Lost(s, P1, Q, X) <=> Lost(s, P, Q, X)
  <1>0. /\ P \in Seq(Sector) /\ Len(P) \in Nat /\ m \in Nat /\ m <= Len(P)
        /\ \A j \in 1..Len(P) : P[j] \in Sector
    BY TidyTypes DEF Tidy
  <1>1. /\ P1 \in Seq(Sector) /\ Len(P1) = Len(P) - m /\ Len(P1) \in Nat
        /\ \A j \in 1..Len(P1) : P1[j] = P[m + j] /\ m + j \in 1..Len(P)
    BY <1>0 DEF Rest
  <1>2. \A j, k \in 1..Len(P1) : P1[j] = P1[k] => j = k
    BY <1>0, <1>1 DEF Tidy, Pooled
  <1>3. \A j \in 1..Len(P1) : j < Len(P1) => L[P1[j]] = P1[j + 1]
    <2> SUFFICES ASSUME NEW j \in 1..Len(P1), j < Len(P1)  PROVE L[P1[j]] = P1[j + 1]
      OBVIOUS
    <2>1. /\ m + j \in 1..Len(P) /\ m < m + j /\ m + j < Len(P) /\ j + 1 \in 1..Len(P1)
          /\ m + (j + 1) = (m + j) + 1
      BY <1>0, <1>1
    <2> QED  BY <1>1, <2>1 DEF Tidy, InOrder
  <1>4. Pooled(L, P1)
    <2> SUFFICES ASSUME NEW j \in 1..Len(P1)
                 PROVE  L[P1[j]] = None \/ \E k \in 1..Len(P1) : j < k /\ L[P1[j]] = P1[k]
      BY <1>2 DEF Pooled
    <2>1. CASE j < Len(P1)
      <3>1. j + 1 \in 1..Len(P1) /\ j < j + 1
        BY <1>1, <2>1
      <3> QED  BY <1>3, <2>1, <3>1
    <2>2. CASE j = Len(P1)
      <3>1. m + j = Len(P) /\ Len(P) > 0
        BY <1>0, <1>1, <2>2
      <3> QED  BY <1>1, <3>1, TidyLast
    <2> QED  BY <1>1, <2>1, <2>2
  <1>5. Apart(P1, 0, Q, X)
    <2>1. \A j \in 1..Len(P1) : m + j \in 1..Len(P) /\ m + j > m /\ P1[j] = P[m + j]
      BY <1>0, <1>1
    <2>2. \A i \in DOMAIN Q : \A k \in 1..Len(Q[i]) : \A j \in 1..Len(P1) : Q[i][k] # P1[j]
      BY <2>1 DEF Tidy, Apart
    <2>3. \A j \in 1..Len(P1) : P1[j] \notin X
      BY <2>1 DEF Tidy, Apart
    <2> QED  BY <2>2, <2>3 DEF Tidy, Apart
  <1>6. InOrder(L, P1, 0) /\ 0 \in 0..Len(P1)
    <2>1. 0 \in 0..Len(P1)
      BY <1>1
    <2>2. InOrder(L, P1, 0)
      BY <1>3 DEF InOrder
    <2> QED  BY <2>1, <2>2
  <1>7. Tidy(L, P1, 0, Q, X)
    BY <1>1, <1>4, <1>5, <1>6 DEF Tidy
  <1>8. ASSUME NEW s  PROVE Lost(s, P1, Q, X) <=> Lost(s, P, Q, X)
    <2>1. ASSUME Lost(s, P, Q, X)  PROVE Lost(s, P1, Q, X)
      BY <1>1, <2>1 DEF Lost
    <2>2. ASSUME Lost(s, P1, Q, X)  PROVE Lost(s, P, Q, X)
      <3> SUFFICES ASSUME NEW l \in 1..Len(P)  PROVE P[l] # s
        BY <2>2 DEF Lost
      <3>1. CASE l <= m
        <4>1. l \in 1..m
          BY <1>0, <3>1
        <4> QED  BY <2>2, <4>1 DEF Lost, Covered
      <3>2. CASE l > m
        <4>1. l - m \in 1..Len(P1) /\ m + (l - m) = l
          BY <1>0, <1>1, <3>2
        <4>2. P1[l - m] = P[l]
          BY <1>1, <4>1
        <4> QED  BY <2>2, <4>1, <4>2 DEF Lost
      <3> QED  BY <1>0, <3>1, <3>2
    <2> QED  BY <2>1, <2>2
  <1> QED  BY <1>1, <1>7, <1>8

\* The directory takes the first sector of the pool.
LEMMA TidyTake ==
  ASSUME NEW L, NEW P, NEW Q, NEW X, Tidy(L, P, 0, Q, X), Len(P) > 0,
         NEW P1, Rest(P1, P, 1), NEW X1, X1 = X \cup {P[1]}
  PROVE  /\ Tidy(L, P1, 0, Q, X1)
         /\ \A s : Lost(s, P1, Q, X1) <=> Lost(s, P, Q, X)
  <1>0. /\ P \in Seq(Sector) /\ Len(P) \in Nat /\ 1 \in 1..Len(P)
        /\ \A j \in 1..Len(P) : P[j] \in Sector
    BY TidyTypes DEF Tidy
  <1>1. /\ P1 \in Seq(Sector) /\ Len(P1) = Len(P) - 1 /\ Len(P1) \in Nat
        /\ \A j \in 1..Len(P1) : P1[j] = P[j + 1] /\ j + 1 \in 1..Len(P) /\ j + 1 # 1
    BY <1>0 DEF Rest
  <1>2. \A j, k \in 1..Len(P1) : P1[j] = P1[k] => j = k
    BY <1>0, <1>1 DEF Tidy, Pooled
  <1>3. \A j \in 1..Len(P1) : j < Len(P1) => L[P1[j]] = P1[j + 1]
    <2> SUFFICES ASSUME NEW j \in 1..Len(P1), j < Len(P1)  PROVE L[P1[j]] = P1[j + 1]
      OBVIOUS
    <2>1. /\ j + 1 \in 1..Len(P) /\ 0 < j + 1 /\ j + 1 < Len(P) /\ j + 1 \in 1..Len(P1)
      BY <1>0, <1>1
    <2> QED  BY <1>1, <2>1 DEF Tidy, InOrder
  <1>4. Pooled(L, P1)
    <2> SUFFICES ASSUME NEW j \in 1..Len(P1)
                 PROVE  L[P1[j]] = None \/ \E k \in 1..Len(P1) : j < k /\ L[P1[j]] = P1[k]
      BY <1>2 DEF Pooled
    <2>1. CASE j < Len(P1)
      <3>1. j + 1 \in 1..Len(P1) /\ j < j + 1
        BY <1>1, <2>1
      <3> QED  BY <1>3, <2>1, <3>1
    <2>2. CASE j = Len(P1)
      <3>1. j + 1 = Len(P) /\ Len(P) > 0
        BY <1>0, <1>1, <2>2
      <3> QED  BY <1>1, <3>1, TidyLast
    <2> QED  BY <1>1, <2>1, <2>2
  <1>5. Apart(P1, 0, Q, X1)
    <2>1. \A i \in DOMAIN Q : \A k \in 1..Len(Q[i]) : Q[i][k] # P[1]
      BY <1>0 DEF Tidy, Apart
    <2>2. \A j \in 1..Len(P1) : P1[j] # P[1]
      BY <1>0, <1>1 DEF Tidy, Pooled
    <2>3. \A j \in 1..Len(P1) : j + 1 \in 1..Len(P) /\ j + 1 > 0 /\ P1[j] = P[j + 1]
      BY <1>0, <1>1
    <2> QED  BY <2>1, <2>2, <2>3 DEF Tidy, Apart
  <1>6. InOrder(L, P1, 0) /\ 0 \in 0..Len(P1)
    <2>1. 0 \in 0..Len(P1)
      BY <1>1
    <2>2. InOrder(L, P1, 0)
      BY <1>3 DEF InOrder
    <2> QED  BY <2>1, <2>2
  <1>7. Tidy(L, P1, 0, Q, X1)
    BY <1>1, <1>4, <1>5, <1>6 DEF Tidy
  <1>8. ASSUME NEW s  PROVE Lost(s, P1, Q, X1) <=> Lost(s, P, Q, X)
    <2>1. ASSUME Lost(s, P, Q, X)  PROVE Lost(s, P1, Q, X1)
      BY <1>0, <1>1, <2>1 DEF Lost
    <2>2. ASSUME Lost(s, P1, Q, X1)  PROVE Lost(s, P, Q, X)
      <3> SUFFICES ASSUME NEW l \in 1..Len(P)  PROVE P[l] # s
        BY <2>2 DEF Lost
      <3>1. CASE l = 1
        BY <2>2, <3>1 DEF Lost
      <3>2. CASE l # 1
        <4>1. l - 1 \in 1..Len(P1) /\ (l - 1) + 1 = l
          BY <1>0, <1>1, <3>2
        <4>2. P1[l - 1] = P[l]
          BY <1>1, <4>1
        <4> QED  BY <2>2, <4>1, <4>2 DEF Lost
      <3> QED  BY <3>1, <3>2
    <2> QED  BY <2>1, <2>2
  <1> QED  BY <1>1, <1>7, <1>8

\* The links after the link of sector s was written.
Relinked(L, s, a) == [L EXCEPT ![s] = a]

\* A link that is written outside the pool and the files.
LEMMA TidyOutside ==
  ASSUME NEW L, NEW P, NEW m, NEW Q, NEW X, Tidy(L, P, m, Q, X),
         NEW s, NEW a \in Addr,
         \A l \in 1..Len(P) : P[l] # s,
         \A i \in DOMAIN Q : \A k \in 1..Len(Q[i]) : Q[i][k] # s
  PROVE  Tidy(Relinked(L, s, a), P, m, Q, X)
  <1> DEFINE L1 == Relinked(L, s, a)
  <1>1. L1 \in [Sector -> Addr] /\ \A t \in Sector : t # s => L1[t] = L[t]
    BY DEF Tidy, Relinked
  <1>2. \A j \in 1..Len(P) : P[j] \in Sector /\ L1[P[j]] = L[P[j]]
    BY <1>1, TidyTypes
  <1>3. \A i \in DOMAIN Q : \A k \in 1..Len(Q[i]) : L1[Q[i][k]] = L[Q[i][k]]
    BY <1>1, TidyTypes
  <1> HIDE DEF L1
  <1>4. Pooled(L1, P)
    BY <1>2 DEF Tidy, Pooled
  <1>5. InOrder(L1, P, m)
    BY <1>2 DEF Tidy, InOrder
  <1>6. Chained(L1, Q)
    BY <1>3 DEF Tidy, Chained
  <1>7. Tidy(L1, P, m, Q, X)
    BY <1>1, <1>4, <1>5, <1>6 DEF Tidy
  <1> QED  BY <1>7 DEF L1

\* Q1 has the beginnings of the files of Q.
Begins(Q1, Q) ==
  /\ Q1 \in [DOMAIN Q -> Seq(Sector)]
  /\ \A i \in DOMAIN Q : Len(Q1[i]) <= Len(Q[i]) /\ \A k \in 1..Len(Q1[i]) : Q1[i][k] = Q[i][k]

\* Files may lose sectors at their ends.
LEMMA TidyForget ==
  ASSUME NEW L, NEW P, NEW m, NEW Q, NEW X, Tidy(L, P, m, Q, X), NEW Q1, Begins(Q1, Q)
  PROVE  /\ Tidy(L, P, m, Q1, X)
         /\ \A s : Lost(s, P, Q, X) => Lost(s, P, Q1, X)
  <1>1. DOMAIN Q1 = DOMAIN Q /\ Q1 \in [DOMAIN Q1 -> Seq(Sector)]
    BY DEF Begins
  <1>2. \A i \in DOMAIN Q : Len(Q1[i]) \in Nat /\ Len(Q[i]) \in Nat
    <2>1. \A i \in DOMAIN Q : Q1[i] \in Seq(Sector)
      BY DEF Begins
    <2> QED  BY <2>1, TidyTypes
  <1>3. \A i \in DOMAIN Q : \A k \in 1..Len(Q1[i]) : k \in 1..Len(Q[i]) /\ Q1[i][k] = Q[i][k]
    BY <1>2 DEF Begins
  <1>4. \A i \in DOMAIN Q : \A k \in 1..Len(Q1[i]) : k < Len(Q1[i]) =>
          k + 1 \in 1..Len(Q1[i]) /\ k < Len(Q[i])
    BY <1>2 DEF Begins
  <1>5. Chained(L, Q1)
    BY <1>1, <1>3, <1>4 DEF Tidy, Chained
  <1>6. Apart(P, m, Q1, X)
    BY <1>1, <1>3 DEF Tidy, Apart
  <1>7. Tidy(L, P, m, Q1, X)
    BY <1>1, <1>5, <1>6 DEF Tidy
  <1>8. \A s : Lost(s, P, Q, X) => Lost(s, P, Q1, X)
    BY <1>1, <1>3 DEF Lost
  <1> QED  BY <1>7, <1>8

\* The files of a directory with more entries.
Wider(Q1, Q, D) == Q1 = [i \in D |-> IF i \in DOMAIN Q THEN Q[i] ELSE <<>>]

\* More directory entries, which have no sectors.
LEMMA TidySlots ==
  ASSUME NEW L, NEW P, NEW m, NEW Q, NEW X, Tidy(L, P, m, Q, X),
         NEW D, DOMAIN Q \subseteq D, NEW Q1, Wider(Q1, Q, D)
  PROVE  /\ Tidy(L, P, m, Q1, X)
         /\ \A s : Lost(s, P, Q1, X) <=> Lost(s, P, Q, X)
  <1>1. DOMAIN Q1 = D /\ \A i \in D : Q1[i] = IF i \in DOMAIN Q THEN Q[i] ELSE <<>>
    BY DEF Wider
  <1>2. \A i \in D : Q1[i] \in Seq(Sector)
    <2> SUFFICES ASSUME NEW i \in D  PROVE Q1[i] \in Seq(Sector)
      OBVIOUS
    <2>1. CASE i \in DOMAIN Q
      BY <1>1, <2>1, TidyTypes
    <2>2. CASE i \notin DOMAIN Q
      <3>1. Q1[i] = <<>>
        BY <1>1, <2>2
      <3>2. <<>> \in Seq(Sector)
        OBVIOUS
      <3> QED  BY <3>1, <3>2
    <2> QED  BY <2>1, <2>2
  <1>3. \A i \in D : \A k \in 1..Len(Q1[i]) : i \in DOMAIN Q /\ Q1[i] = Q[i]
    BY <1>1
  <1>4. Chained(L, Q1)
    BY <1>1, <1>3 DEF Tidy, Chained
  <1>5. Apart(P, m, Q1, X)
    BY <1>1, <1>3 DEF Tidy, Apart
  <1>6. Q1 \in [DOMAIN Q1 -> Seq(Sector)]
    BY <1>1, <1>2 DEF Wider
  <1>7. Tidy(L, P, m, Q1, X)
    BY <1>4, <1>5, <1>6 DEF Tidy
  <1>8. \A s : Lost(s, P, Q1, X) <=> Lost(s, P, Q, X)
    BY <1>1, <1>3 DEF Lost
  <1> QED  BY <1>7, <1>8

\* There is such a pool.
LEMMA JoinsExists ==
  ASSUME NEW P \in Seq(Sector), NEW q \in Seq(Sector)
  PROVE  \E P1 : Joins(P1, P, q)
  <1> DEFINE P1 == [j \in 1..(Len(P) + Len(q)) |-> IF j <= Len(P) THEN P[j] ELSE q[j - Len(P)]]
  <1>1. Len(P) \in Nat /\ Len(q) \in Nat
    OBVIOUS
  <1>2. P1 \in Seq(Sector) /\ Len(P1) = Len(P) + Len(q)
    <2>1. \A j \in 1..(Len(P) + Len(q)) :
            (IF j <= Len(P) THEN P[j] ELSE q[j - Len(P)]) \in Sector
      BY <1>1
    <2> QED  BY <1>1, <2>1
  <1>3. \A j \in 1..Len(P) : P1[j] = P[j]
    BY <1>1
  <1>4. \A k \in 1..Len(q) : P1[Len(P) + k] = q[k]
    BY <1>1
  <1> HIDE DEF P1
  <1> QED  BY <1>2, <1>3, <1>4 DEF Joins

\* A place in a sequence is its last, or there is one behind it.
LEMMA UpTo ==
  ASSUME NEW y \in Nat, NEW j \in 1..y
  PROVE  j < y \/ j = y
  OBVIOUS

\* The sectors of a file become available again, behind the others.
LEMMA TidyFree ==
  ASSUME NEW L, NEW P, NEW Q, NEW X, Tidy(L, P, 0, Q, X),
         NEW i \in DOMAIN Q, Len(Q[i]) > 0, L[Q[i][Len(Q[i])]] = None,
         NEW P1, Joins(P1, P, Q[i]), NEW Q1, Empties(Q1, Q, i)
  PROVE  Tidy(Linked(L, P, Q[i][1]), P1, 0, Q1, X)
  <1> DEFINE n == Len(P)
             q == Q[i]
             z == Len(q)
             L1 == Linked(L, P, q[1])
  <1>0. /\ P \in Seq(Sector) /\ q \in Seq(Sector) /\ n \in Nat /\ z \in Nat /\ z > 0
        /\ L \in [Sector -> Addr] /\ Q \in [DOMAIN Q -> Seq(Sector)]
        /\ \A j \in 1..n : P[j] \in Sector
        /\ \A k \in 1..z : q[k] \in Sector
    BY TidyTypes DEF Tidy
  <1>1. Len(P1) = n + z /\ Len(P1) \in Nat
    BY <1>0 DEF Joins
  <1>2. \A j \in 1..n : P1[j] = P[j] /\ j \in 1..(n + z)
    BY <1>0 DEF Joins
  <1>3. \A k \in 1..z : P1[n + k] = q[k] /\ n + k \in 1..(n + z)
    BY <1>0 DEF Joins
  <1>4. \A j \in 1..(n + z) : j \notin 1..n =>
          j - n \in 1..z /\ j = n + (j - n) /\ P1[j] = q[j - n]
    <2> SUFFICES ASSUME NEW j \in 1..(n + z), j \notin 1..n
                 PROVE  j - n \in 1..z /\ j = n + (j - n) /\ P1[j] = q[j - n]
      OBVIOUS
    <2>1. j - n \in 1..z /\ j = n + (j - n)
      BY <1>0
    <2> QED  BY <1>3, <2>1
  <1>5. /\ \A k \in 1..z : \A l \in 1..n : q[k] # P[l]
        /\ \A k \in 1..z : q[k] \notin X
        /\ \A l \in 1..n : P[l] \notin X
    <2>1. \A l \in 1..n : l > 0
      BY <1>0
    <2> QED  BY <2>1 DEF Tidy, Apart
  <1>6. /\ \A j, k \in 1..n : P[j] = P[k] => j = k
        /\ \A j, k \in 1..z : q[j] = q[k] => j = k
    BY DEF Tidy, Pooled, Apart
  <1>7. /\ DOMAIN Q1 = DOMAIN Q /\ Q1 \in [DOMAIN Q1 -> Seq(Sector)] /\ Len(Q1[i]) = 0
        /\ \A j \in DOMAIN Q : \A k \in 1..Len(Q1[j]) : j # i /\ Q1[j] = Q[j]
    BY <1>0 DEF Empties
  <1> HIDE DEF q
  <1>8. /\ L1 \in [Sector -> Addr]
        /\ \A s \in Sector : L1[s] = IF n > 0 /\ s = P[n] THEN q[1] ELSE L[s]
    <2>1. CASE n = 0
      BY <1>0, <2>1 DEF Linked
    <2>2. CASE n > 0
      <3>1. P[n] \in Sector /\ q[1] \in Sector
        BY <1>0, <2>2
      <3>2. L1 = [L EXCEPT ![P[n]] = q[1]]
        BY <1>0, <2>2 DEF Linked
      <3> HIDE DEF L1
      <3> QED  BY <1>0, <2>2, <3>1, <3>2 DEF Addr
    <2> QED  BY <1>0, <2>1, <2>2
  <1> HIDE DEF L1
  <1>9. \A j \in 1..(n + z) : j < n + z => L1[P1[j]] = P1[j + 1]
    <2> SUFFICES ASSUME NEW j \in 1..(n + z), j < n + z  PROVE L1[P1[j]] = P1[j + 1]
      OBVIOUS
    <2>1. CASE j < n
      <3>1. j \in 1..n /\ n \in 1..n /\ j + 1 \in 1..n /\ j # n /\ 0 < j
        BY <1>0, <2>1
      <3>2. L[P[j]] = P[j + 1]
        BY <2>1, <3>1 DEF Tidy, InOrder
      <3>3. P[j] # P[n]
        BY <1>6, <3>1
      <3> QED  BY <1>0, <1>2, <1>8, <3>1, <3>2, <3>3
    <2>2. CASE j = n
      <3>1. j \in 1..n /\ 1 \in 1..z /\ n > 0 /\ P[j] \in Sector
        BY <1>0, <2>2
      <3> QED  BY <1>2, <1>3, <1>8, <2>2, <3>1
    <2>3. CASE j > n
      <3> DEFINE k == j - n
      <3>0. j \notin 1..n
        BY <1>0, <2>3
      <3>1. k \in 1..z /\ j = n + k
        BY <1>4, <3>0
      <3> HIDE DEF k
      <3>2. k < z /\ k + 1 \in 1..z /\ j + 1 = n + (k + 1)
        BY <1>0, <3>1
      <3>3. L[q[k]] = q[k + 1]
        BY <3>1, <3>2 DEF Tidy, Chained, q
      <3>4. L1[q[k]] = L[q[k]]
        <4>1. n > 0 => n \in 1..n
          BY <1>0
        <4> QED  BY <1>0, <1>5, <1>8, <3>1, <4>1
      <3> QED  BY <1>3, <3>1, <3>2, <3>3, <3>4
    <2>4. j < n \/ j = n \/ j > n
      BY <1>0
    <2> QED  BY <2>1, <2>2, <2>3, <2>4
  <1>10. L1[P1[n + z]] = None
    <2>1. z \in 1..z /\ (n > 0 => n \in 1..n)
      BY <1>0
    <2>2. P1[n + z] = q[z] /\ L[q[z]] = None
      BY <1>3, <2>1 DEF q
    <2> QED  BY <1>0, <1>5, <1>8, <2>1, <2>2
  <1>11. \A j, k \in 1..(n + z) : P1[j] = P1[k] => j = k
    <2> TAKE j, k \in 1..(n + z)
    <2>1. CASE j \in 1..n /\ k \in 1..n
      BY <1>2, <1>6, <2>1
    <2>2. CASE j \in 1..n /\ k \notin 1..n
      <3>1. P1[j] = P[j] /\ P1[k] = q[k - n] /\ k - n \in 1..z
        BY <1>2, <1>4, <2>2
      <3>2. q[k - n] # P[j]
        BY <1>5, <2>2, <3>1
      <3> QED  BY <3>1, <3>2
    <2>3. CASE j \notin 1..n /\ k \in 1..n
      <3>1. P1[k] = P[k] /\ P1[j] = q[j - n] /\ j - n \in 1..z
        BY <1>2, <1>4, <2>3
      <3>2. q[j - n] # P[k]
        BY <1>5, <2>3, <3>1
      <3> QED  BY <3>1, <3>2
    <2>4. CASE j \notin 1..n /\ k \notin 1..n
      <3>1. j - n \in 1..z /\ k - n \in 1..z /\ P1[j] = q[j - n] /\ P1[k] = q[k - n]
        BY <1>4, <2>4, Zenon
      <3>2. P1[j] = P1[k] => j - n = k - n
        BY <1>6, <3>1, Zenon
      <3> QED  BY <1>0, <3>2
    <2> QED  BY <2>1, <2>2, <2>3, <2>4
  <1>12. Pooled(L1, P1)
    <2> SUFFICES ASSUME NEW j \in 1..(n + z)
                 PROVE  L1[P1[j]] = None \/ \E k \in 1..(n + z) : j < k /\ L1[P1[j]] = P1[k]
      <3>1. Len(P1) = n + z
        BY <1>1
      <3> QED  BY <1>11, <3>1, Zenon DEF Pooled
    <2>1. CASE j < n + z
      <3>1. j + 1 \in 1..(n + z) /\ j < j + 1
        BY <1>0, <2>1
      <3> QED  BY <1>9, <2>1, <3>1
    <2>2. CASE j = n + z
      BY <1>10, <2>2
    <2>3. j < n + z \/ j = n + z
      BY <1>1, UpTo, Zenon
    <2> QED  BY <2>1, <2>2, <2>3
  <1>13. InOrder(L1, P1, 0)
    BY <1>1, <1>9 DEF InOrder
  <1>14. Chained(L1, Q1)
    <2> SUFFICES ASSUME NEW j \in DOMAIN Q, NEW k \in 1..Len(Q1[j]), k < Len(Q1[j])
                 PROVE  L1[Q1[j][k]] = Q1[j][k + 1]
      BY <1>7 DEF Chained
    <2>1. j # i /\ Q1[j] = Q[j]
      BY <1>7
    <2>2. Q[j][k] \in Sector /\ L[Q[j][k]] = Q[j][k + 1]
      BY <2>1, TidyTypes DEF Tidy, Chained
    <2>3. n > 0 => Q[j][k] # P[n]
      <3>1. n > 0 => n \in 1..n
        BY <1>0
      <3>2. \A l \in 1..n : l > 0 => Q[j][k] # P[l]
        BY <2>1 DEF Tidy, Apart
      <3> QED  BY <3>1, <3>2
    <2> QED  BY <1>8, <2>1, <2>2, <2>3
  <1>15. Apart(P1, 0, Q1, X)
    <2>1. \A j, h \in DOMAIN Q1 : \A k \in 1..Len(Q1[j]), l \in 1..Len(Q1[h]) :
             Q1[j][k] = Q1[h][l] => j = h /\ k = l
      BY <1>7 DEF Tidy, Apart
    <2>2. ASSUME NEW j \in DOMAIN Q1, NEW k \in 1..Len(Q1[j])
          PROVE  Q1[j][k] \notin X /\ \A l \in 1..(n + z) : Q1[j][k] # P1[l]
      <3>1. j # i /\ j \in DOMAIN Q /\ Q1[j] = Q[j]
        BY <1>7, <2>2
      <3>2. \A l \in 1..n : Q[j][k] # P[l]
        <4>1. \A l \in 1..n : l > 0
          BY <1>0
        <4>2. \A l \in 1..n : l > 0 => Q[j][k] # P[l]
          BY <2>2, <3>1 DEF Tidy, Apart
        <4> QED  BY <4>1, <4>2
      <3>3. \A l \in 1..z : Q[j][k] # q[l]
        BY <3>1 DEF Tidy, Apart, q
      <3>4. Q[j][k] \notin X
        BY <3>1 DEF Tidy, Apart
      <3>5. \A l \in 1..(n + z) : Q[j][k] # P1[l]
        BY <1>2, <1>4, <3>2, <3>3, Zenon
      <3> QED  BY <3>1, <3>4, <3>5
    <2>3. \A l \in 1..(n + z) : P1[l] \notin X
      BY <1>2, <1>4, <1>5, Zenon
    <2> QED  BY <1>1, <2>1, <2>2, <2>3 DEF Apart
  <1>16. 0 \in 0..Len(P1)
    BY <1>0, <1>1
  <1>17. Tidy(L1, P1, 0, Q1, X)
    BY <1>1, <1>7, <1>8, <1>12, <1>13, <1>14, <1>15, <1>16 DEF Tidy, Joins
  <1> QED  BY <1>17 DEF L1, q

\* The sectors of that file are not lost.
LEMMA FreeLost ==
  ASSUME NEW L, NEW P, NEW Q, NEW X, Tidy(L, P, 0, Q, X), NEW i \in DOMAIN Q,
         NEW P1, Joins(P1, P, Q[i]), NEW Q1, Empties(Q1, Q, i)
  PROVE  \A s : Lost(s, P1, Q1, X) <=> Lost(s, P, Q, X)
  <1> DEFINE n == Len(P)
             q == Q[i]
             z == Len(q)
  <1>0. n \in Nat /\ z \in Nat /\ Q \in [DOMAIN Q -> Seq(Sector)]
    BY TidyTypes DEF Tidy
  <1>1. Len(P1) = n + z /\ Len(P1) \in Nat
    BY <1>0 DEF Joins
  <1>2. \A j \in 1..n : P1[j] = P[j] /\ j \in 1..(n + z)
    BY <1>0 DEF Joins
  <1>3. \A k \in 1..z : P1[n + k] = q[k] /\ n + k \in 1..(n + z)
    BY <1>0 DEF Joins
  <1>4. \A j \in 1..(n + z) : j \notin 1..n =>
          j - n \in 1..z /\ j = n + (j - n) /\ P1[j] = q[j - n]
    <2> SUFFICES ASSUME NEW j \in 1..(n + z), j \notin 1..n
                 PROVE  j - n \in 1..z /\ j = n + (j - n) /\ P1[j] = q[j - n]
      OBVIOUS
    <2>1. j - n \in 1..z /\ j = n + (j - n)
      BY <1>0
    <2> QED  BY <1>3, <2>1
  <1>7. /\ DOMAIN Q1 = DOMAIN Q /\ Len(Q1[i]) = 0
        /\ \A j \in DOMAIN Q : \A k \in 1..Len(Q1[j]) : j # i /\ Q1[j] = Q[j]
    BY <1>0 DEF Empties
  <1> HIDE DEF q
  <1>18. ASSUME NEW s  PROVE Lost(s, P1, Q1, X) <=> Lost(s, P, Q, X)
    <2>1. ASSUME Lost(s, P, Q, X)  PROVE Lost(s, P1, Q1, X)
      <3>0. (\A l \in 1..n : P[l] # s) /\ (\A k \in 1..z : q[k] # s)
        BY <2>1 DEF Lost, q
      <3>1. \A l \in 1..(n + z) : P1[l] # s
        BY <1>2, <1>4, <3>0, Zenon
      <3>2. \A j \in DOMAIN Q1 : \A k \in 1..Len(Q1[j]) : Q1[j][k] # s
        BY <1>7, <2>1 DEF Lost
      <3> QED  BY <1>1, <2>1, <3>1, <3>2 DEF Lost
    <2>2. ASSUME Lost(s, P1, Q1, X)  PROVE Lost(s, P, Q, X)
      <3>1. \A l \in 1..n : P[l] # s
        BY <1>1, <1>2, <2>2 DEF Lost
      <3>2. ASSUME NEW j \in DOMAIN Q, NEW k \in 1..Len(Q[j])  PROVE Q[j][k] # s
        <4>1. CASE j = i
          BY <1>1, <1>3, <2>2, <4>1, <3>2 DEF Lost, q
        <4>2. CASE j # i
          <5>1. Q1[j] = Q[j]
            BY <4>2 DEF Empties
          <5> QED  BY <1>7, <2>2, <3>2, <5>1 DEF Lost
        <4> QED  BY <4>1, <4>2
      <3> QED  BY <2>2, <3>1, <3>2 DEF Lost
    <2> QED  BY <2>1, <2>2
  <1> QED  BY <1>18

\* What the links of the pool lead through from its j-th sector on.
IsWalk(L, P, j, w) ==
  /\ Len(w) > 0 /\ w[1] = P[j]
  /\ \A k \in 1..Len(w) : \E l \in 1..Len(P) : j <= l /\ w[k] = P[l]
  /\ \A k, l \in 1..Len(w) : w[k] = w[l] => k = l
  /\ \A k \in 1..Len(w) : k < Len(w) => L[w[k]] = w[k + 1]
  /\ L[w[Len(w)]] = None

\* A sector before a walk, linked to its first, makes a longer walk.
LEMMA LongerWalk ==
  ASSUME NEW L, NEW P \in Seq(Sector), Pooled(L, P), NEW j \in 1..Len(P),
         NEW k \in 1..Len(P), j < k, L[P[j]] = P[k],
         NEW v \in Seq(Sector), IsWalk(L, P, k, v),
         NEW w \in Seq(Sector), Len(w) = Len(v) + 1, w[1] = P[j],
         \A x \in 1..Len(v) : w[x + 1] = v[x]
  PROVE  IsWalk(L, P, j, w)
  <1>1. Len(v) \in Nat /\ Len(w) \in Nat /\ Len(P) \in Nat
    OBVIOUS
  <1>2. \A x \in 1..Len(w) : x # 1 => x - 1 \in 1..Len(v) /\ (x - 1) + 1 = x
    BY <1>1
  <1>3. \A x \in 1..Len(w) : x # 1 => w[x] = v[x - 1]
    BY <1>2
  <1>4. \A x \in 1..Len(v) : \E l \in 1..Len(P) : k <= l /\ v[x] = P[l]
    BY DEF IsWalk
  <1>5. ASSUME NEW x \in 1..Len(w)  PROVE \E l \in 1..Len(P) : j <= l /\ w[x] = P[l]
    <2>1. CASE x = 1
      BY <2>1
    <2>2. CASE x # 1
      <3>1. x - 1 \in 1..Len(v) /\ w[x] = v[x - 1]
        BY <1>2, <1>3, <1>5, <2>2
      <3>2. PICK l \in 1..Len(P) : k <= l /\ v[x - 1] = P[l]
        BY <1>4, <3>1
      <3>3. j <= l
        BY <3>2
      <3> QED  BY <3>1, <3>2, <3>3
    <2> QED  BY <2>1, <2>2
  <1>6. \A x \in 1..Len(w) : x # 1 => w[x] # w[1]
    <2> SUFFICES ASSUME NEW x \in 1..Len(w), x # 1  PROVE w[x] # P[j]
      OBVIOUS
    <2>1. x - 1 \in 1..Len(v) /\ w[x] = v[x - 1]
      BY <1>2, <1>3
    <2>2. PICK l \in 1..Len(P) : k <= l /\ v[x - 1] = P[l]
      BY <1>4, <2>1
    <2>3. l # j
      BY <2>2
    <2> QED  BY <2>1, <2>2, <2>3 DEF Pooled
  <1>7. ASSUME NEW x \in 1..Len(w), NEW y \in 1..Len(w), w[x] = w[y]  PROVE x = y
    <2>1. CASE x = 1 \/ y = 1
      BY <1>6, <1>7, <2>1
    <2>2. CASE x # 1 /\ y # 1
      <3>1. /\ x - 1 \in 1..Len(v) /\ y - 1 \in 1..Len(v)
            /\ v[x - 1] = v[y - 1]
        BY <1>2, <1>3, <1>7, <2>2
      <3>2. x - 1 = y - 1
        BY <3>1 DEF IsWalk
      <3> QED  BY <3>2
    <2> QED  BY <2>1, <2>2
  <1>8. ASSUME NEW x \in 1..Len(w), x < Len(w)  PROVE L[w[x]] = w[x + 1]
    <2>1. CASE x = 1
      <3>1. 1 \in 1..Len(v)
        BY <1>1 DEF IsWalk
      <3>2. w[1 + 1] = v[1] /\ v[1] = P[k]
        BY <3>1 DEF IsWalk
      <3> QED  BY <2>1, <3>2
    <2>2. CASE x # 1
      <3>1. x - 1 \in 1..Len(v) /\ (x - 1) + 1 = x /\ w[x] = v[x - 1]
        BY <1>2, <1>3, <1>8, <2>2
      <3>2. x - 1 < Len(v) /\ x \in 1..Len(v) /\ w[x + 1] = v[x]
        BY <1>1, <1>8, <2>2
      <3>3. L[v[x - 1]] = v[(x - 1) + 1]
        BY <3>1, <3>2 DEF IsWalk
      <3> QED  BY <3>1, <3>2, <3>3
    <2> QED  BY <2>1, <2>2
  <1>9. L[w[Len(w)]] = None
    <2>1. Len(v) \in 1..Len(v)
      BY <1>1 DEF IsWalk
    <2>2. w[Len(v) + 1] = v[Len(v)]
      BY <2>1
    <2> QED  BY <2>2 DEF IsWalk
  <1>10. Len(w) > 0
    BY <1>1
  <1> QED  BY <1>5, <1>7, <1>8, <1>9, <1>10 DEF IsWalk

\* Links that lead forward come to an end: there is a walk from every sector.
LEMMA WalkExists ==
  ASSUME NEW L, NEW P \in Seq(Sector), Pooled(L, P), NEW i \in 1..Len(P)
  PROVE  \E w \in Seq(Sector) : IsWalk(L, P, i, w)
  <1> DEFINE Walkable(j) == \E w \in Seq(Sector) : IsWalk(L, P, j, w)
             Bad == {d \in Nat : d < Len(P) /\ ~Walkable(Len(P) - d)}
  <1>0. Len(P) \in Nat /\ \A j \in 1..Len(P) : P[j] \in Sector
    OBVIOUS
  <1>1. CASE Bad = {}
    <2>1. Len(P) - i \in Nat /\ Len(P) - i < Len(P) /\ Len(P) - (Len(P) - i) = i
      BY <1>0
    <2> QED  BY <1>1, <2>1
  <1>2. CASE Bad # {}
    <2> DEFINE d == Min(Bad)
               j == Len(P) - d
    <2>1. d \in Bad /\ \A y \in Bad : d <= y
      <3>1. Bad \subseteq Nat
        OBVIOUS
      <3> HIDE DEF Bad
      <3> QED  BY <1>2, <3>1, MinOfNat, Zenon
    <2>2. j \in 1..Len(P) /\ ~Walkable(j) /\ d \in Nat
      <3> HIDE DEF Walkable, d
      <3>1. d \in Nat /\ d < Len(P) /\ ~Walkable(Len(P) - d)
        BY <2>1
      <3> QED  BY <1>0, <3>1
    <2>3. \A k \in 1..Len(P) : j < k => Walkable(k)
      <3> SUFFICES ASSUME NEW k \in 1..Len(P), j < k, ~Walkable(k)  PROVE FALSE
        OBVIOUS
      <3>1. /\ Len(P) - k \in Nat /\ Len(P) - k < Len(P) /\ Len(P) - (Len(P) - k) = k
            /\ ~(d <= Len(P) - k)
        BY <1>0, <2>2
      <3>2. Len(P) - k \in Bad
        BY <3>1
      <3> QED  BY <2>1, <3>1, <3>2
    <2> HIDE DEF d, j
    <2>4. CASE L[P[j]] = None
      <3>1. <<P[j]>> \in Seq(Sector) /\ Len(<<P[j]>>) = 1 /\ <<P[j]>>[1] = P[j]
        BY <1>0, <2>2
      <3> DEFINE w == <<P[j]>>
      <3> HIDE DEF w
      <3>2. w \in Seq(Sector) /\ Len(w) = 1 /\ w[1] = P[j]
        BY <3>1 DEF w
      <3>3. \A k \in 1..Len(w) : k = 1
        BY <3>2
      <3>4. j <= j
        BY <2>2
      <3>5. IsWalk(L, P, j, w)
        BY <2>2, <2>4, <3>2, <3>3, <3>4 DEF IsWalk
      <3> QED  BY <2>2, <3>2, <3>5
    <2>5. CASE L[P[j]] # None
      <3>1. PICK k \in 1..Len(P) : j < k /\ L[P[j]] = P[k]
        BY <2>2, <2>5 DEF Pooled
      <3>2. PICK v \in Seq(Sector) : IsWalk(L, P, k, v)
        BY <2>3, <3>1
      <3>3. \E w \in Seq(Sector) : /\ Len(w) = Len(v) + 1 /\ w[1] = P[j]
                                   /\ \A x \in 1..Len(v) : w[x + 1] = v[x]
        <4> DEFINE w == <<P[j]>> \o v
        <4>1. <<P[j]>> \in Seq(Sector) /\ Len(<<P[j]>>) = 1 /\ <<P[j]>>[1] = P[j]
          BY <1>0, <2>2
        <4>2. /\ w \in Seq(Sector) /\ Len(w) = 1 + Len(v)
              /\ \A x \in 1..(1 + Len(v)) : w[x] = IF x <= 1 THEN <<P[j]>>[x] ELSE v[x - 1]
          BY <4>1, ConcatProperties
        <4> HIDE DEF w
        <4>3. Len(v) \in Nat
          OBVIOUS
        <4>4. w[1] = P[j]
          BY <4>1, <4>2, <4>3
        <4>5. \A x \in 1..Len(v) : w[x + 1] = v[x]
          BY <4>2, <4>3
        <4> QED  BY <4>2, <4>3, <4>4, <4>5
      <3>4. PICK w \in Seq(Sector) : /\ Len(w) = Len(v) + 1 /\ w[1] = P[j]
                                     /\ \A x \in 1..Len(v) : w[x + 1] = v[x]
        BY <3>3
      <3>5. IsWalk(L, P, j, w)
        BY <2>2, <3>1, <3>2, <3>4, LongerWalk
      <3> QED  BY <2>2, <3>5
    <2> QED  BY <2>4, <2>5
  <1> QED  BY <1>1, <1>2

\* A restart: the files end where the directory says and the available sectors
\* are those the links lead to from the first one.
LEMMA TidyWalk ==
  ASSUME NEW L, NEW P, NEW m, NEW Q, NEW X, Tidy(L, P, m, Q, X), Len(P) > 0,
         \A j \in 1..Len(P) : \A i \in DOMAIN Q : \A k \in 1..Len(Q[i]) : P[j] # Q[i][k]
  PROVE  \E P1 : /\ Tidy(L, P1, 0, Q, X) /\ Len(P1) > 0 /\ P1[1] = P[1]
                 /\ \A s : Lost(s, P, Q, X) => Lost(s, P1, Q, X)
                 /\ P[Len(P)] = P1[Len(P1)] \/ Lost(P[Len(P)], P1, Q, X)
  <1>0. P \in Seq(Sector) /\ Pooled(L, P) /\ Len(P) \in Nat /\ 1 \in 1..Len(P)
    BY DEF Tidy
  <1>1. PICK w \in Seq(Sector) : IsWalk(L, P, 1, w)
    BY <1>0, WalkExists
  <1>2. \A k \in 1..Len(w) : w[k] \in Sector /\ \E l \in 1..Len(P) : w[k] = P[l]
    BY <1>1 DEF IsWalk
  <1>3. Len(w) \in Nat /\ Len(w) > 0 /\ Len(w) \in 1..Len(w)
    BY <1>1 DEF IsWalk
  <1>4. Pooled(L, w)
    <2> SUFFICES ASSUME NEW j \in 1..Len(w)
                 PROVE  L[w[j]] = None \/ \E k \in 1..Len(w) : j < k /\ L[w[j]] = w[k]
      BY <1>1 DEF IsWalk, Pooled
    <2>1. CASE j < Len(w)
      <3>1. j + 1 \in 1..Len(w) /\ j < j + 1
        BY <1>3, <2>1
      <3> QED  BY <1>1, <2>1, <3>1 DEF IsWalk
    <2>2. CASE j = Len(w)
      BY <1>1, <2>2 DEF IsWalk
    <2>3. j < Len(w) \/ j = Len(w)
      BY <1>3, UpTo, Zenon
    <2> QED  BY <2>1, <2>2, <2>3
  <1>5. InOrder(L, w, 0)
    BY <1>1 DEF InOrder, IsWalk
  <1>6. Apart(w, 0, Q, X)
    <2>1. \A k \in 1..Len(w) : w[k] \notin X
      BY <1>2 DEF Tidy, Apart
    <2>2. \A i \in DOMAIN Q : \A k \in 1..Len(Q[i]) : \A l \in 1..Len(w) : Q[i][k] # w[l]
      BY <1>2
    <2> QED  BY <2>1, <2>2 DEF Tidy, Apart
  <1>7. 0 \in 0..Len(w)
    BY <1>3
  <1>8. Tidy(L, w, 0, Q, X)
    BY <1>4, <1>5, <1>6, <1>7 DEF Tidy
  <1>9. \A s : Lost(s, P, Q, X) => Lost(s, w, Q, X)
    BY <1>2 DEF Lost
  <1>10. P[Len(P)] = w[Len(w)] \/ Lost(P[Len(P)], w, Q, X)
    <2> SUFFICES ASSUME NEW k \in 1..Len(w), w[k] = P[Len(P)]  PROVE P[Len(P)] = w[Len(w)]
      <3>1. Len(P) \in 1..Len(P)
        BY <1>0
      <3> QED  BY <3>1 DEF Lost, Tidy, Apart
    <2>1. L[w[k]] = None
      BY TidyLast
    <2>2. CASE k < Len(w)
      <3>1. k + 1 \in 1..Len(w) /\ L[w[k]] = w[k + 1]
        BY <1>1, <1>3, <2>2 DEF IsWalk
      <3> QED  BY <1>2, <2>1, <3>1, TidyTypes
    <2>3. CASE k = Len(w)
      BY <2>3
    <2> QED  BY <1>3, <2>2, <2>3, UpTo
  <1> QED  BY <1>1, <1>3, <1>8, <1>9, <1>10 DEF IsWalk

-----------------------------------------------------------------------------
(* Second part: the entries, the blocks and the maps, and the actions.     *)

\* An entry, or a block, describes the beginning of the file q.
Describes(e, q) ==
  /\ e.fsz <= Len(q)
  /\ e.fsz = 0 <=> e.fsa = None
  /\ e.fsz > 0 => e.fsa = q[1] /\ e.fea = q[e.fsz]

\* A block that writes knows the end of its file, which the entry does not yet.
Writes(b, q) ==
  Describes(b, q) /\ b.fsz = Len(q) /\ b.fwd = None /\ (b.fsa # None => b.fcs = b.fea)

\* A block that reads is at a sector of its file, or before its first.  Behind a
\* failed read the next link may still be the one that led to the sector.
ReadsAt(b, q, L) ==
  IF b.fcs = None THEN b.fwd # None => \E k \in 1..Len(q) : b.fwd = q[k]
  ELSE /\ \E k \in 1..Len(q) : b.fcs = q[k]
       /\ b.fwd = L[b.fcs] \/ (b.fwd = b.fcs /\ b.fsb # "own")

\* A block in the list reads or writes a file that exists, or waits for the
\* directory to grow.
BlockAt(f, Q) ==
  Listed(f) =>
    IF fcb[f].fcd = 0 THEN call.op = "extend" /\ call.f = f
    ELSE /\ fcb[f].fcd \in Files
         /\ fcb[f].fas = 2 => Writes(fcb[f], Q[fcb[f].fcd])
         /\ fcb[f].fas \in {1, 3, 131} => ReadsAt(fcb[f], Q[fcb[f].fcd], link)

\* CLOSE of file i, or of block f, is between two writes.
Closing(i) == call.op = "close" /\ fcb[call.f].fcd = i
Closes(f) == call.op = "close" /\ call.f = f

\* Nobody writes file i, or its entry has just been written.
Whole(i) ==
  \/ \A f \in Writers : fcb[f].fcd # i
  \/ Closing(i) /\ call.next = "sir"

\* An entry describes the beginning of its file, and all of it unless a block
\* writes it; then the file ends with an empty link.  Other entries own nothing.
EntryAt(i, Q) ==
  IF i \in Files
    THEN /\ Describes(dir[i], Q[i])
         /\ Whole(i) => dir[i].fsz = Len(Q[i])
         /\ Len(Q[i]) > 0 /\ (dir[i].fsz = Len(Q[i]) \/ Closing(i)) =>
              link[Q[i][Len(Q[i])]] = None
    ELSE Q[i] = <<>>

\* A call that changes the available sectors has not recorded it yet.
Torn ==
  \/ call.op = "close" /\ call.next = "sir"
  \/ call.op = "delete"
  \/ call.op = "extend" /\ call.next \in {"clear", "sir"}

\* The map names the first available sector behind m taken ones and the last.
\* After a restart last may be a sector that is lost: the directory knows its
\* file without it.
MapIs(map, P, m, Q, X) ==
  IF m = Len(P) THEN map = NoAvail
  ELSE /\ map.first = P[m + 1]
       /\ map.last # None /\ (map.last = P[Len(P)] \/ Lost(map.last, P, Q, X))

\* SECMAP is behind the taken sectors, the record on the disk before them.
MapsAre(P, m, Q) ==
  /\ loaded => MapIs(secmap, P, m, Q, DirExt)
  /\ ~loaded => m = 0 /\ secmap = NoAvail /\ Writers = {}
  /\ Torn => m = 0 /\ loaded
  /\ ~Torn => MapIs(sir, P, 0, Q, DirExt)

\* A taken sector is one of a file, behind what its entry records.
TakenAt(P, m, Q) ==
  \A j \in 1..m : \E i \in Files : \E k \in 1..Len(Q[i]) : dir[i].fsz < k /\ P[j] = Q[i][k]

\* Unless writers were cut off, the counts are exact and no sector is lost.
Exact(P, m, Q) ==
  ~lossy =>
    /\ loaded => secmap.count = Len(P) - m
    /\ ~Torn => sir.count = Len(P)
    /\ \A s \in Sector : ~Lost(s, P, Q, DirExt)

\* P, m and Q are what the disk and the system go by.
Owns(P, m, Q) ==
  /\ Tidy(link, P, m, Q, DirExt) /\ DOMAIN Q = 1..Len(dir)
  /\ \A i \in 1..Len(dir) : EntryAt(i, Q)
  /\ \A f \in Fcb : BlockAt(f, Q)
  /\ MapsAre(P, m, Q) /\ TakenAt(P, m, Q) /\ Exact(P, m, Q)

\* What the callers' habits give: a file has one block, no append was refused, and
\* without appends a block that writes is at a new file.
Sharing ==
  /\ \A f, g \in Fcb : Listed(f) /\ Listed(g) /\ fcb[f].fcd = fcb[g].fcd => f = g
  /\ \A f \in Fcb : fcb[f].fas # WTAPP
  /\ "append" \in Modes \/ \A f \in Writers : Closes(f) \/ dir[fcb[f].fcd].fsa = None

\* The directory grows by sectors of the disk; what a call has done before its
\* next write.
Extension ==
  /\ dirext \in Seq(Sector)
  /\ call.op = "delete" /\ call.next = "sir" => call.slot \notin Live
  /\ call.op = "extend" => loaded /\ (call.next = "clear" => Len(dirext) > 0)

\* The inductive invariant.
Layout == Sharing /\ Extension /\ \E P, m, Q : Owns(P, m, Q)

\* The callers and disk errors for which the invariant holds.  Without "share" an
\* open file can be deleted, without "reopen" a writer is forgotten, without
\* "exhausted" GETAVL hands sectors out twice, without "unread" a sector that was
\* not read is written, and without "power" FLEX starts again from a disk that is
\* torn (Window).  The other errors do break it: a data write ("write") that fails
\* leaves its link in the buffer for CLOSE to write; "assign" leaves a sector of
\* the block available; DELNAM ("delete") and PUTAVL ("avail", "excls") leave a
\* file or a record behind that the map does not know of; a failed WRTDIR or
\* PUTAVL of a program's CLOSE ("entry", "record") is repaired when CLOSE is
\* repeated, unless that fails too.  A program that appends must have the map
\* loaded, and a failure while it does leaves its links in a file that was
\* complete, for EXCLS to stop at and FMSINT to forget.
Callers ==
  /\ {"reopen", "share", "exhausted", "unread", "power"} \subseteq Discipline
  /\ FaultAt \subseteq {"open", "grow", "read", "update", "empty", "data", "link", "rename"}
  /\ "append" \in Modes =>
       "append" \in Discipline /\ FaultAt \cap {"update", "empty", "data"} = {}

-----------------------------------------------------------------------------
\* The entries and which of them are files, from the type invariant.
LEMMA LiveInDir ==
  ASSUME Types
  PROVE  /\ Len(dir) \in Nat /\ DOMAIN dir = 1..Len(dir)
         /\ Files \subseteq 1..Len(dir)
         /\ \A i \in 1..Len(dir) : dir[i] \in DirEntry
         /\ \A i \in Files : dir[i].name \in Names
         /\ \A i \in 1..Len(dir) : dir[i].name \in Names /\ call.op # "delete" => i \in Files
  <1>1. Len(dir) \in Nat /\ DOMAIN dir = 1..Len(dir) /\ \A i \in 1..Len(dir) : dir[i] \in DirEntry
    BY DEF Types
  <1>2. \A i \in Files : dir[i].name \in Names /\ i \in 1..Len(dir)
    BY <1>1 DEF Files, Live, DirEntry, Name
  <1>3. \A i \in 1..Len(dir) : dir[i].name \in Names /\ call.op # "delete" => i \in Files
    BY <1>1, NameAssumption DEF Files, Live
  <1> QED  BY <1>1, <1>2, <1>3

\* With such callers and errors a block that may be written has its own sector in
\* the buffer, and no CLOSE stops behind the data sector.
LEMMA OwnBuffer ==
  ASSUME Types, Callers, NEW f \in Fcb
  PROVE  fcb[f].fsb \in {"own", "old"} /\ ~HalfClosed(f)
         /\ (fcb[f].fas \in {2, 131} => fcb[f].fsb = "own")
  <1>1. fcb[f] \in Fields /\ Buffered(fcb[f])
    BY DEF Types, Block
  <1>2. fcb[f].fsb \in {"own", "old", "dir", "sir"}
    BY <1>1 DEF Fields
  <1> QED  BY <1>1, <1>2 DEF Buffered, Callers, HalfClosed

\* The new disk has all its sectors available, in order.
LEMMA InitLayout == Init => Layout
  <1> SUFFICES ASSUME Init  PROVE Layout
    OBVIOUS
  <1> DEFINE P == [j \in 1..Sectors |-> j]
             Q == [i \in 1..DirSlots |-> <<>>]
  <1>0. /\ Sectors \in Nat \ {0} /\ DirSlots \in Nat \ {0}
        /\ fcblist = <<>> /\ \A f \in Fcb : ~Listed(f)
    BY SizeAssumption DEF Init, Listed, Range
  <1>1. /\ P \in Seq(Sector) /\ Len(P) = Sectors /\ \A j \in 1..Sectors : P[j] = j
    BY <1>0 DEF Sector
  <1>2. /\ DOMAIN Q = 1..DirSlots /\ Q \in [DOMAIN Q -> Seq(Sector)]
        /\ \A i \in 1..DirSlots : Q[i] = <<>>
    OBVIOUS
  <1>3. /\ Len(dir) = DirSlots
        /\ \A i \in 1..DirSlots : dir[i].name = Never
        /\ call.op = "idle" /\ ~loaded /\ secmap = NoAvail /\ DirExt = {}
        /\ \A f \in Fcb : fcb[f].fas = 0
        /\ sir.first = 1 /\ sir.last = Sectors /\ sir.count = Sectors
    BY <1>0 DEF Init, NoFile, Entry, Idle, DirExt, Range, Blank
  <1>4. /\ link \in [Sector -> Addr]
        /\ \A j \in Sector : link[j] = IF j = Sectors THEN None ELSE j + 1
    BY <1>0 DEF Init, Sector, Addr, None
  <1> HIDE DEF P, Q
  <1>5. Files = {} /\ Writers = {} /\ ~Torn
    <2>1. \A i \in DOMAIN dir : dir[i].name = Never
      BY <1>0 DEF Init, NoFile, Entry
    <2> QED  BY <1>0, <1>3, <2>1 DEF Files, Live, Writers, Torn
  <1>6. Pooled(link, P)
    <2>1. \A j \in 1..Sectors : j # Sectors => j + 1 \in 1..Sectors /\ j < j + 1
      BY <1>0
    <2> QED  BY <1>1, <1>4, <2>1 DEF Pooled, Sector
  <1>7. InOrder(link, P, 0)
    <2> SUFFICES ASSUME NEW j \in 1..Sectors, j < Sectors  PROVE link[P[j]] = P[j + 1]
      BY <1>1 DEF InOrder
    <2>1. j \in Sector /\ j # Sectors /\ j + 1 \in 1..Sectors
      BY <1>0 DEF Sector
    <2> QED  BY <1>1, <1>4, <2>1
  <1>8. Chained(link, Q) /\ Apart(P, 0, Q, DirExt)
    BY <1>2, <1>3 DEF Chained, Apart
  <1>9. Tidy(link, P, 0, Q, DirExt)
    BY <1>0, <1>1, <1>2, <1>4, <1>6, <1>7, <1>8 DEF Tidy
  <1>10. MapsAre(P, 0, Q)
    BY <1>0, <1>1, <1>3, <1>5 DEF MapsAre, MapIs, None
  <1>11. Exact(P, 0, Q)
    BY <1>0, <1>1, <1>3 DEF Exact, Lost, Sector
  <1>12. \A i \in 1..Len(dir) : EntryAt(i, Q)
    BY <1>2, <1>3, <1>5 DEF EntryAt
  <1>13. \A f \in Fcb : BlockAt(f, Q)
    BY <1>0 DEF BlockAt
  <1>14. Owns(P, 0, Q)
    BY <1>2, <1>3, <1>9, <1>10, <1>11, <1>12, <1>13 DEF Owns, TakenAt
  <1>15. Sharing
    BY <1>0, <1>3, <1>5 DEF Sharing, WTAPP
  <1>16. Extension
    BY <1>3 DEF Init, Extension
  <1> QED  BY <1>14, <1>15, <1>16 DEF Layout

\* An entry that a step leaves alone.
LEMMA EntryKept ==
  ASSUME NEW i, NEW Q, NEW Q1, EntryAt(i, Q), Q1[i] = Q[i],
         i \in Files <=> i \in Files',
         i \in Files => dir'[i] = dir[i],
         Len(Q[i]) > 0 => \/ link'[Q[i][Len(Q[i])]] = link[Q[i][Len(Q[i])]]
                          \/ link'[Q[i][Len(Q[i])]] = None,
         Whole(i)' => Whole(i), Closing(i)' => Closing(i)
  PROVE  EntryAt(i, Q1)'
  <1>1. CASE i \in Files
    <2>1. Describes(dir[i], Q[i])'
      BY <1>1 DEF EntryAt, Describes
    <2>2. Whole(i)' => dir'[i].fsz = Len(Q1[i])
      BY <1>1 DEF EntryAt
    <2>3. Len(Q1[i]) > 0 /\ (dir'[i].fsz = Len(Q1[i]) \/ Closing(i)') =>
            link'[Q1[i][Len(Q1[i])]] = None
      BY <1>1 DEF EntryAt
    <2> QED  BY <1>1, <2>1, <2>2, <2>3 DEF EntryAt, Describes
  <1>2. CASE i \notin Files
    BY <1>2 DEF EntryAt
  <1> QED  BY <1>1, <1>2

\* A block that a step leaves alone.
LEMMA BlockKept ==
  ASSUME NEW g, NEW Q, NEW Q1, BlockAt(g, Q), fcb'[g] = fcb[g], Listed(g)' => Listed(g),
         Listed(g) /\ fcb[g].fcd = 0 => call'.op = "extend" /\ call'.f = g,
         Listed(g) /\ fcb[g].fcd # 0 =>
           /\ fcb[g].fcd \in Files' /\ Q1[fcb[g].fcd] = Q[fcb[g].fcd]
           /\ \A k \in 1..Len(Q[fcb[g].fcd]) :
                link'[Q[fcb[g].fcd][k]] = link[Q[fcb[g].fcd][k]]
  PROVE  BlockAt(g, Q1)'
  <1> SUFFICES ASSUME Listed(g)', fcb[g].fcd # 0
               PROVE  /\ fcb[g].fcd \in Files'
                      /\ fcb[g].fas = 2 => Writes(fcb[g], Q[fcb[g].fcd])
                      /\ fcb[g].fas \in {1, 3, 131} => ReadsAt(fcb[g], Q[fcb[g].fcd], link')
    BY DEF BlockAt, Writes, ReadsAt, Describes
  <1>1. /\ fcb[g].fas = 2 => Writes(fcb[g], Q[fcb[g].fcd])
        /\ fcb[g].fas \in {1, 3, 131} => ReadsAt(fcb[g], Q[fcb[g].fcd], link)
    BY DEF BlockAt
  <1>2. ReadsAt(fcb[g], Q[fcb[g].fcd], link) => ReadsAt(fcb[g], Q[fcb[g].fcd], link')
    BY DEF ReadsAt
  <1> QED  BY <1>1, <1>2

\* The avail maps are left alone.
LEMMA SameMaps ==
  ASSUME NEW P, NEW m, NEW Q, MapsAre(P, m, Q), Exact(P, m, Q),
         UNCHANGED <<dirext, sir, secmap, loaded>>,
         Torn' <=> Torn, lossy => lossy', loaded \/ Writers' = {}
  PROVE  MapsAre(P, m, Q)' /\ Exact(P, m, Q)'
  <1>1. DirExt' = DirExt
    BY DEF DirExt
  <1>2. MapsAre(P, m, Q)'
    BY <1>1 DEF MapsAre, MapIs, Lost
  <1>3. Exact(P, m, Q)'
    BY <1>1 DEF Exact, Lost
  <1> QED  BY <1>2, <1>3

\* GETAVL gives the map the running system goes by.
LEMMA GetavlIs ==
  ASSUME Types, "exhausted" \in Discipline, call = Idle, CallerMapValid,
         NEW P, NEW m, NEW Q, Owns(P, m, Q)
  PROVE  /\ MapIs(GETAVL, P, m, Q, DirExt)
         /\ ~lossy => GETAVL.count = Len(P) - m
         /\ ~Torn
  <1>0. /\ P \in Seq(Sector) /\ Len(P) \in Nat /\ m \in Nat /\ m <= Len(P)
        /\ \A j \in 1..Len(P) : P[j] \in Sector
        /\ None \notin Sector
    BY TidyTypes DEF Owns, Tidy
  <1>1. ~Torn
    BY DEF Torn, Idle
  <1>2. MapsAre(P, m, Q) /\ Exact(P, m, Q)
    BY DEF Owns
  <1>3. CASE ~loaded
    <2>1. GETAVL = sir /\ m = 0
      BY <1>2, <1>3 DEF GETAVL, MapsAre, NoAvail
    <2> QED  BY <1>0, <1>1, <1>2, <2>1 DEF MapsAre, Exact
  <1>4. CASE loaded
    <2>1. MapIs(secmap, P, m, Q, DirExt)
      BY <1>2, <1>4 DEF MapsAre
    <2>2. secmap.first = None => sir = NoAvail /\ secmap = NoAvail
      <3> SUFFICES ASSUME secmap.first = None  PROVE sir = NoAvail /\ secmap = NoAvail
        OBVIOUS
      <3>1. sir = NoAvail
        BY <1>4 DEF CallerMapValid
      <3>2. m = Len(P)
        <4> SUFFICES ASSUME m # Len(P)  PROVE FALSE
          OBVIOUS
        <4>1. m + 1 \in 1..Len(P)
          BY <1>0
        <4> QED  BY <1>0, <2>1, <4>1 DEF MapIs
      <3> QED  BY <2>1, <3>1, <3>2 DEF MapIs
    <2>3. GETAVL = secmap
      BY <2>2 DEF GETAVL
    <2> QED  BY <1>1, <1>2, <1>4, <2>1, <2>3 DEF Exact
  <1> QED  BY <1>3, <1>4

\* The map is read again if it looks unset.
LEMMA Reloaded ==
  ASSUME Types, "exhausted" \in Discipline, call = Idle, CallerMapValid,
         NEW P, NEW m, NEW Q, Owns(P, m, Q),
         UNCHANGED <<dirext, sir, call>>, secmap' = GETAVL, loaded' = TRUE, lossy => lossy'
  PROVE  MapsAre(P, m, Q)' /\ Exact(P, m, Q)'
  <1>1. DirExt' = DirExt /\ ~Torn /\ ~Torn'
    BY GetavlIs DEF DirExt, Torn, Idle
  <1>2. MapIs(secmap', P, m, Q, DirExt)
    BY GetavlIs
  <1>3. MapsAre(P, m, Q)'
    BY <1>1, <1>2 DEF Owns, MapsAre, MapIs, Lost
  <1>4. ~lossy => GETAVL.count = Len(P) - m
    BY GetavlIs
  <1>5. Exact(P, m, Q)'
    BY <1>1, <1>4 DEF Owns, Exact, Lost
  <1> QED  BY <1>3, <1>5

\* A step that changes one block and writes no link and no entry.
LEMMA OneBlockOwns ==
  ASSUME IInv, NEW P, NEW m, NEW Q, Owns(P, m, Q),
         NEW f \in Fcb, call \in {Idle, Excls} \/ (call.op = "extend" /\ call.f = f),
         call' \in {Idle, Excls}, UNCHANGED <<link, dir, dirext>>,
         \A g \in Fcb : g # f => fcb'[g] = fcb[g] /\ (Listed(g)' <=> Listed(g)),
         f \in Writers => \/ f \in Writers' /\ fcb'[f].fcd = fcb[f].fcd
                          \/ Len(Q[fcb[f].fcd]) = 0,
         BlockAt(f, Q)', MapsAre(P, m, Q)' /\ Exact(P, m, Q)'
  PROVE  Owns(P, m, Q)'
  <1>1. DirExt' = DirExt /\ Files' = Files
    BY DEF DirExt, Files, Live, Idle, Excls
  <1>2. Tidy(link, P, m, Q, DirExt)' /\ DOMAIN Q = 1..Len(dir')
    BY <1>1 DEF Owns, Tidy, Pooled, InOrder, Chained, Apart
  <1>3. ASSUME NEW i \in 1..Len(dir')  PROVE EntryAt(i, Q)'
    <2>0. i \in 1..Len(dir) /\ EntryAt(i, Q)
      BY <1>3 DEF Owns
    <2>1. ~Closing(i) /\ ~Closing(i)'
      BY DEF Closing, Idle, Excls
    <2>2. CASE f \in Writers /\ fcb[f].fcd = i /\ Len(Q[i]) = 0
      <3>1. CASE i \in Files
        <4>1. dir[i].fsz = 0 /\ dir[i].fsa = None
          <5>1. dir[i].fsz \in Nat
            BY <2>0, LiveInDir DEF IInv, HeldIInv, DirEntry
          <5> QED  BY <2>0, <2>2, <3>1, <5>1 DEF EntryAt, Describes
        <4>2. Describes(dir'[i], Q[i])
          BY <2>0, <3>1 DEF EntryAt
        <4> QED  BY <1>1, <2>2, <3>1, <4>1, <4>2 DEF EntryAt, Describes
      <3>2. CASE i \notin Files
        BY <1>1, <2>0, <3>2 DEF EntryAt
      <3> QED  BY <3>1, <3>2
    <2>3. CASE ~(f \in Writers /\ fcb[f].fcd = i /\ Len(Q[i]) = 0)
      <3>1. Whole(i)' => Whole(i)
        <4> SUFFICES ASSUME \A g \in Writers' : fcb'[g].fcd # i, NEW g \in Writers
                     PROVE  fcb[g].fcd # i
          BY <2>1 DEF Whole
        <4>1. CASE g = f
          BY <2>3, <4>1
        <4>2. CASE g # f
          BY <4>2 DEF Writers
        <4> QED  BY <4>1, <4>2
      <3> QED  BY <1>1, <2>0, <2>1, <3>1, EntryKept
    <2> QED  BY <2>2, <2>3
  <1>4. ASSUME NEW g \in Fcb  PROVE BlockAt(g, Q)'
    <2>1. CASE g = f
      BY <2>1
    <2>2. CASE g # f
      <3>0. BlockAt(g, Q) /\ ~(call.op = "extend" /\ call.f = g)
        BY <2>2 DEF Owns, Idle, Excls
      <3>1. BlockAt(g, Q) /\ (Listed(g) => fcb[g].fcd # 0)
        BY <3>0 DEF BlockAt
      <3>2. Listed(g) => fcb[g].fcd \in Files'
        BY <1>1, <3>1 DEF BlockAt
      <3> QED  BY <2>2, <3>1, <3>2, BlockKept
    <2> QED  BY <2>1, <2>2
  <1>5. TakenAt(P, m, Q)'
    BY <1>1 DEF Owns, TakenAt
  <1> QED  BY <1>2, <1>3, <1>4, <1>5 DEF Owns

\* What programs share after a step of block f that deletes no file.
LEMMA OneBlockSharing ==
  ASSUME Sharing, NEW f \in Fcb, call.op = "close" => call.f = f,
         \A g \in Fcb : g # f => fcb'[g] = fcb[g] /\ (Listed(g)' => Listed(g)),
         fcb'[f].fas # WTAPP,
         Listed(f)' => \A g \in Fcb : g # f /\ Listed(g) => fcb[g].fcd # fcb'[f].fcd,
         \A g \in Writers : g # f => dir'[fcb[g].fcd].fsa = dir[fcb[g].fcd].fsa,
         f \in Writers' =>
           "append" \in Modes \/ Closes(f)' \/ dir'[fcb'[f].fcd].fsa = None
  PROVE  Sharing'
  <1>1. \A g, h \in Fcb : Listed(g)' /\ Listed(h)' /\ fcb'[g].fcd = fcb'[h].fcd => g = h
    <2> SUFFICES ASSUME NEW g \in Fcb, NEW h \in Fcb, Listed(g)', Listed(h)',
                        fcb'[g].fcd = fcb'[h].fcd
                 PROVE  g = h
      OBVIOUS
    <2>1. CASE g # f /\ h # f
      BY <2>1 DEF Sharing
    <2>2. CASE g = f \/ h = f
      BY <2>2
    <2> QED  BY <2>1, <2>2
  <1>2. \A g \in Fcb : fcb'[g].fas # WTAPP
    BY DEF Sharing
  <1>3. "append" \in Modes \/ \A g \in Writers' : Closes(g)' \/ dir'[fcb'[g].fcd].fsa = None
    <2> SUFFICES ASSUME "append" \notin Modes, NEW g \in Writers'
                 PROVE  Closes(g)' \/ dir'[fcb'[g].fcd].fsa = None
      OBVIOUS
    <2>1. CASE g = f
      BY <2>1
    <2>2. CASE g # f
      <3>1. g \in Writers /\ fcb'[g] = fcb[g]
        BY <2>2 DEF Writers
      <3>2. ~Closes(g)
        BY <2>2 DEF Closes
      <3> QED  BY <2>2, <3>1, <3>2 DEF Sharing
    <2> QED  BY <2>1, <2>2
  <1> QED  BY <1>1, <1>2, <1>3 DEF Sharing

\* A step that changes no link, no entry and no block.
LEMMA SameFiles ==
  ASSUME Layout, UNCHANGED <<link, dir, dirext, fcb, fcblist>>,
         UNCHANGED call \/ (call \in {Idle, Excls} /\ call' \in {Idle, Excls}),
         call'.op = "extend" /\ loaded => loaded',
         NEW P, NEW m, NEW Q, Owns(P, m, Q), MapsAre(P, m, Q)' /\ Exact(P, m, Q)'
  PROVE  Layout'
  <1>2. DirExt' = DirExt /\ Files' = Files /\ Writers' = Writers /\ Torn' = Torn
    <2>1. Files' = Files /\ Torn' = Torn
      BY DEF Files, Live, Torn, Idle, Excls
    <2> QED  BY <2>1, SameWriters DEF DirExt
  <1>3. \A i : Closing(i)' = Closing(i) /\ Whole(i)' = Whole(i)
    BY <1>2 DEF Closing, Whole, Idle, Excls
  <1>4. \A i \in 1..Len(dir) : EntryAt(i, Q)'
    BY <1>2, <1>3, EntryKept DEF Owns
  <1>5. ASSUME NEW f \in Fcb  PROVE BlockAt(f, Q)'
    <2>1. BlockAt(f, Q) /\ (Listed(f)' <=> Listed(f))
      BY DEF Owns, Listed
    <2>2. Listed(f) /\ fcb[f].fcd = 0 => UNCHANGED call /\ call.op = "extend" /\ call.f = f
      BY <2>1 DEF BlockAt, Idle, Excls
    <2>3. Listed(f) /\ fcb[f].fcd # 0 => fcb[f].fcd \in Files'
      BY <1>2, <2>1 DEF BlockAt
    <2> QED  BY <2>1, <2>2, <2>3, BlockKept
  <1>7. TakenAt(P, m, Q)'
    BY <1>2 DEF Owns, TakenAt
  <1>8. Tidy(link, P, m, Q, DirExt)'
    BY <1>2 DEF Owns, Tidy, Pooled, InOrder, Chained, Apart
  <1>9. Owns(P, m, Q)'
    BY <1>4, <1>5, <1>7, <1>8 DEF Owns
  <1>10. Sharing'
    BY <1>2 DEF Layout, Sharing, Listed, Closes, Idle, Excls
  <1>11. Extension'
    BY DEF Layout, Extension, Live, Idle, Excls
  <1> QED  BY <1>9, <1>10, <1>11 DEF Layout

\* Nothing changes that the layout depends on.
LEMMA SameLayout ==
  ASSUME Layout,
         UNCHANGED <<link, dir, dirext, sir, secmap, loaded, fcb, fcblist, lossy>>,
         UNCHANGED call \/ (call \in {Idle, Excls} /\ call' \in {Idle, Excls})
  PROVE  Layout'
  <1>1. PICK P, m, Q : Owns(P, m, Q)
    BY DEF Layout
  <1>2. Writers' = Writers /\ Torn' = Torn
    BY SameWriters DEF Torn, Idle, Excls
  <1>3. MapsAre(P, m, Q)' /\ Exact(P, m, Q)'
    BY <1>1, <1>2, SameMaps DEF Owns, MapsAre
  <1> QED  BY <1>1, <1>3, SameFiles

\* OPNWT without an entry written: the block is busy, the name exists, the entry
\* could not be written or the disk is full.
LEMMA OpenWriteFailsLayout ==
  ASSUME IInv, Callers, Layout, NEW f \in Fcb, NEW n \in Names,
         \/ OpenWriteBusy(f)
         \/ OpenWriteExists(f, n)
         \/ OpenWrite(f, n) /\ UNCHANGED <<dir, fcblist>>
         \/ DirExtend(f, n) /\ UNCHANGED call
  PROVE  Layout'
  <1>0. PICK P, m, Q : Owns(P, m, Q)
    BY DEF Layout
  <1>x. DirExtend(f, n) /\ UNCHANGED call =>
          secmap' = GETAVL /\ call = Idle /\ UNCHANGED <<dirext, fcblist>>
    <2>1. Idle.op # "extend"
      BY DEF Idle
    <2> QED  BY <2>1 DEF DirExtend, CallerOpens, CallerFree
  <1>1. call = Idle /\ call' = Idle /\ UNCHANGED <<link, dir, dirext, sir>> /\ f \notin Writers
    <2>1. CASE OpenWriteBusy(f)
      BY <2>1 DEF OpenWriteBusy, CallerOpens, CallerFree, disk, Callers
    <2>2. CASE OpenWriteExists(f, n)
      BY <2>2 DEF OpenWriteExists, CallerOpens, CallerFree, disk, Callers
    <2>3. CASE OpenWrite(f, n) /\ UNCHANGED <<dir, fcblist>>
      BY <2>3 DEF OpenWrite, CallerOpens, CallerFree, Callers
    <2>4. CASE DirExtend(f, n) /\ UNCHANGED call
      BY <1>x, <2>4 DEF DirExtend, CallerOpens, CallerFree, Callers
    <2> QED  BY <2>1, <2>2, <2>3, <2>4
  <1>2. lossy => lossy'
    BY DEF OpenWriteBusy, OpenWriteExists, OpenWrite, DirExtend
  <1>3. MapsAre(P, m, Q)' /\ Exact(P, m, Q)'
    <2>1. CASE OpenWriteBusy(f)
      <3>1. UNCHANGED <<dirext, sir, secmap, loaded>> /\ (Torn' <=> Torn)
        BY <1>1, <2>1 DEF OpenWriteBusy, disk, Torn
      <3>2. Writers' \subseteq Writers
        <4>1. UNCHANGED fcb /\ fcblist' = REMFCB(f)
          BY <2>1 DEF OpenWriteBusy
        <4>2. \A g \in Fcb : Listed(g)' => Listed(g)
          BY <4>1, RemfcbProperties DEF IInv, HeldIInv, Types, ListInv, NoTwice, Listed
        <4> QED  BY <4>1, <4>2 DEF Writers
      <3> QED  BY <1>0, <1>2, <3>1, <3>2, SameMaps DEF Owns, MapsAre
    <2>2. CASE ~OpenWriteBusy(f)
      <3>1. CallerMapValid /\ secmap' = GETAVL /\ loaded' = TRUE
        BY <1>x, <2>2 DEF OpenWriteExists, OpenWrite, DirExtend
      <3>2. "exhausted" \in Discipline
        BY DEF Callers
      <3> QED  BY <1>0, <1>1, <1>2, <3>1, <3>2, Reloaded DEF IInv, HeldIInv
    <2> QED  BY <2>1, <2>2
  <1>4. \A g \in Fcb : g # f => fcb'[g] = fcb[g] /\ (Listed(g)' <=> Listed(g))
    <2>1. CASE OpenWriteBusy(f)
      <3>1. UNCHANGED fcb /\ fcblist' = REMFCB(f)
        BY <2>1 DEF OpenWriteBusy
      <3> QED  BY <3>1, RemfcbProperties DEF IInv, HeldIInv, Types, ListInv, NoTwice, Listed
    <2>2. CASE ~OpenWriteBusy(f)
      <3>1. UNCHANGED fcblist
        BY <1>x, <2>2 DEF OpenWriteExists, OpenWrite, DirExtend
      <3>2. \A g \in Fcb : g # f => fcb'[g] = fcb[g]
        BY <2>2 DEF OpenWriteExists, OpenWrite, DirExtend, IInv, HeldIInv, Types
      <3> QED  BY <3>1, <3>2 DEF Listed
    <2> QED  BY <2>1, <2>2
  <1>5. ~Listed(f)'
    <2>1. CASE OpenWriteBusy(f)
      BY <2>1, RemfcbProperties DEF IInv, HeldIInv, Types, ListInv, NoTwice, Listed, OpenWriteBusy
    <2>2. CASE ~OpenWriteBusy(f)
      BY <1>x, <2>2 DEF OpenWriteExists, OpenWrite, DirExtend, Listed
    <2> QED  BY <2>1, <2>2
  <1>6. Owns(P, m, Q)'
    BY <1>0, <1>1, <1>3, <1>4, <1>5, OneBlockOwns DEF BlockAt
  <1>7. fcb'[f].fas # WTAPP
    <2>1. fcb'[f].fas \in {0, 2, fcb[f].fas}
      BY DEF OpenWriteBusy, OpenWriteExists, OpenWrite, DirExtend, Blank, IInv, HeldIInv, Types
    <2> QED  BY <2>1 DEF Layout, Sharing, WTAPP
  <1>8. Sharing'
    BY <1>1, <1>4, <1>5, <1>7, OneBlockSharing DEF Layout, Writers, Idle
  <1>9. Extension'
    BY <1>1 DEF Layout, Extension, Idle
  <1> QED  BY <1>6, <1>8, <1>9 DEF Layout

\* A new file: an entry that is no file's is written empty, and block f writes it.
LEMMA NewFileLayout ==
  ASSUME IInv, Layout, NEW f \in Fcb, NEW n \in Names, NEW i \in 1..Len(dir), i \notin Files,
         NEW b \in Block, b.fas = 2, b.fcd = i, b.fsa = None, b.fsz = 0, b.fwd = None,
         NEW P, NEW m, NEW Q, Owns(P, m, Q),
         call = Idle \/ (call.op = "extend" /\ call.f = f /\ call.next = "entry"), call' = Idle,
         UNCHANGED <<link, dirext>>, WriteEntry(i, NoFile(n)), f \notin Writers,
         \A g \in Fcb : fcb'[g] = IF g = f THEN b ELSE fcb[g],
         \A g \in Fcb : g # f => (Listed(g)' <=> Listed(g)),
         MapsAre(P, m, Q)' /\ Exact(P, m, Q)'
  PROVE  Layout'
  <1>1. call.op \in {"idle", "extend"} /\ i # 0
    BY LiveInDir DEF Idle, IInv, HeldIInv
  <1>5. NoFile(n) \in DirEntry /\ NoFile(n).fsa = None /\ NoFile(n).fsz = 0 /\ NoFile(n).name = n
    BY Values DEF NoFile, Entry
  <1>6. /\ Len(dir') = Len(dir) /\ dir' \in Seq(DirEntry)
        /\ \A k \in 1..Len(dir) : dir'[k] = IF k = i THEN NoFile(n) ELSE dir[k]
    BY <1>5, WriteEntryTypes DEF IInv, HeldIInv
  <1>7. Files' = Files \cup {i}
    <2>1. DOMAIN dir' = 1..Len(dir) /\ DOMAIN dir = 1..Len(dir)
      BY <1>6, LiveInDir DEF IInv, HeldIInv
    <2>2. n \notin {Deleted, Never}
      BY NameAssumption
    <2>3. call.op # "delete" /\ call'.op # "delete"
      BY <1>1 DEF Idle
    <2>4. Live' = Live \cup {i}
      BY <1>5, <1>6, <2>1, <2>2 DEF Live
    <2> QED  BY <2>3, <2>4 DEF Files
  <1>10. Tidy(link, P, m, Q, DirExt)' /\ DOMAIN Q = 1..Len(dir')
    <2>1. DirExt' = DirExt
      BY DEF DirExt
    <2> QED  BY <1>6, <2>1 DEF Owns, Tidy, Pooled, InOrder, Chained, Apart
  <1>11. EntryAt(i, Q) /\ Q[i] = <<>> /\ Len(Q[i]) = 0
    BY DEF Owns, EntryAt
  <1>12. \A g \in Writers : g \in Writers' /\ fcb'[g] = fcb[g] /\ g # f
    BY DEF Writers
  <1>13. ASSUME NEW j \in 1..Len(dir')  PROVE EntryAt(j, Q)'
    <2>1. ~Closing(j) /\ ~Closing(j)'
      BY <1>1 DEF Closing, Idle
    <2>2. CASE j = i
      BY <1>5, <1>6, <1>7, <1>11, <2>2 DEF EntryAt, Describes
    <2>3. CASE j # i
      <3>1. Whole(j)' => Whole(j)
        BY <1>12, <2>1 DEF Whole
      <3>2. j \in 1..Len(dir) /\ dir'[j] = dir[j] /\ EntryAt(j, Q) /\ (j \in Files <=> j \in Files')
        BY <1>6, <1>7, <1>13, <2>3 DEF Owns
      <3> QED  BY <2>1, <3>1, <3>2, EntryKept
    <2> QED  BY <2>2, <2>3
  <1>2. \A g \in Fcb : g # f /\ Listed(g) => fcb[g].fcd # 0
    <2>1. \A g \in Fcb : BlockAt(g, Q)
      BY DEF Owns
    <2> QED  BY <2>1 DEF BlockAt, Idle
  <1>14. ASSUME NEW g \in Fcb  PROVE BlockAt(g, Q)'
    <2>1. CASE g = f
      BY <1>1, <1>7, <1>11, <2>1 DEF BlockAt, Writes, Describes
    <2>2. CASE g # f
      <3>1. BlockAt(g, Q) /\ (Listed(g) => fcb[g].fcd # 0)
        BY <1>2, <2>2 DEF Owns
      <3>2. Listed(g) => fcb[g].fcd \in Files'
        BY <1>7, <3>1 DEF BlockAt
      <3> QED  BY <2>2, <3>1, <3>2, BlockKept
    <2> QED  BY <2>1, <2>2
  <1>15. TakenAt(P, m, Q)'
    <2>1. \A j \in Files : j \in Files' /\ dir'[j] = dir[j]
      BY <1>6, <1>7, LiveInDir DEF IInv, HeldIInv
    <2> QED  BY <2>1 DEF Owns, TakenAt
  <1>16. Owns(P, m, Q)'
    BY <1>10, <1>13, <1>14, <1>15 DEF Owns
  <1>17. Sharing'
    <2>1. \A g \in Fcb : g # f /\ Listed(g) => fcb[g].fcd \in Files
      BY <1>2 DEF Owns, BlockAt
    <2>2. \A g \in Writers : g # f => dir'[fcb[g].fcd].fsa = dir[fcb[g].fcd].fsa
      BY <1>6, <2>1, LiveInDir DEF IInv, HeldIInv, Writers
    <2>3. call.op # "close" /\ fcb'[f].fas # WTAPP
      BY <1>1 DEF WTAPP
    <2>4. \A g \in Fcb : g # f => fcb'[g] = fcb[g] /\ (Listed(g)' => Listed(g))
      OBVIOUS
    <2>5. \A g \in Fcb : g # f /\ Listed(g) => fcb[g].fcd # fcb'[f].fcd
      BY <2>1
    <2>6. dir'[fcb'[f].fcd].fsa = None
      BY <1>5, <1>6
    <2> QED  BY <2>2, <2>3, <2>4, <2>5, <2>6, OneBlockSharing DEF Layout
  <1>18. Extension'
    BY DEF Layout, Extension, Idle
  <1> QED  BY <1>16, <1>17, <1>18 DEF Layout

\* OPNWT writes an empty entry.
LEMMA OpenWriteLayout ==
  ASSUME IInv, Callers, Layout, NEW f \in Fcb, NEW n \in Names,
         OpenWrite(f, n), ~UNCHANGED <<dir, fcblist>>
  PROVE  Layout'
  <1> DEFINE i == FirstDeleted
             new == [Blank EXCEPT !.fas = 2, !.name = n, !.fcd = i]
  <1>0. PICK P, m, Q : Owns(P, m, Q)
    BY DEF Layout
  <1>1. /\ call = Idle /\ UNCHANGED <<link, dirext, sir, call, lossy>> /\ CallerMapValid /\ ~Listed(f)
        /\ secmap' = GETAVL /\ loaded' = TRUE
        /\ WriteEntry(i, NoFile(n)) /\ fcb' = [fcb EXCEPT ![f] = new] /\ fcblist' = SETFCB(f)
        /\ Reusable # {}
    BY DEF OpenWrite, CallerOpens, CallerFree
  <1>2. i \in Reusable /\ i \in 1..Len(dir)
    BY <1>1, ReusableEntry DEF IInv, HeldIInv
  <1>3. i \notin Files
    <2>1. dir[i].name \in {Deleted, Never}
      BY <1>2 DEF Reusable
    <2> QED  BY <2>1 DEF Files, Live
  <1>4. /\ new \in Block /\ new.fas = 2 /\ new.fcd = i /\ new.fsa = None /\ new.fsz = 0
        /\ new.fwd = None
    <2>1. i \in Nat
      BY <1>2, LiveInDir DEF IInv, HeldIInv
    <2> HIDE DEF i
    <2> QED  BY <2>1, Values DEF Block, Fields, Buffered, Blank
  <1> HIDE DEF i, new
  <1>8. /\ \A g \in Fcb : fcb'[g] = IF g = f THEN new ELSE fcb[g]
        /\ \A g \in Fcb : g # f => (Listed(g)' <=> Listed(g))
    BY <1>1, <1>4, BlockStep DEF IInv, HeldIInv
  <1>9. MapsAre(P, m, Q)' /\ Exact(P, m, Q)'
    <2>1. "exhausted" \in Discipline
      BY DEF Callers
    <2> QED  BY <1>0, <1>1, <2>1, Reloaded DEF IInv, HeldIInv
  <1>10. f \notin Writers
    BY <1>1 DEF Writers
  <1> QED  BY <1>0, <1>1, <1>2, <1>3, <1>4, <1>8, <1>9, <1>10, NewFileLayout

\* The open of an existing file fills the block from an entry nobody uses.
LEMMA OpenFileLayout ==
  ASSUME IInv, Callers, Layout, NEW f \in Fcb, NEW n \in Names,
         OpenRead(f, n) \/ OpenUpdate(f, n) \/ OpenAppend(f, n)
  PROVE  Layout'
  <1> DEFINE i == FNDNAM(n)
  <1>0. PICK P, m, Q : Owns(P, m, Q)
    BY DEF Layout
  <1>1. /\ ~Listed(f) /\ fcblist' = SETFCB(f) /\ CallerOwns(n) /\ Found(n) # {}
        /\ UNCHANGED <<link, dir, dirext, sir, secmap, loaded, call, lossy>> /\ call = Idle
    BY DEF OpenRead, OpenUpdate, OpenAppend, disk, CallerOpens, CallerFree
  <1>2. PICK b \in Block : fcb' = [fcb EXCEPT ![f] = b] /\ b.fcd = i
    BY <1>1, OpensBlock DEF IInv, HeldIInv
  <1>3. /\ \A g \in Fcb : fcb'[g] = IF g = f THEN b ELSE fcb[g]
        /\ \A g \in Fcb : g # f => (Listed(g)' <=> Listed(g))
        /\ Listed(f)'
    BY <1>1, <1>2, BlockStep DEF IInv, HeldIInv
  <1>4. /\ i \in 1..Len(dir) /\ dir[i] \in DirEntry /\ i \in Files /\ OpenOn(i) = {} /\ i # 0
    <2>1. i \in Found(n) /\ i \in 1..Len(dir) /\ dir[i] \in DirEntry /\ dir[i].name = n
      BY <1>1, FoundEntry DEF IInv, HeldIInv
    <2>2. OpenOn(i) = {}
      BY <1>1, <2>1 DEF CallerOwns, Callers
    <2>3. i \in Files
      BY <1>1, <2>1, LiveInDir DEF IInv, HeldIInv, Idle
    <2> QED  BY <2>1, <2>2, <2>3
  <1>5. FromEntry(i) \in Block /\ FromEntry(i).fsa = dir[i].fsa /\ FromEntry(i).fea = dir[i].fea
        /\ FromEntry(i).fsz = dir[i].fsz
        /\ FromEntry(i).fcs = None /\ FromEntry(i).fwd = None
    <2>1. FromEntry(i) \in Block
      BY <1>4, EntryBlock DEF IInv, HeldIInv
    <2> QED  BY <1>4, <2>1 DEF FromEntry, Blank
  <1>6. /\ Describes(dir[i], Q[i]) /\ dir[i].fsz = Len(Q[i]) /\ Len(Q[i]) \in Nat
        /\ Len(Q[i]) > 0 => link[Q[i][Len(Q[i])]] = None
    <2>1. EntryAt(i, Q) /\ DOMAIN Q = 1..Len(dir) /\ Tidy(link, P, m, Q, DirExt)
      BY <1>0, <1>4 DEF Owns
    <2>2. Whole(i)
      BY <1>4 DEF Whole, OpenOn, Writers
    <2>3. Len(Q[i]) \in Nat
      BY <1>4, <2>1, TidyTypes
    <2> QED  BY <1>4, <2>1, <2>2, <2>3 DEF EntryAt
  <1> HIDE DEF i
  <1>7. BlockAt(f, Q)' /\ b.fas \in {1, 2, 3} /\ (b.fas = 2 => loaded /\ "append" \in Modes)
    <2> SUFFICES /\ b.fas = 2 => Writes(b, Q[i]) /\ loaded /\ "append" \in Modes
                 /\ b.fas \in {1, 3} => ReadsAt(b, Q[i], link)
                 /\ b.fas \in {1, 2, 3}
      <3>1. Files' = Files
        BY <1>1 DEF Files, Live
      <3> QED  BY <1>1, <1>2, <1>3, <1>4, <3>1 DEF BlockAt, ReadsAt, Writes, Describes
    <2>0. dir[i].fsz \in Nat /\ fcb'[f] = b
      BY <1>3, <1>4 DEF DirEntry
    <2>1. CASE OpenRead(f, n)
      <3>1. b = [FromEntry(i) EXCEPT !.fas = 1, !.fwd = FromEntry(i).fsa]
        BY <2>0, <2>1 DEF OpenRead, i, IInv, HeldIInv, Types
      <3>2. b.fas = 1 /\ b.fwd = dir[i].fsa /\ b.fcs = None
        BY <1>5, <3>1 DEF Block, Fields
      <3>3. dir[i].fsa # None => \E k \in 1..Len(Q[i]) : dir[i].fsa = Q[i][k]
        BY <1>6, <2>0 DEF Describes
      <3> QED  BY <3>2, <3>3 DEF ReadsAt
    <2>2. CASE OpenUpdate(f, n)
      <3> DEFINE e == [FromEntry(i) EXCEPT !.fas = 3]
                 c == [e EXCEPT !.frn = 1, !.fwd = e.fsa]
      <3>1. \/ b = e /\ e.fsa = None
            \/ b = Reads(c, e.fsa) /\ e.fsa # None
            \/ e.fsa # None /\ \E fwd \in Arrived(c, e.fsa) : b = Unread(c, e.fsa, fwd)
        BY <2>0, <2>2 DEF OpenUpdate, i, IInv, HeldIInv, Types
      <3>2. /\ e \in Fields /\ e.fas = 3 /\ e.fsa = dir[i].fsa /\ e.fcs = None /\ e.fwd = None
            /\ c \in Fields /\ c.fas = 3 /\ c.fwd = dir[i].fsa
        BY <1>5 DEF Block, Fields
      <3> HIDE DEF e, c
      <3>3. CASE b = e /\ e.fsa = None
        BY <3>2, <3>3 DEF ReadsAt
      <3>4. CASE ~(b = e /\ e.fsa = None)
        <4>1. /\ b.fas = 3 /\ b.fcs = dir[i].fsa /\ b.fcs # None
              /\ b.fwd = link[b.fcs] \/ (b.fwd = b.fcs /\ b.fsb = "old")
          BY <3>1, <3>2, <3>4 DEF Fields, Reads, Unread, Arrived
        <4>2. \E k \in 1..Len(Q[i]) : dir[i].fsa = Q[i][k]
          BY <1>6, <2>0, <4>1 DEF Describes
        <4> QED  BY <4>1, <4>2 DEF ReadsAt
      <3> QED  BY <3>3, <3>4
    <2>3. CASE OpenAppend(f, n)
      <3>1. "append" \notin FaultAt /\ loaded /\ "append" \in Modes /\ dir[i].fsa # None
        BY <2>3 DEF OpenAppend, Callers, CallerMapLoaded, i
      <3>2. b = Reads([FromEntry(i) EXCEPT !.fas = 2], FromEntry(i).fea)
        BY <2>0, <2>3, <3>1 DEF OpenAppend, Fault, May, i, IInv, HeldIInv, Types
      <3>3. /\ b.fas = 2 /\ b.fcs = dir[i].fea /\ b.fea = dir[i].fea /\ b.fsa = dir[i].fsa
            /\ b.fsz = dir[i].fsz /\ b.fwd = link[dir[i].fea]
        BY <1>5, <3>2 DEF Block, Fields, Reads
      <3>4. dir[i].fsz > 0 /\ dir[i].fea = Q[i][dir[i].fsz]
        BY <1>6, <2>0, <3>1 DEF Describes
      <3>5. link[dir[i].fea] = None
        BY <1>6, <3>4
      <3> QED  BY <1>6, <3>1, <3>3, <3>5 DEF Writes, Describes
    <2> QED  BY <2>1, <2>2, <2>3
  <1>8. f \notin Writers /\ (~loaded => Writers' = {})
    <2>1. f \notin Writers
      BY <1>1 DEF Writers
    <2>2. ~loaded => Writers = {}
      BY <1>0 DEF Owns, MapsAre
    <2>3. ~loaded => f \notin Writers'
      BY <1>3, <1>7 DEF Writers
    <2>4. \A g \in Writers' : g # f => g \in Writers
      BY <1>3 DEF Writers
    <2> QED  BY <2>1, <2>2, <2>3, <2>4
  <1>9. MapsAre(P, m, Q)' /\ Exact(P, m, Q)'
    <2>1. Torn' <=> Torn
      BY <1>1 DEF Torn
    <2> QED  BY <1>0, <1>1, <1>8, <2>1, SameMaps DEF Owns
  <1>10. Owns(P, m, Q)'
    BY <1>0, <1>1, <1>3, <1>7, <1>8, <1>9, OneBlockOwns
  <1>11. Sharing'
    <2>1. \A g \in Fcb : g # f /\ Listed(g) => fcb[g].fcd # i
      BY <1>4 DEF OpenOn
    <2>2. call.op # "close" /\ fcb'[f].fas # WTAPP
      BY <1>1, <1>3, <1>7 DEF Idle, WTAPP
    <2>3. f \in Writers' => "append" \in Modes
      BY <1>3, <1>7 DEF Writers
    <2> QED  BY <1>1, <1>2, <1>3, <2>1, <2>2, <2>3, OneBlockSharing DEF Layout
  <1>12. Extension'
    BY <1>1 DEF Layout, Extension, Idle
  <1> QED  BY <1>10, <1>11, <1>12 DEF Layout

\* A block that reads a file knows sectors of that file only.
LEMMA ReaderKnows ==
  ASSUME IInv, Callers, Sharing, call \in {Idle, Excls}, NEW P, NEW m, NEW Q,
         Owns(P, m, Q), NEW f \in Fcb, Listed(f), fcb[f].fas \in {1, 3, 131}
  PROVE  LET i == fcb[f].fcd
         IN  /\ i # 0 /\ i \in Files /\ i \in 1..Len(dir) /\ ReadsAt(fcb[f], Q[i], link)
             /\ \A g \in Fcb : g # f /\ Listed(g) => fcb[g].fcd # i
             /\ dir[i].fsz = Len(Q[i]) /\ Describes(dir[i], Q[i])
             /\ fcb[f].fwd # None => \E k \in 1..Len(Q[i]) : fcb[f].fwd = Q[i][k]
             /\ fcb[f].fcs # None /\ fcb[f].fas = 131 =>
                  [link EXCEPT ![fcb[f].fcs] = fcb[f].fwd] = link
  <1> DEFINE i == fcb[f].fcd
             b == fcb[f]
             q == Q[i]
  <1>1. i # 0 /\ i \in Files /\ ReadsAt(b, Q[i], link)
    BY DEF Owns, BlockAt, Idle, Excls
  <1>2. i \in 1..Len(dir)
    BY <1>1, LiveInDir DEF IInv, HeldIInv
  <1>3. \A g \in Fcb : g # f /\ Listed(g) => fcb[g].fcd # i
    BY DEF Sharing
  <1>4. Whole(i)
    BY <1>3 DEF Whole, Writers
  <1>5. /\ dir[i].fsz = Len(q) /\ Describes(dir[i], q) /\ Len(q) \in Nat
        /\ Len(q) > 0 => link[q[Len(q)]] = None
        /\ \A k \in 1..Len(q) : k < Len(q) => link[q[k]] = q[k + 1]
    <2>1. EntryAt(i, Q) /\ Tidy(link, P, m, Q, DirExt) /\ i \in DOMAIN Q
      BY <1>2 DEF Owns
    <2>2. Len(q) \in Nat
      BY <2>1, TidyTypes
    <2>3. \A k \in 1..Len(q) : k < Len(q) => link[q[k]] = q[k + 1]
      BY <2>1 DEF Tidy, Chained
    <2> QED  BY <1>1, <1>4, <2>1, <2>2, <2>3 DEF EntryAt
  <1>6. b.fwd # None => \E k \in 1..Len(q) : b.fwd = q[k]
    <2> SUFFICES ASSUME b.fwd # None  PROVE \E k \in 1..Len(q) : b.fwd = q[k]
      OBVIOUS
    <2>1. CASE b.fcs = None
      BY <1>1, <2>1 DEF ReadsAt
    <2>2. CASE b.fcs # None
      <3>1. PICK k \in 1..Len(q) : b.fcs = q[k] /\ (b.fwd = link[b.fcs] \/ b.fwd = b.fcs)
        BY <1>1, <2>2 DEF ReadsAt
      <3>4. CASE b.fwd = b.fcs
        BY <3>1, <3>4
      <3> SUFFICES ASSUME b.fwd = link[b.fcs]  PROVE \E l \in 1..Len(q) : b.fwd = q[l]
        BY <3>1, <3>4
      <3>2. k # Len(q)
        BY <1>5, <3>1
      <3>3. k + 1 \in 1..Len(q) /\ k < Len(q)
        BY <1>5, <3>1, <3>2
      <3> QED  BY <1>5, <3>1, <3>3
    <2> QED  BY <2>1, <2>2
  <1>7. b.fcs # None /\ b.fas = 131 => [link EXCEPT ![b.fcs] = b.fwd] = link
    BY <1>1, OwnBuffer DEF ReadsAt, IInv, HeldIInv, Types
  <1> QED  BY <1>1, <1>2, <1>3, <1>5, <1>6, <1>7

\* What RDNEXT leaves of a block, whether the read was good or not.
LEMMA NextBlock ==
  ASSUME NEW b \in Block, NEW s, NEW r, b.fwd = s,
         NEW c, \/ c = Reads([b EXCEPT !.frn = r], s)
                \/ \E fwd \in Arrived([b EXCEPT !.frn = r], s) :
                     c = Unread([b EXCEPT !.frn = r], s, fwd)
  PROVE  /\ c.fas = b.fas /\ c.fcd = b.fcd /\ c.fcs = s
         /\ c.fwd = link[s] \/ (c.fwd = s /\ c.fsb = "old")
  <1> DEFINE d == [b EXCEPT !.frn = r]
  <1>1. /\ DOMAIN d = DOMAIN b /\ d.fas = b.fas /\ d.fcd = b.fcd /\ d.fwd = s
        /\ {"fas", "fcd", "fcs", "fwd", "tag", "fsb"} \subseteq DOMAIN d
    BY DEF Block, Fields
  <1> HIDE DEF d
  <1>2. CASE c = Reads(d, s)
    BY <1>1, <1>2 DEF Reads
  <1>3. CASE \E fwd \in Arrived(d, s) : c = Unread(d, s, fwd)
    BY <1>1, <1>3 DEF Unread, Arrived
  <1> QED  BY <1>2, <1>3 DEF d

\* RDNEXT, PUTRAN and NEXTS stay in the file.
LEMMA ReadingLayout ==
  ASSUME IInv, Callers, Layout, NEW f \in Fcb, Reading(f)
  PROVE  Layout'
  <1> DEFINE i == fcb[f].fcd
  <1>0. PICK P, m, Q : Owns(P, m, Q)
    BY DEF Layout
  <1>1. /\ Listed(f) /\ call = Idle /\ fcb[f].fas \in {1, 3, 131} /\ f \notin Writers
        /\ UNCHANGED <<dir, dirext, sir, secmap, loaded, fcblist, call, lossy>>
    BY DEF Reading, ReadNext, Update, NextSector, CallerUses, CallerChanges, CallerFree, disk, Writers
  <1>2. /\ i # 0 /\ i \in Files /\ ReadsAt(fcb[f], Q[i], link)
        /\ \A g \in Fcb : g # f /\ Listed(g) => fcb[g].fcd # i
        /\ fcb[f].fwd # None => \E k \in 1..Len(Q[i]) : fcb[f].fwd = Q[i][k]
        /\ fcb[f].fcs # None /\ fcb[f].fas = 131 => [link EXCEPT ![fcb[f].fcs] = fcb[f].fwd] = link
    BY <1>0, <1>1, ReaderKnows DEF Layout
  <1>3. fcb[f] \in Block
    BY DEF IInv, HeldIInv, Types
  <1>4. \E b : /\ fcb' = [fcb EXCEPT ![f] = b] /\ b.fas \in {1, 3, 131} /\ b.fcd = i
              /\ ReadsAt(b, Q[i], link) /\ link' = link
    <2>1. CASE ReadNext(f)
      <3> DEFINE s == fcb[f].fwd
                 b == [fcb[f] EXCEPT !.frn = @ + 1]
      <3>0. b.fwd = s /\ b = [fcb[f] EXCEPT !.frn = fcb[f].frn + 1]
        BY <1>3 DEF Block, Fields
      <3>1. /\ link' = link /\ s # None /\ fcb[f].fas = 1
            /\ \E c : /\ fcb' = [fcb EXCEPT ![f] = c]
                     /\ \/ c = Reads(b, s)
                        \/ \E fwd \in Arrived(b, s) : c = Unread(b, s, fwd)
        BY <2>1, <3>0 DEF ReadNext, disk
      <3> HIDE DEF b
      <3>2. PICK c : /\ fcb' = [fcb EXCEPT ![f] = c]
                     /\ \/ c = Reads(b, s)
                        \/ \E fwd \in Arrived(b, s) : c = Unread(b, s, fwd)
        BY <3>1
      <3>3. /\ c.fas = 1 /\ c.fcd = i /\ c.fcs = s
            /\ c.fwd = link[s] \/ (c.fwd = s /\ c.fsb = "old")
        BY <1>3, <3>0, <3>1, <3>2, NextBlock
      <3>4. ReadsAt(c, Q[i], link)
        BY <1>2, <3>1, <3>3 DEF ReadsAt
      <3> QED  BY <3>1, <3>2, <3>3, <3>4
    <2>2. CASE Update(f)
      <3> DEFINE t == Tag(f, Sectors + fcb[f].frn)
                 b == [fcb[f] EXCEPT !.fas = 131, !.tag = t]
      <3>1. fcb' = [fcb EXCEPT ![f].fas = 131, ![f].tag = t] /\ link' = link
        BY <2>2 DEF Update, disk
      <3> HIDE DEF t
      <3>2. fcb' = [fcb EXCEPT ![f] = b] /\ link' = link
        BY <3>1 DEF IInv, HeldIInv, Types
      <3>3. b.fas = 131 /\ b.fcd = i /\ b.fcs = fcb[f].fcs /\ b.fwd = fcb[f].fwd /\ b.fsb = fcb[f].fsb
        <4>1. \A o \in Block : LET c == [o EXCEPT !.fas = 131, !.tag = t]
                               IN  /\ c.fas = 131 /\ c.fcd = o.fcd /\ c.fcs = o.fcs
                                   /\ c.fwd = o.fwd /\ c.fsb = o.fsb
          BY DEF Block, Fields
        <4> QED  BY <1>3, <4>1
      <3> HIDE DEF b
      <3>4. ReadsAt(b, Q[i], link)
        BY <1>2, <3>3 DEF ReadsAt
      <3>5. b.fas \in {1, 3, 131}
        BY <3>3
      <3> QED  BY <3>2, <3>3, <3>4, <3>5, Zenon
    <2>3. CASE NextSector(f)
      <3> DEFINE b == [fcb[f] EXCEPT !.fas = 3]
                 s == b.fwd
                 d == [b EXCEPT !.frn = @ + 1]
      <3>1. /\ b \in Block /\ b.fas = 3 /\ b.fcd = i /\ b.fcs = fcb[f].fcs
            /\ b.fwd = fcb[f].fwd /\ b.fsb = fcb[f].fsb /\ d = [b EXCEPT !.frn = b.frn + 1]
        BY <1>3 DEF Block, Fields, Buffered
      <3>0. ASSUME NEW c, fcb' = [fcb EXCEPT ![f] = c],
                   \/ c = b
                   \/ s # None /\ c = Reads(d, s)
                   \/ s # None /\ \E fwd \in Arrived(d, s) : c = Unread(d, s, fwd)
            PROVE  \E c1 : /\ fcb' = [fcb EXCEPT ![f] = c1]
                          /\ \/ c1 = b
                             \/ s # None /\ c1 = Reads(d, s)
                             \/ s # None /\ \E fwd \in Arrived(d, s) : c1 = Unread(d, s, fwd)
        BY <3>0
      <3>2. /\ fcb[f].fcs # None
            /\ (WriteData(b.fcs, b.fwd, b.tag) /\ fcb[f].fas = 131) \/ UNCHANGED <<link, data>>
            /\ \E c : /\ fcb' = [fcb EXCEPT ![f] = c]
                     /\ \/ c = b
                        \/ s # None /\ c = Reads(d, s)
                        \/ s # None /\ \E fwd \in Arrived(d, s) : c = Unread(d, s, fwd)
        <4>1. /\ fcb[f].fcs # None
              /\ (WriteData(b.fcs, b.fwd, b.tag) /\ fcb[f].fas = 131) \/ UNCHANGED <<link, data>>
          BY <2>3 DEF NextSector
        <4>2. \/ fcb' = [fcb EXCEPT ![f] = b]
              \/ s # None /\ fcb' = [fcb EXCEPT ![f] = Reads(d, s)]
              \/ s # None /\ \E fwd \in Arrived(d, s) : fcb' = [fcb EXCEPT ![f] = Unread(d, s, fwd)]
          <5>1. \A fwd : fwd \in Arrived(b, s) <=> fwd \in Arrived(d, s)
            BY <3>1 DEF Arrived, Block, Fields
          <5> QED  BY <2>3, <5>1 DEF NextSector
        <4> HIDE DEF b, d
        <4> QED  BY <4>1, <4>2, <3>0
      <3> HIDE DEF b, d
      <3>3. link' = link
        BY <1>2, <3>1, <3>2 DEF WriteData
      <3>4. PICK c : /\ fcb' = [fcb EXCEPT ![f] = c]
                     /\ \/ c = b
                        \/ s # None /\ c = Reads(d, s)
                        \/ s # None /\ \E fwd \in Arrived(d, s) : c = Unread(d, s, fwd)
        BY <3>2
      <3>5. c.fas = 3 /\ c.fcd = i /\ ReadsAt(c, Q[i], link)
        <4>1. CASE c = b
          BY <1>2, <3>1, <4>1 DEF ReadsAt
        <4>2. CASE c # b
          <5>1. /\ c.fas = 3 /\ c.fcd = i /\ c.fcs = s /\ s # None
                /\ c.fwd = link[s] \/ (c.fwd = s /\ c.fsb = "old")
            BY <3>1, <3>4, <4>2, NextBlock
          <5> QED  BY <1>2, <3>1, <5>1 DEF ReadsAt
        <4> QED  BY <4>1, <4>2
      <3> QED  BY <3>3, <3>4, <3>5
    <2> QED  BY <2>1, <2>2, <2>3 DEF Reading
  <1>5. PICK b : /\ fcb' = [fcb EXCEPT ![f] = b] /\ b.fas \in {1, 3, 131} /\ b.fcd = i
                 /\ ReadsAt(b, Q[i], link) /\ link' = link
    BY <1>4
  <1>6. /\ \A g \in Fcb : fcb'[g] = IF g = f THEN b ELSE fcb[g]
        /\ \A g \in Fcb : Listed(g)' <=> Listed(g)
    BY <1>1, <1>5 DEF IInv, HeldIInv, Types, Listed
  <1>7. BlockAt(f, Q)'
    <2>1. Files' = Files
      BY <1>1 DEF Files, Live
    <2> QED  BY <1>2, <1>5, <1>6, <2>1 DEF BlockAt, ReadsAt
  <1>8. MapsAre(P, m, Q)' /\ Exact(P, m, Q)'
    <2>1. Torn' <=> Torn
      BY <1>1 DEF Torn
    <2>2. Writers' = Writers
      BY <1>1, <1>5, <1>6 DEF Writers
    <2> QED  BY <1>0, <1>1, <2>1, <2>2, SameMaps DEF Owns, MapsAre
  <1>9. Owns(P, m, Q)'
    BY <1>0, <1>1, <1>5, <1>6, <1>7, <1>8, OneBlockOwns
  <1>10. Sharing'
    <2>1. call.op # "close" /\ fcb'[f].fas # WTAPP /\ f \notin Writers'
      BY <1>1, <1>5, <1>6 DEF Idle, WTAPP, Writers
    <2>2. Listed(f)' => \A g \in Fcb : g # f /\ Listed(g) => fcb[g].fcd # fcb'[f].fcd
      BY <1>2, <1>5, <1>6
    <2> QED  BY <1>1, <1>6, <2>1, <2>2, OneBlockSharing DEF Layout
  <1>11. Extension'
    BY <1>1 DEF Layout, Extension, Idle
  <1> QED  BY <1>9, <1>10, <1>11 DEF Layout

\* A step that writes file i from block f, and a link of no other file.
WritesFile(f, i, Q, Q1) ==
  /\ call \in {Idle, Excls} /\ call'.op \notin {"delete", "extend"}
  /\ UNCHANGED <<dir, dirext, fcblist>>
  /\ f \in Writers /\ fcb[f].fcd = i /\ fcb'[f].fas = 2 /\ fcb'[f].fcd = i
  /\ \A g \in Fcb : g # f => fcb'[g] = fcb[g]
  /\ \A j : Closing(j)' => j = i
  /\ DOMAIN Q1 = DOMAIN Q /\ \A j \in DOMAIN Q : j # i => Q1[j] = Q[j]
  /\ \A j \in DOMAIN Q : j # i =>
       \A k \in 1..Len(Q[j]) : link'[Q[j][k]] = link[Q[j][k]]

\* The other files stay as they are.
LEMMA WriterOwns ==
  ASSUME IInv, Sharing, NEW P, NEW m, NEW Q, Owns(P, m, Q),
         NEW f, NEW i, NEW m1, NEW Q1, WritesFile(f, i, Q, Q1),
         Tidy(link', P, m1, Q1, DirExt), EntryAt(i, Q1)', BlockAt(f, Q1)',
         MapsAre(P, m1, Q1)', TakenAt(P, m1, Q1)', Exact(P, m1, Q1)'
  PROVE  Owns(P, m1, Q1)'
  <1> USE DEF WritesFile
  <1>1. DirExt' = DirExt /\ Files' = Files
    BY DEF DirExt, Files, Live, Idle, Excls
  <1>2. /\ \A j \in DOMAIN Q : Len(Q[j]) \in Nat
        /\ DOMAIN Q = 1..Len(dir)
        /\ \A g \in Fcb : Listed(g)' <=> Listed(g)
        /\ f \in Fcb /\ Listed(f) /\ fcb[f].fas = 2
    BY TidyTypes DEF Owns, Listed, Writers
  <1>3. ASSUME NEW j \in 1..Len(dir'), j # i  PROVE EntryAt(j, Q1)'
    <2>1. EntryAt(j, Q) /\ Q1[j] = Q[j] /\ ~Closing(j)'
      BY <1>2, <1>3 DEF Owns
    <2>2. Whole(j)' => Whole(j)
      <3> SUFFICES ASSUME \A g \in Writers' : fcb'[g].fcd # j, NEW g \in Writers
                   PROVE  fcb[g].fcd # j
        BY <2>1 DEF Whole
      <3>1. CASE g = f
        BY <1>3, <3>1
      <3>2. CASE g # f
        BY <1>2, <3>2 DEF Writers
      <3> QED  BY <3>1, <3>2
    <2>3. Len(Q[j]) > 0 => link'[Q[j][Len(Q[j])]] = link[Q[j][Len(Q[j])]]
      BY <1>2, <1>3
    <2> QED  BY <1>1, <2>1, <2>2, <2>3, EntryKept
  <1>4. ASSUME NEW g \in Fcb, g # f  PROVE BlockAt(g, Q1)'
    <2>1. BlockAt(g, Q) /\ (Listed(g) => fcb[g].fcd # 0 /\ fcb[g].fcd # i)
      BY <1>2, <1>4 DEF Owns, BlockAt, Idle, Excls, Sharing
    <2>2. Listed(g) => fcb[g].fcd \in Files' /\ fcb[g].fcd \in 1..Len(dir)
      BY <1>1, <2>1, LiveInDir DEF BlockAt, IInv, HeldIInv
    <2>3. Listed(g) => /\ Q1[fcb[g].fcd] = Q[fcb[g].fcd]
                       /\ \A k \in 1..Len(Q[fcb[g].fcd]) :
                            link'[Q[fcb[g].fcd][k]] = link[Q[fcb[g].fcd][k]]
      BY <1>2, <2>1, <2>2
    <2> QED  BY <1>2, <1>4, <2>1, <2>2, <2>3, BlockKept
  <1>5. \A j \in 1..Len(dir') : EntryAt(j, Q1)'
    BY <1>3
  <1>6. \A g \in Fcb : BlockAt(g, Q1)'
    BY <1>4
  <1>7. Tidy(link, P, m1, Q1, DirExt)'
    BY <1>1 DEF Tidy, Pooled, InOrder, Chained, Apart
  <1> QED  BY <1>2, <1>5, <1>6, <1>7 DEF Owns

\* What a block that writes knows when no call is in progress.
LEMMA WriterKnows ==
  ASSUME IInv, Sharing, call \in {Idle, Excls}, NEW P, NEW m, NEW Q, Owns(P, m, Q),
         NEW f \in Fcb, Listed(f), fcb[f].fas = 2
  PROVE  LET i == fcb[f].fcd
             q == Q[i]
         IN  /\ f \in Writers /\ i # 0 /\ i \in Files /\ i \in 1..Len(dir)
             /\ Writes(fcb[f], q) /\ Describes(dir[i], q) /\ dir[i].fsz \in Nat
             /\ Len(q) \in Nat /\ q \in Seq(Sector) /\ loaded
             /\ fcb[f].fsa # None <=> Len(q) > 0
             /\ fcb[f].fsa # None => fcb[f].fcs = q[Len(q)]
             /\ \A j \in DOMAIN Q : j # i =>
                  \A k \in 1..Len(Q[j]) : Q[j][k] # q[Len(q)] \/ Len(q) = 0
  <1> DEFINE i == fcb[f].fcd
             q == Q[i]
  <1>1. f \in Writers /\ i # 0 /\ i \in Files /\ Writes(fcb[f], q)
    BY DEF Owns, BlockAt, Idle, Excls, Writers
  <1>2. i \in 1..Len(dir) /\ dir[i].fsz \in Nat
    BY <1>1, LiveInDir DEF IInv, HeldIInv, DirEntry
  <1>3. i \in DOMAIN Q /\ Tidy(link, P, m, Q, DirExt) /\ EntryAt(i, Q)
    BY <1>2 DEF Owns
  <1>4. Len(q) \in Nat /\ q \in Seq(Sector)
    BY <1>3, TidyTypes
  <1>5. Describes(dir[i], q)
    BY <1>1, <1>3 DEF EntryAt
  <1>6. loaded
    BY <1>1 DEF Owns, MapsAre
  <1>7. fcb[f].fsa # None <=> Len(q) > 0
    BY <1>1, <1>4 DEF Writes, Describes
  <1>8. fcb[f].fsa # None => fcb[f].fcs = q[Len(q)]
    BY <1>1, <1>4, <1>7 DEF Writes, Describes
  <1>9. \A j \in DOMAIN Q : j # i =>
          \A k \in 1..Len(Q[j]) : Q[j][k] # q[Len(q)] \/ Len(q) = 0
    <2>1. Len(q) # 0 => Len(q) \in 1..Len(q)
      BY <1>4
    <2> QED  BY <1>3, <2>1 DEF Tidy, Apart
  <1> QED  BY <1>1, <1>2, <1>4, <1>5, <1>6, <1>7, <1>8, <1>9

\* The map after the next sector was taken from the pool.
LEMMA TakeMap ==
  ASSUME NEW P, NEW m, NEW Q, NEW X, Tidy(link, P, m, Q, X), NEW map, MapIs(map, P, m, Q, X),
         map.first # None, map \in Map
  PROVE  /\ m < Len(P) /\ map.first = P[m + 1] /\ map.first \in Sector
         /\ TakeFirst(map).count = map.count - 1 \/ (m + 1 = Len(P) /\ TakeFirst(map) = NoAvail)
         /\ \A Q1 : (\A s : Lost(s, P, Q1, X) <=> Lost(s, P, Q, X)) =>
              MapIs(TakeFirst(map), P, m + 1, Q1, X)
  <1>1. /\ Len(P) \in Nat /\ m \in Nat /\ m <= Len(P) /\ None \notin Sector
        /\ \A j \in 1..Len(P) : P[j] \in Sector
    BY TidyTypes
  <1>2. m < Len(P) /\ map.first = P[m + 1]
    BY <1>1 DEF MapIs, NoAvail
  <1>3. m + 1 \in 1..Len(P)
    BY <1>1, <1>2
  <1>4. CASE m + 1 = Len(P)
    <2>1. link[map.first] = None
      BY <1>1, <1>2, <1>4, TidyLast
    <2>2. TakeFirst(map) = NoAvail
      BY <2>1 DEF TakeFirst
    <2>3. \A Q1 : MapIs(NoAvail, P, m + 1, Q1, X)
      BY <1>4 DEF MapIs
    <2>4. map.first \in Sector
      BY <1>1, <1>2, <1>3
    <2> QED  BY <1>2, <1>4, <2>2, <2>3, <2>4
  <1>5. CASE m + 1 # Len(P)
    <2>1. (m + 1) + 1 \in 1..Len(P) /\ m < m + 1 /\ m + 1 < Len(P)
      BY <1>1, <1>2, <1>5
    <2>2. link[map.first] = P[(m + 1) + 1]
      BY <1>2, <1>3, <2>1 DEF Tidy, InOrder
    <2>3. link[map.first] # None
      BY <1>1, <2>1, <2>2
    <2>4. /\ TakeFirst(map).first = P[(m + 1) + 1] /\ TakeFirst(map).last = map.last
          /\ TakeFirst(map).count = map.count - 1
      BY <2>2, <2>3 DEF TakeFirst, Map
    <2>5. map.last # None /\ (map.last = P[Len(P)] \/ Lost(map.last, P, Q, X))
      BY <1>2 DEF MapIs
    <2>6. map.first \in Sector
      BY <1>1, <1>2, <1>3
    <2>7. ASSUME NEW Q1, \A s : Lost(s, P, Q1, X) <=> Lost(s, P, Q, X)
          PROVE  MapIs(TakeFirst(map), P, m + 1, Q1, X)
      <3>1. map.last = P[Len(P)] \/ Lost(map.last, P, Q1, X)
        BY <2>5, <2>7
      <3> QED  BY <1>5, <2>4, <2>5, <3>1 DEF MapIs
    <2>8. \A Q1 : (\A s : Lost(s, P, Q1, X) <=> Lost(s, P, Q, X)) =>
            MapIs(TakeFirst(map), P, m + 1, Q1, X)
      BY <2>7, Zenon
    <2> QED  BY <1>2, <2>4, <2>6, <2>8, Zenon
  <1> QED  BY <1>4, <1>5, Zenon

\* What ASNNXT leaves of a block.
LEMMA AssignedBlock ==
  ASSUME NEW b \in Block, NEW a, NEW z, NEW s, NEW r, NEW t
  PROVE  LET c == [[b EXCEPT !.fea = a, !.fsz = z, !.fsa = s]
                      EXCEPT !.fcs = a, !.frn = r, !.fwd = None, !.tag = t, !.fsb = "own"]
         IN  /\ c.fas = b.fas /\ c.fcd = b.fcd /\ c.fsa = s /\ c.fea = a /\ c.fsz = z
             /\ c.fcs = a /\ c.fwd = None
  BY DEF Block, Fields

\* ASNNXT gives the file of block f the first available sector; the sector before
\* it, if there is one, has been linked to it.
LEMMA AssignLayout ==
  ASSUME IInv, Callers, Layout, NEW f \in Fcb, Listed(f), call = Idle, fcb[f].fas = 2,
         secmap.first # None, NEW b \in Block, ASNNXT(f, b),
         b.fas = 2, b.fcd = fcb[f].fcd, b.fsa = fcb[f].fsa, b.fsz = fcb[f].fsz,
         link' = IF fcb[f].fsa = None THEN link ELSE [link EXCEPT ![fcb[f].fcs] = secmap.first],
         UNCHANGED <<dir, dirext, sir, loaded, fcblist, call, lossy>>
  PROVE  Layout'
  <1>0. PICK P, m, Q : Owns(P, m, Q)
    BY DEF Layout
  <1>g. ~Fault("assign") /\ secmap' = TakeFirst(secmap)
    BY DEF Callers, Fault, May, ASNNXT
  <1>i. PICK i : i = fcb[f].fcd
    OBVIOUS
  <1>a. PICK a : a = secmap.first
    OBVIOUS
  <1>n. PICK m1 : m1 = m + 1
    OBVIOUS
  <1>q. PICK Q1 : Grows(Q1, Q, i, P[m + 1])
    BY DEF Grows
  <1> DEFINE q == Q[i]
  <1>1. /\ f \in Writers /\ i # 0 /\ i \in Files /\ i \in 1..Len(dir)
        /\ Writes(fcb[f], q) /\ Describes(dir[i], q) /\ dir[i].fsz \in Nat
        /\ Len(q) \in Nat /\ q \in Seq(Sector) /\ loaded
        /\ fcb[f].fsa # None <=> Len(q) > 0
        /\ fcb[f].fsa # None => fcb[f].fcs = q[Len(q)]
        /\ \A j \in DOMAIN Q : j # i => \A k \in 1..Len(Q[j]) : Q[j][k] # q[Len(q)] \/ Len(q) = 0
    BY <1>0, <1>i, WriterKnows DEF Layout
  <1>2. /\ Tidy(link, P, m, Q, DirExt) /\ i \in DOMAIN Q /\ DOMAIN Q = 1..Len(dir)
        /\ MapIs(secmap, P, m, Q, DirExt) /\ secmap \in Map
        /\ Q \in [DOMAIN Q -> Seq(Sector)] /\ m \in Nat
    BY <1>0, <1>1, TidyTypes DEF Owns, MapsAre, IInv, HeldIInv, Types, Tidy
  <1>3. m < Len(P) /\ a = P[m + 1] /\ a \in Sector
    BY <1>2, <1>a, TakeMap
  <1>m. /\ \/ TakeFirst(secmap).count = secmap.count - 1
           \/ m + 1 = Len(P) /\ TakeFirst(secmap) = NoAvail
        /\ \A R : (\A s : Lost(s, P, R, DirExt) <=> Lost(s, P, Q, DirExt)) =>
             MapIs(TakeFirst(secmap), P, m + 1, R, DirExt)
    BY <1>2, <1>a, TakeMap
  <1>4. link' = Linked(link, q, P[m + 1])
    <2>1. CASE Len(q) = 0
      BY <1>1, <2>1 DEF Linked
    <2>2. CASE Len(q) # 0
      <3>1. fcb[f].fsa # None /\ fcb[f].fcs = q[Len(q)] /\ secmap.first = P[m + 1]
        BY <1>1, <1>3, <1>a, <2>2
      <3> HIDE DEF q
      <3> QED  BY <2>2, <3>1 DEF Linked
    <2> QED  BY <2>1, <2>2
  <1>5. /\ Tidy(link', P, m + 1, Q1, DirExt)
        /\ \A s : Lost(s, P, Q1, DirExt) <=> Lost(s, P, Q, DirExt)
    <2>2. Tidy(link', P, m + 1, Q1, DirExt)
      <3>1. Tidy(Linked(link, Q[i], P[m + 1]), P, m + 1, Q1, DirExt)
        BY <1>q, <1>2, <1>3, TidyGrow, Zenon
      <3> QED  BY <1>4, <3>1
    <2>3. \A s : Lost(s, P, Q1, DirExt) <=> Lost(s, P, Q, DirExt)
      BY <1>q, <1>2, <1>3, GrowLost
    <2> QED  BY <2>2, <2>3
  <1>6. /\ DOMAIN Q1 = DOMAIN Q /\ \A j \in DOMAIN Q : j # i => Q1[j] = Q[j]
        /\ Len(Q1[i]) = Len(q) + 1 /\ Q1[i][Len(q) + 1] = a
        /\ \A k \in 1..Len(q) : Q1[i][k] = q[k]
    BY <1>q, <1>1, <1>2, <1>3 DEF Grows
  <1>7. \E c : /\ fcb' = [fcb EXCEPT ![f] = c] /\ c.fas = 2 /\ c.fcd = i /\ c.fea = a
               /\ c.fsa = (IF fcb[f].fsa = None THEN a ELSE fcb[f].fsa)
               /\ c.fsz = fcb[f].fsz + 1 /\ c.fcs = a /\ c.fwd = None
    <2> DEFINE c == [[b EXCEPT !.fea = secmap.first, !.fsz = b.fsz + 1,
                               !.fsa = IF b.fsa = None THEN secmap.first ELSE b.fsa]
                       EXCEPT !.fcs = secmap.first, !.frn = b.frn + 1, !.fwd = None,
                              !.tag = Tag(f, b.frn + 1), !.fsb = "own"]
    <2>0. Assigned(b, secmap.first) = [b EXCEPT !.fea = secmap.first, !.fsz = b.fsz + 1,
                                         !.fsa = IF b.fsa = None THEN secmap.first ELSE b.fsa]
      BY DEF Assigned, Block, Fields
    <2>1. fcb' = [fcb EXCEPT ![f] = c]
      BY <1>g, <2>0 DEF ASNNXT
    <2>2. /\ c.fas = b.fas /\ c.fcd = b.fcd /\ c.fea = secmap.first
          /\ c.fsa = (IF b.fsa = None THEN secmap.first ELSE b.fsa)
          /\ c.fsz = b.fsz + 1 /\ c.fcs = secmap.first /\ c.fwd = None
      BY AssignedBlock
    <2> HIDE DEF c
    <2> QED  BY <1>a, <1>i, <2>1, <2>2
  <1>8. /\ fcb'[f].fas = 2 /\ fcb'[f].fcd = i /\ fcb'[f].fea = a
        /\ fcb'[f].fsa = (IF fcb[f].fsa = None THEN a ELSE fcb[f].fsa)
        /\ fcb'[f].fsz = fcb[f].fsz + 1 /\ fcb'[f].fcs = a /\ fcb'[f].fwd = None
        /\ \A g \in Fcb : g # f => fcb'[g] = fcb[g]
    BY <1>7 DEF IInv, HeldIInv, Types
  <1>9. /\ DirExt' = DirExt /\ Files' = Files /\ secmap' = TakeFirst(secmap)
        /\ \A g \in Fcb : Listed(g)' <=> Listed(g)
        /\ \A j : ~Closing(j)'
        /\ ~Torn /\ ~Torn'
    BY <1>g DEF DirExt, Files, Live, Listed, Closing, Torn, Idle
  <1>10. f \in Writers' /\ \A j : Whole(j)' => j # i
    <2>1. f \in Writers'
      BY <1>1, <1>8, <1>9 DEF Writers
    <2> QED  BY <1>8, <1>9, <2>1 DEF Whole
  <1>11. EntryAt(i, Q1)'
    <2>1. Describes(dir[i], Q1[i])
      BY <1>1, <1>6 DEF Describes
    <2>2. dir[i].fsz # Len(Q1[i])
      BY <1>1, <1>6 DEF Describes
    <2> QED  BY <1>1, <1>9, <1>10, <2>1, <2>2 DEF EntryAt, Describes
  <1>12. BlockAt(f, Q1)'
    <2>1. fcb[f].fsz = Len(q)
      BY <1>1 DEF Writes
    <2>2. fcb'[f].fsz = Len(Q1[i]) /\ fcb'[f].fsz > 0 /\ fcb'[f].fsa # None
      BY <1>1, <1>2, <1>3, <1>6, <1>8, <2>1, TidyTypes
    <2>3. fcb'[f].fea = Q1[i][fcb'[f].fsz]
      BY <1>6, <1>8, <2>1
    <2>4. fcb'[f].fsa = Q1[i][1]
      <3>1. CASE fcb[f].fsa = None
        <4>1. Len(q) = 0
          BY <1>1, <3>1
        <4> QED  BY <1>6, <1>8, <3>1, <4>1
      <3>2. CASE fcb[f].fsa # None
        <4>1. 1 \in 1..Len(q) /\ fcb[f].fsz > 0
          BY <1>1, <2>1, <3>2
        <4>2. fcb[f].fsa = q[1]
          BY <1>1, <4>1 DEF Writes, Describes
        <4> QED  BY <1>6, <1>8, <3>2, <4>1, <4>2
      <3> QED  BY <3>1, <3>2
    <2>5. Writes(fcb'[f], Q1[i])
      <3>1. Describes(fcb'[f], Q1[i])
        BY <1>6, <1>1, <2>2, <2>3, <2>4 DEF Describes
      <3> QED  BY <1>8, <2>2, <3>1 DEF Writes
    <2> QED  BY <1>1, <1>8, <1>9, <2>5 DEF BlockAt, Writes, Describes
  <1>13. MapsAre(P, m1, Q1)'
    <2>1. MapIs(secmap', P, m + 1, Q1, DirExt)
      BY <1>m, <1>5, <1>9
    <2>2. MapIs(sir, P, 0, Q1, DirExt)
      <3>1. MapIs(sir, P, 0, Q, DirExt)
        BY <1>0, <1>9 DEF Owns, MapsAre
      <3>2. Lost(sir.last, P, Q, DirExt) => Lost(sir.last, P, Q1, DirExt)
        BY <1>5
      <3> QED  BY <3>1, <3>2 DEF MapIs
    <2>3. MapIs(secmap', P, m + 1, Q1, DirExt') /\ MapIs(sir', P, 0, Q1, DirExt')
      BY <1>9, <2>1, <2>2
    <2> QED  BY <1>n, <1>1, <1>9, <2>3 DEF MapsAre, MapIs, Lost
  <1>14. TakenAt(P, m1, Q1)'
    <2> SUFFICES ASSUME NEW j \in 1..(m + 1)
                 PROVE  \E h \in Files : \E k \in 1..Len(Q1[h]) : dir[h].fsz < k /\ P[j] = Q1[h][k]
      BY <1>n, <1>9 DEF TakenAt
    <2>1. CASE j = m + 1
      <3>1. Len(q) + 1 \in 1..Len(Q1[i]) /\ dir[i].fsz < Len(q) + 1
        BY <1>1, <1>6 DEF Describes
      <3> QED  BY <1>1, <1>3, <1>6, <2>1, <3>1
    <2>2. CASE j # m + 1
      <3>1. j \in 1..m
        BY <1>2, <2>2
      <3>2. PICK h \in Files : \E k \in 1..Len(Q[h]) : dir[h].fsz < k /\ P[j] = Q[h][k]
        BY <1>0, <3>1 DEF Owns, TakenAt
      <3>3. h \in DOMAIN Q
        BY <1>2, LiveInDir DEF IInv, HeldIInv
      <3>4. \A k \in 1..Len(Q[h]) : k \in 1..Len(Q1[h]) /\ Q1[h][k] = Q[h][k]
        <4>1. CASE h = i
          BY <1>1, <1>6, <4>1
        <4>2. CASE h # i
          BY <1>6, <3>3, <4>2
        <4> QED  BY <4>1, <4>2
      <3> QED  BY <3>2, <3>4
    <2> QED  BY <2>1, <2>2
  <1>15. Exact(P, m1, Q1)'
    <2> SUFFICES ASSUME ~lossy
                 PROVE  /\ secmap'.count = Len(P) - (m + 1)
                        /\ sir.count = Len(P)
                        /\ \A s \in Sector : ~Lost(s, P, Q1, DirExt)
      BY <1>n, <1>9 DEF Exact, Lost
    <2>1. /\ secmap.count = Len(P) - m /\ sir.count = Len(P)
          /\ \A s \in Sector : ~Lost(s, P, Q, DirExt)
      BY <1>0, <1>1, <1>9 DEF Owns, Exact
    <2>2. secmap'.count = Len(P) - (m + 1)
      <3>1. CASE TakeFirst(secmap).count = secmap.count - 1
        BY <1>2, <1>9, <2>1, <3>1, TidyTypes
      <3>2. CASE m + 1 = Len(P) /\ TakeFirst(secmap) = NoAvail
        BY <1>2, <1>9, <3>2, TidyTypes DEF NoAvail
      <3> QED  BY <1>m, <3>1, <3>2
    <2> QED  BY <1>5, <2>1, <2>2
  <1>16. Owns(P, m1, Q1)'
    <2>1. /\ call \in {Idle, Excls} /\ call'.op \notin {"delete", "extend"}
          /\ \A j \in DOMAIN Q : j # i =>
               \A k \in 1..Len(Q[j]) : link'[Q[j][k]] = link[Q[j][k]]
      <3>1. call'.op = "idle"
        BY DEF Idle
      <3>2. ASSUME NEW j \in DOMAIN Q, j # i, NEW k \in 1..Len(Q[j])
            PROVE  link'[Q[j][k]] = link[Q[j][k]]
        <4>1. Q[j][k] \in Sector /\ (Q[j][k] # q[Len(q)] \/ Len(q) = 0)
          BY <1>1, <1>2, <3>2, TidyTypes
        <4>2. link \in [Sector -> Addr]
          BY DEF IInv, HeldIInv, Types
        <4>3. CASE Len(q) = 0
          BY <1>4, <4>3 DEF Linked
        <4>4. CASE Len(q) # 0
          <5>1. link' = [link EXCEPT ![q[Len(q)]] = P[m + 1]]
            BY <1>4, <4>4 DEF Linked
          <5>2. Q[j][k] \in Sector /\ Q[j][k] # q[Len(q)]
            BY <4>1, <4>4
          <5> HIDE DEF q
          <5> QED  BY <4>2, <5>1, <5>2
        <4> QED  BY <4>3, <4>4
      <3> QED  BY <3>1, <3>2
    <2>2. WritesFile(f, i, Q, Q1)
      BY <1>1, <1>i, <1>6, <1>8, <1>9, <2>1 DEF WritesFile
    <2>3. Sharing /\ Tidy(link', P, m1, Q1, DirExt)
      BY <1>n, <1>5 DEF Layout
    <2> QED  BY <1>0, <1>11, <1>12, <1>13, <1>14, <1>15, <2>2, <2>3, WriterOwns
  <1>17. Sharing'
    <2>1. call.op # "close" /\ fcb'[f].fas # WTAPP
      BY <1>8 DEF Idle, WTAPP
    <2>2. Listed(f)' => \A g \in Fcb : g # f /\ Listed(g) => fcb[g].fcd # fcb'[f].fcd
      BY <1>i, <1>8, <1>9 DEF Layout, Sharing
    <2>3. "append" \in Modes \/ dir[i].fsa = None
      BY <1>i, <1>1, <2>1 DEF Layout, Closes, Sharing
    <2> QED  BY <1>8, <1>9, <2>1, <2>2, <2>3, OneBlockSharing DEF Layout
  <1>18. Extension'
    BY DEF Layout, Extension, Idle
  <1> QED  BY <1>16, <1>17, <1>18 DEF Layout

\* A write of the current sector with an empty link, by WTNEXT on a full disk or by
\* CLOSE, ends the file.
LEMMA EndLayout ==
  ASSUME IInv, Layout, NEW f \in Fcb, Listed(f), call \in {Idle, Excls}, fcb[f].fas = 2,
         fcb[f].fsa # None, link' = [link EXCEPT ![fcb[f].fcs] = None],
         \A g \in Fcb : g # f => fcb'[g] = fcb[g],
         fcb'[f].fas = 2, fcb'[f].fcd = fcb[f].fcd, fcb'[f].fsa = fcb[f].fsa,
         fcb'[f].fea = fcb[f].fea, fcb'[f].fsz = fcb[f].fsz, fcb'[f].fcs = fcb[f].fcs,
         fcb'[f].fwd = None,
         call'.op \in {"idle", "close"}, call'.op = "close" => call'.f = f /\ call'.next = "entry",
         UNCHANGED <<dir, dirext, sir, secmap, loaded, fcblist, lossy>>
  PROVE  Layout'
  <1>0. PICK P, m, Q : Owns(P, m, Q)
    BY DEF Layout
  <1>i. PICK i : i = fcb[f].fcd
    OBVIOUS
  <1> DEFINE q == Q[i]
  <1>1. /\ f \in Writers /\ i # 0 /\ i \in Files /\ i \in 1..Len(dir)
        /\ Writes(fcb[f], q) /\ Len(q) \in Nat /\ q \in Seq(Sector) /\ loaded /\ Len(q) > 0
        /\ fcb[f].fcs = q[Len(q)]
        /\ \A j \in DOMAIN Q : j # i => \A k \in 1..Len(Q[j]) : Q[j][k] # q[Len(q)] \/ Len(q) = 0
    BY <1>0, <1>i, WriterKnows DEF Layout
  <1>2. Tidy(link, P, m, Q, DirExt) /\ i \in DOMAIN Q /\ EntryAt(i, Q)
    BY <1>0, <1>1 DEF Owns
  <1>3. /\ DirExt' = DirExt /\ Files' = Files /\ Torn' = Torn
        /\ \A g \in Fcb : Listed(g)' <=> Listed(g)
        /\ \A j : Closing(j)' => j = i /\ call'.op = "close"
    BY <1>i DEF DirExt, Files, Live, Listed, Closing, Torn, Idle, Excls
  <1>4. Writers' = Writers
    BY <1>3 DEF Writers
  <1>5. link'[q[Len(q)]] = None
    BY <1>1 DEF IInv, HeldIInv, Types
  <1>6. WritesFile(f, i, Q, Q)
    <2>1. \A j \in DOMAIN Q : j # i =>
            \A k \in 1..Len(Q[j]) : link'[Q[j][k]] = link[Q[j][k]]
      <3> SUFFICES ASSUME NEW j \in DOMAIN Q, j # i, NEW k \in 1..Len(Q[j])
                   PROVE  link'[Q[j][k]] = link[Q[j][k]]
        OBVIOUS
      <3>1. Q[j][k] \in Sector /\ Q[j][k] # q[Len(q)]
        BY <1>1, <1>2, TidyTypes
      <3> HIDE DEF q
      <3> QED  BY <1>1, <3>1 DEF IInv, HeldIInv, Types
    <2> QED  BY <1>1, <1>i, <1>3, <2>1 DEF WritesFile
  <1>7. Tidy(link', P, m, Q, DirExt)
    <2>1. link' = Linked(link, q, None)
      BY <1>1 DEF Linked
    <2>2. Tidy(Linked(link, Q[i], None), P, m, Q, DirExt)
      BY <1>1, <1>2, TidyEnd, Zenon
    <2> QED  BY <2>1, <2>2
  <1>8. EntryAt(i, Q)'
    <2>1. ~Whole(i)'
      BY <1>1, <1>i, <1>3, <1>4 DEF Whole
    <2>2. Describes(dir[i], q)
      BY <1>1, <1>2 DEF EntryAt
    <2> QED  BY <1>1, <1>3, <1>5, <2>1, <2>2 DEF EntryAt, Describes
  <1>9. BlockAt(f, Q)'
    <2>1. Writes(fcb'[f], q)
      BY <1>1 DEF Writes, Describes
    <2> QED  BY <1>1, <1>i, <1>3, <2>1 DEF BlockAt, Writes, Describes
  <1>10. MapsAre(P, m, Q)' /\ Exact(P, m, Q)'
    BY <1>0, <1>1, <1>3, SameMaps DEF Owns
  <1>11. TakenAt(P, m, Q)'
    BY <1>0, <1>3 DEF Owns, TakenAt
  <1>12. Owns(P, m, Q)'
    BY <1>0, <1>6, <1>7, <1>8, <1>9, <1>10, <1>11, WriterOwns DEF Layout
  <1>13. Sharing'
    <2>1. call.op # "close" /\ fcb'[f].fas # WTAPP
      BY DEF Idle, Excls, WTAPP
    <2>2. Listed(f)' => \A g \in Fcb : g # f /\ Listed(g) => fcb[g].fcd # fcb'[f].fcd
      BY <1>3 DEF Layout, Sharing
    <2>3. "append" \in Modes \/ dir[i].fsa = None
      BY <1>i, <1>1, <2>1 DEF Layout, Closes, Sharing
    <2> QED  BY <1>i, <1>3, <2>1, <2>2, <2>3, OneBlockSharing DEF Layout
  <1>14. Extension'
    BY DEF Layout, Extension
  <1> QED  BY <1>12, <1>13, <1>14 DEF Layout

\* WTNEXT: the file grows, or the disk is full.
LEMMA WritingLayout ==
  ASSUME IInv, Callers, Layout, NEW f \in Fcb, Writing(f)
  PROVE  Layout'
  <1>0. /\ fcb[f] \in Block /\ Listed(f) /\ call = Idle /\ fcb[f].fas = 2
        /\ UNCHANGED <<dir, dirext, sir, loaded, fcblist, call, lossy>>
    BY DEF Writing, WriteFirst, WriteNext, WriteFull, CallerUses, CallerChanges, CallerFree,
           disk, IInv, HeldIInv, Types
  <1>1. CASE WriteFirst(f)
    BY <1>0, <1>1, AssignLayout DEF WriteFirst, disk
  <1>2. CASE WriteNext(f)
    <2> DEFINE b == [fcb[f] EXCEPT !.fwd = secmap.first]
    <2>1. ~Fault("write")
      BY DEF Callers, Fault, May
    <2>2. WriteData(b.fcs, b.fwd, b.tag) /\ ASNNXT(f, b) /\ fcb[f].fsa # None /\ secmap.first # None
      BY <1>2, <2>1 DEF WriteNext
    <2>3. /\ b \in Block /\ b.fas = fcb[f].fas /\ b.fcd = fcb[f].fcd /\ b.fsa = fcb[f].fsa
          /\ b.fsz = fcb[f].fsz /\ b.fcs = fcb[f].fcs /\ b.fwd = secmap.first
      BY <1>0 DEF Block, Fields, Buffered, IInv, HeldIInv, Types, Map
    <2> HIDE DEF b
    <2>4. link' = [link EXCEPT ![fcb[f].fcs] = secmap.first]
      BY <2>2, <2>3 DEF WriteData
    <2> QED  BY <1>0, <2>2, <2>3, <2>4, AssignLayout
  <1>3. CASE WriteFull(f)
    <2> DEFINE b == [fcb[f] EXCEPT !.fwd = None]
    <2>1. fcb' = [fcb EXCEPT ![f] = b]
      BY <1>3 DEF WriteFull, IInv, HeldIInv, Types
    <2>2. /\ b.fas = fcb[f].fas /\ b.fcd = fcb[f].fcd /\ b.fsa = fcb[f].fsa
          /\ b.fsz = fcb[f].fsz /\ b.fcs = fcb[f].fcs /\ b.fea = fcb[f].fea /\ b.fwd = None
      BY <1>0 DEF Block, Fields
    <2> HIDE DEF b
    <2>3. fcb'[f] = b /\ \A g \in Fcb : g # f => fcb'[g] = fcb[g]
      BY <2>1 DEF IInv, HeldIInv, Types
    <2>4. /\ link' = [link EXCEPT ![fcb[f].fcs] = None] /\ fcb[f].fsa # None
          /\ secmap' = secmap
      <3>1. ~Fault("write")
        BY DEF Callers, Fault, May
      <3> QED  BY <1>3, <3>1 DEF WriteFull, WriteData
    <2>5. call'.op = "idle" /\ call \in {Idle, Excls}
      BY <1>0 DEF Idle
    <2> QED  BY <1>0, <2>2, <2>3, <2>4, <2>5, EndLayout
  <1> QED  BY <1>1, <1>2, <1>3 DEF Writing

\* A map that was right for the pool is right for what the links of it lead through.
LEMMA MapKept ==
  ASSUME NEW P, NEW Q, NEW P1, NEW Q1, NEW X, NEW map, MapIs(map, P, 0, Q, X),
         Len(P) \in Nat, Len(P1) \in Nat, Len(P) > 0, Len(P1) > 0, P1[1] = P[1],
         \A s : Lost(s, P, Q, X) => Lost(s, P1, Q1, X),
         P[Len(P)] = P1[Len(P1)] \/ Lost(P[Len(P)], P1, Q1, X)
  PROVE  MapIs(map, P1, 0, Q1, X)
  <1>1. map.first = P[1] /\ map.last # None /\ (map.last = P[Len(P)] \/ Lost(map.last, P, Q, X))
    BY DEF MapIs
  <1>2. map.last = P1[Len(P1)] \/ Lost(map.last, P1, Q1, X)
    BY <1>1
  <1> QED  BY <1>1, <1>2 DEF MapIs

\* INIT: the files are what the directory says, and the pool is what the links of the
\* recorded first sector lead through.
LEMMA InitStepLayout ==
  ASSUME IInv, Layout, INIT, UNCHANGED <<link, dir, dirext, sir>>, ~Torn,
         \A f \in Writers : dir[fcb[f].fcd].fsa # None => fcb[f].fea = dir[fcb[f].fcd].fea
  PROVE  Layout'
  <1>0. PICK P, m, Q : Owns(P, m, Q)
    BY DEF Layout
  <1>d. PICK d : d = dir
    OBVIOUS
  <1>q. PICK Q1 : Q1 = [i \in DOMAIN Q |-> IF i \in Files THEN SubSeq(Q[i], 1, d[i].fsz) ELSE <<>>]
    OBVIOUS
  <1>1. /\ \A f \in Fcb : ~Listed(f)' /\ fcb'[f].fas = 0
        /\ Writers' = {} /\ call' = Idle /\ DirExt' = DirExt /\ Files' = Files
        /\ ~Torn' /\ ~loaded' /\ secmap' = NoAvail
        /\ \A i : Whole(i)' /\ ~Closing(i)'
    <2>1. /\ \A f \in Fcb : ~Listed(f)' /\ fcb'[f].fas = 0
          /\ call' = Idle /\ ~loaded' /\ secmap' = NoAvail
      BY DEF INIT, Listed, Range, Blank
    <2>2. Writers' = {}
      BY <2>1 DEF Writers
    <2>3. call.op # "delete" /\ call'.op = "idle"
      BY <2>1 DEF Torn, Idle
    <2>4. DirExt' = DirExt /\ Files' = Files
      BY <2>3 DEF DirExt, Files, Live
    <2> QED  BY <2>1, <2>2, <2>3, <2>4 DEF Torn, Whole, Closing
  <1>2. /\ Tidy(link, P, m, Q, DirExt) /\ DOMAIN Q = 1..Len(dir)
        /\ \A i \in DOMAIN Q : Q[i] \in Seq(Sector) /\ Len(Q[i]) \in Nat
        /\ Len(P) \in Nat /\ m \in Nat /\ m <= Len(P)
    BY <1>0, TidyTypes DEF Owns
  <1>3. ASSUME NEW i \in Files
        PROVE  /\ i \in DOMAIN Q /\ Describes(dir[i], Q[i]) /\ dir[i].fsz \in Nat
               /\ dir[i].fsz > 0 => link[Q[i][dir[i].fsz]] = None
               /\ (\A f \in Fcb : ~Unrecorded(f)) => dir[i].fsz = Len(Q[i])
    <2>1. i \in DOMAIN Q /\ EntryAt(i, Q) /\ dir[i].fsz \in Nat
      BY <1>0, <1>2, <1>3, LiveInDir DEF Owns, IInv, HeldIInv, DirEntry
    <2>2. Describes(dir[i], Q[i]) /\ Len(Q[i]) \in Nat
      BY <1>2, <1>3, <2>1 DEF EntryAt
    <2>3. dir[i].fsz = Len(Q[i]) /\ dir[i].fsz > 0 => link[Q[i][dir[i].fsz]] = None
      BY <1>3, <2>1 DEF EntryAt
    <2>4. CASE \A f \in Writers : fcb[f].fcd # i
      <3>1. dir[i].fsz = Len(Q[i])
        BY <1>3, <2>1, <2>4 DEF EntryAt, Whole
      <3> QED  BY <2>1, <2>2, <2>3, <3>1
    <2>5. ASSUME NEW f \in Writers, fcb[f].fcd = i
          PROVE  /\ dir[i].fsz > 0 => link[Q[i][dir[i].fsz]] = None
                 /\ (\A g \in Fcb : ~Unrecorded(g)) => dir[i].fsz = Len(Q[i])
      <3>1. f \in Fcb /\ Writes(fcb[f], Q[i])
        BY <1>0, <2>5 DEF Owns, BlockAt, Writers
      <3>2. fcb[f].fsz = Len(Q[i])
        BY <3>1 DEF Writes
      <3>3. (\A g \in Fcb : ~Unrecorded(g)) => dir[i].fsz = Len(Q[i])
        BY <2>5, <3>1, <3>2 DEF Unrecorded
      <3>4. ASSUME dir[i].fsz > 0  PROVE dir[i].fsz = Len(Q[i])
        <4>1. dir[i].fsa # None /\ dir[i].fea = Q[i][dir[i].fsz] /\ dir[i].fsz \in 1..Len(Q[i])
          BY <2>1, <2>2, <3>4 DEF Describes
        <4>2. fcb[f].fea = dir[i].fea
          BY <2>5, <4>1
        <4>3. fcb[f].fea = Q[i][Len(Q[i])] /\ Len(Q[i]) \in 1..Len(Q[i])
          BY <2>2, <3>1, <3>2, <4>1 DEF Writes, Describes
        <4>4. \A k, l \in 1..Len(Q[i]) : Q[i][k] = Q[i][l] => k = l
          BY <1>2, <2>1 DEF Tidy, Apart
        <4>5. Q[i][dir[i].fsz] = Q[i][Len(Q[i])]
          BY <4>1, <4>2, <4>3
        <4> QED  BY <4>1, <4>3, <4>4, <4>5
      <3> QED  BY <2>3, <3>3, <3>4
    <2> QED  BY <2>1, <2>2, <2>4, <2>5
  <1>4. /\ DOMAIN Q1 = DOMAIN Q
        /\ \A i \in Files : /\ Q1[i] \in Seq(Sector) /\ Len(Q1[i]) = dir[i].fsz
                            /\ \A k \in 1..dir[i].fsz : Q1[i][k] = Q[i][k]
        /\ \A i \in DOMAIN Q : i \notin Files => Q1[i] = <<>>
    <2>1. DOMAIN Q1 = DOMAIN Q /\ \A i \in DOMAIN Q : i \notin Files => Q1[i] = <<>>
      BY <1>q
    <2>2. ASSUME NEW i \in Files
          PROVE  /\ Q1[i] \in Seq(Sector) /\ Len(Q1[i]) = dir[i].fsz
                 /\ \A k \in 1..dir[i].fsz : Q1[i][k] = Q[i][k]
      <3>1. i \in DOMAIN Q /\ dir[i].fsz \in Nat /\ dir[i].fsz <= Len(Q[i])
        BY <1>3, <2>2 DEF Describes
      <3>2. Q1[i] = SubSeq(Q[i], 1, dir[i].fsz)
        BY <1>d, <1>q, <2>2, <3>1
      <3> QED  BY <1>2, <3>1, <3>2
    <2> QED  BY <2>1, <2>2
  <1>5. Begins(Q1, Q)
    <2>1. ASSUME NEW i \in DOMAIN Q
          PROVE  /\ Q1[i] \in Seq(Sector) /\ Len(Q1[i]) <= Len(Q[i])
                 /\ \A k \in 1..Len(Q1[i]) : Q1[i][k] = Q[i][k]
      <3>1. CASE i \in Files
        <4>1. dir[i].fsz <= Len(Q[i])
          BY <1>3, <3>1 DEF Describes
        <4> QED  BY <1>4, <3>1, <4>1
      <3>2. CASE i \notin Files
        <4>1. Q1[i] = <<>> /\ Len(Q[i]) \in Nat
          BY <1>2, <1>4, <2>1, <3>2
        <4>2. Len(Q1[i]) = 0 /\ Q1[i] \in Seq(Sector)
          BY <4>1
        <4> QED  BY <4>1, <4>2
      <3> QED  BY <3>1, <3>2
    <2>2. Q1 \in [DOMAIN Q -> Seq(Sector)]
      BY <1>q, <2>1
    <2> QED  BY <2>1, <2>2 DEF Begins
  <1>6. Tidy(link, P, m, Q1, DirExt) /\ \A s : Lost(s, P, Q, DirExt) => Lost(s, P, Q1, DirExt)
    BY <1>2, <1>5, TidyForget
  <1>7. MapIs(sir, P, 0, Q, DirExt)
    BY <1>0 DEF Owns, MapsAre
  <1>8. ASSUME NEW P1, Tidy(link, P1, 0, Q1, DirExt), MapIs(sir, P1, 0, Q1, DirExt),
               ~lossy' => P1 = P
        PROVE  Owns(P1, 0, Q1)'
    <2>1. ASSUME NEW i \in 1..Len(dir')  PROVE EntryAt(i, Q1)'
      <3>1. CASE i \in Files
        <4>1. Describes(dir[i], Q1[i])
          BY <1>3, <1>4, <3>1 DEF Describes
        <4>2. dir[i].fsz = Len(Q1[i]) /\ (Len(Q1[i]) > 0 => link[Q1[i][Len(Q1[i])]] = None)
          BY <1>3, <1>4, <3>1
        <4> QED  BY <1>1, <3>1, <4>1, <4>2 DEF EntryAt, Describes
      <3>2. CASE i \notin Files
        BY <1>1, <1>2, <1>4, <2>1, <3>2 DEF EntryAt
      <3> QED  BY <3>1, <3>2
    <2>2. \A f \in Fcb : BlockAt(f, Q1)'
      BY <1>1 DEF BlockAt
    <2>3. MapsAre(P1, 0, Q1)'
      BY <1>1, <1>8 DEF MapsAre, MapIs, Lost
    <2>4. TakenAt(P1, 0, Q1)'
      BY DEF TakenAt
    <2>5. Exact(P1, 0, Q1)'
      <3> SUFFICES ASSUME ~lossy'
                   PROVE  sir.count = Len(P1) /\ \A s \in Sector : ~Lost(s, P1, Q1, DirExt)
        BY <1>1 DEF Exact, Lost
      <3>1. ~lossy /\ (\A f \in Fcb : ~Unrecorded(f)) /\ P1 = P
        BY <1>8 DEF INIT
      <3>2. sir.count = Len(P) /\ \A s \in Sector : ~Lost(s, P, Q, DirExt)
        BY <1>0, <3>1 DEF Owns, Exact
      <3>3. ASSUME NEW s \in Sector, Lost(s, P, Q1, DirExt)  PROVE Lost(s, P, Q, DirExt)
        <4>1. ASSUME NEW i \in DOMAIN Q, NEW k \in 1..Len(Q[i])  PROVE Q[i][k] # s
          <5>1. CASE i \in Files
            <6>1. dir[i].fsz = Len(Q[i])
              BY <1>3, <3>1, <5>1
            <6> QED  BY <1>4, <3>3, <4>1, <5>1, <6>1 DEF Lost
          <5>2. CASE i \notin Files
            BY <1>0, <1>2, <4>1, <5>2 DEF Owns, EntryAt
          <5> QED  BY <5>1, <5>2
        <4> QED  BY <3>3, <4>1 DEF Lost
      <3> QED  BY <3>1, <3>2, <3>3
    <2>6. Tidy(link, P1, 0, Q1, DirExt)'
      BY <1>1, <1>8 DEF Tidy, Pooled, InOrder, Chained, Apart
    <2> QED  BY <1>2, <1>4, <2>1, <2>2, <2>3, <2>4, <2>5, <2>6 DEF Owns
  <1>9. \E P1 : Tidy(link, P1, 0, Q1, DirExt) /\ MapIs(sir, P1, 0, Q1, DirExt) /\ (~lossy' => P1 = P)
    <2>1. CASE m = 0
      <3>1. MapIs(sir, P, 0, Q1, DirExt)
        BY <1>6, <1>7 DEF MapIs
      <3> QED  BY <1>6, <2>1, <3>1
    <2>2. CASE m # 0
      <3>1. \A j \in 1..Len(P) : \A i \in DOMAIN Q1 : \A k \in 1..Len(Q1[i]) : P[j] # Q1[i][k]
        <4> SUFFICES ASSUME NEW j \in 1..Len(P), NEW i \in DOMAIN Q, NEW k \in 1..Len(Q1[i])
                     PROVE  P[j] # Q1[i][k]
          BY <1>4
        <4>1. CASE j \in 1..m
          <5>1. PICK h \in Files : \E l \in 1..Len(Q[h]) : dir[h].fsz < l /\ P[j] = Q[h][l]
            BY <1>0, <4>1 DEF Owns, TakenAt
          <5>2. PICK l \in 1..Len(Q[h]) : dir[h].fsz < l /\ P[j] = Q[h][l]
            BY <5>1
          <5>3. i \in Files
            BY <1>4
          <5>4. k \in 1..dir[i].fsz /\ k \in 1..Len(Q[i]) /\ Q1[i][k] = Q[i][k] /\ dir[i].fsz \in Nat
            BY <1>2, <1>3, <1>4, <5>3 DEF Describes
          <5>5. h \in DOMAIN Q
            BY <1>3
          <5>6. i = h /\ k = l => FALSE
            BY <5>2, <5>4
          <5> QED  BY <1>2, <5>2, <5>4, <5>5, <5>6 DEF Tidy, Apart
        <4>2. CASE j \notin 1..m
          <5>1. j > m
            BY <1>2, <4>2
          <5> QED  BY <1>4, <1>6, <5>1 DEF Tidy, Apart
        <4> QED  BY <4>1, <4>2
      <3>2. Len(P) > 0
        BY <1>2, <2>2
      <3>3. PICK P1 : /\ Tidy(link, P1, 0, Q1, DirExt) /\ Len(P1) > 0 /\ P1[1] = P[1]
                      /\ \A s : Lost(s, P, Q1, DirExt) => Lost(s, P1, Q1, DirExt)
                      /\ P[Len(P)] = P1[Len(P1)] \/ Lost(P[Len(P)], P1, Q1, DirExt)
        BY <1>6, <3>1, <3>2, TidyWalk
      <3>4. MapIs(sir, P1, 0, Q1, DirExt)
        <4>1. Len(P1) \in Nat
          BY <3>3, TidyTypes
        <4>2. \A s : Lost(s, P, Q, DirExt) => Lost(s, P1, Q1, DirExt)
          BY <1>6, <3>3
        <4> QED  BY <1>2, <1>7, <3>2, <3>3, <4>1, <4>2, MapKept
      <3>5. lossy'
        <4> SUFFICES ASSUME \A f \in Fcb : ~Unrecorded(f)  PROVE FALSE
          BY DEF INIT
        <4>1. 1 \in 1..m
          BY <1>2, <2>2
        <4>2. PICK h \in Files : \E l \in 1..Len(Q[h]) : dir[h].fsz < l /\ P[1] = Q[h][l]
          BY <1>0, <4>1 DEF Owns, TakenAt
        <4>3. dir[h].fsz = Len(Q[h]) /\ Len(Q[h]) \in Nat
          BY <1>2, <1>3
        <4> QED  BY <4>2, <4>3
      <3> QED  BY <3>3, <3>4, <3>5
    <2> QED  BY <2>1, <2>2
  <1>10. Sharing'
    BY <1>1 DEF Sharing, WTAPP
  <1>11. Extension'
    BY <1>1 DEF Layout, Extension, Idle
  <1> QED  BY <1>8, <1>9, <1>10, <1>11 DEF Layout

-----------------------------------------------------------------------------
\* CLOSE of a block that wrote nothing: it leaves the list, or stays there with
\* another status.
LEMMA DroppedLayout ==
  ASSUME IInv, Layout, NEW f \in Fcb, Listed(f), call \in {Idle, Excls}, call' \in {Idle, Excls},
         UNCHANGED <<link, dir, dirext, sir, secmap, loaded, lossy>>,
         NEW b \in Block, fcb' = [fcb EXCEPT ![f] = b],
         \/ fcblist' = REMFCB(f) /\ b.fas = 0
         \/ fcblist' = fcblist /\ b.fas = 3 /\ fcb[f].fas = 131
            /\ b.fcd = fcb[f].fcd /\ b.fcs = fcb[f].fcs /\ b.fwd = fcb[f].fwd
            /\ b.fsb = fcb[f].fsb
         \/ fcblist' = fcblist /\ b.fas = 0 /\ b.fcd = fcb[f].fcd,
         fcb[f].fas # 2 \/ fcb[f].fsa = None
  PROVE  Layout'
  <1>0. PICK P, m, Q : Owns(P, m, Q)
    BY DEF Layout
  <1>1. /\ \A g \in Fcb : fcb'[g] = IF g = f THEN b ELSE fcb[g]
        /\ \A g \in Fcb : g # f => (Listed(g)' <=> Listed(g))
        /\ f \notin Writers'
    <2>1. b.fas # 2 /\ (fcblist' = fcblist \/ fcblist' = REMFCB(f))
      OBVIOUS
    <2>2. /\ \A g \in Fcb : fcb'[g] = IF g = f THEN b ELSE fcb[g]
          /\ \A g \in Fcb : g # f => (Listed(g)' <=> Listed(g))
      <3>1. Types /\ ListInv
        BY DEF IInv, HeldIInv
      <3> QED  BY <2>1, <3>1, BlockStep
    <2> QED  BY <2>1, <2>2 DEF Writers
  <1>2. Files' = Files /\ (Torn' <=> Torn)
    BY DEF Files, Live, Torn, Idle, Excls
  <1>3. f \in Writers => Len(Q[fcb[f].fcd]) = 0
    <2> SUFFICES ASSUME f \in Writers, fcb[f].fas = 2, fcb[f].fsa = None
                 PROVE  Len(Q[fcb[f].fcd]) = 0
      BY DEF Writers
    <2> QED  BY <1>0, WriterKnows DEF Layout
  <1>4. BlockAt(f, Q)'
    <2>1. CASE fcblist' = REMFCB(f)
      BY <2>1, RemfcbProperties DEF BlockAt, Listed, IInv, HeldIInv, Types, ListInv, NoTwice
    <2>2. CASE fcblist' = fcblist
      <3>1. BlockAt(f, Q) /\ fcb[f].fcd # 0 /\ b.fcd = fcb[f].fcd
        <4>1. fcblist' = REMFCB(f) => FALSE
          BY <2>2, RemfcbProperties DEF Listed, IInv, HeldIInv, Types, ListInv, NoTwice
        <4> QED  BY <1>0, <4>1 DEF Owns, BlockAt, Idle, Excls
      <3>2. fcb[f].fcd \in Files
        BY <3>1 DEF BlockAt
      <3>3. CASE b.fas = 0
        BY <1>1, <1>2, <3>1, <3>2, <3>3 DEF BlockAt
      <3>4. CASE b.fas # 0
        <4>1. /\ b.fas = 3 /\ fcb[f].fas = 131 /\ b.fcs = fcb[f].fcs /\ b.fwd = fcb[f].fwd
              /\ b.fsb = fcb[f].fsb
          BY <3>4
        <4>2. ReadsAt(fcb[f], Q[fcb[f].fcd], link)
          BY <3>1, <4>1 DEF BlockAt
        <4>3. ReadsAt(b, Q[b.fcd], link)
          BY <3>1, <4>1, <4>2 DEF ReadsAt
        <4> QED  BY <1>1, <1>2, <3>1, <3>2, <4>1, <4>3 DEF BlockAt, ReadsAt
      <3> QED  BY <3>3, <3>4
    <2> QED  BY <2>1, <2>2
  <1>5. MapsAre(P, m, Q)' /\ Exact(P, m, Q)'
    <2>1. Writers' \subseteq Writers
      BY <1>1 DEF Writers
    <2> QED  BY <1>0, <1>2, <2>1, SameMaps DEF Owns, MapsAre
  <1>6. Owns(P, m, Q)'
    BY <1>0, <1>1, <1>3, <1>4, <1>5, OneBlockOwns
  <1>7. Sharing'
    <2>1. call.op # "close" /\ fcb'[f].fas # WTAPP
      BY <1>1 DEF Idle, Excls, WTAPP
    <2>2. Listed(f)' => \A g \in Fcb : g # f /\ Listed(g) => fcb[g].fcd # fcb'[f].fcd
      <3>1. CASE fcblist' = REMFCB(f)
        BY <3>1, RemfcbProperties DEF Listed, IInv, HeldIInv, Types, ListInv, NoTwice
      <3>2. CASE fcblist' # REMFCB(f)
        BY <1>1, <3>2 DEF Layout, Sharing
      <3> QED  BY <3>1, <3>2
    <2> QED  BY <1>1, <2>1, <2>2, OneBlockSharing DEF Layout
  <1>8. Extension'
    BY DEF Layout, Extension, Idle, Excls
  <1> QED  BY <1>6, <1>7, <1>8 DEF Layout

\* CLOSE2 deletes the entry of a file that was never written.
LEMMA UnnamedLayout ==
  ASSUME IInv, Layout, NEW f \in Fcb, Listed(f), call \in {Idle, Excls}, call' \in {Idle, Excls},
         UNCHANGED <<link, dirext, sir, secmap, loaded, lossy>>,
         fcb[f].fas = 2, fcb[f].fsa = None,
         WriteEntry(fcb[f].fcd, NoFile(Deleted)),
         fcb' = [fcb EXCEPT ![f] = Blank], fcblist' = REMFCB(f)
  PROVE  Layout'
  <1>0. PICK P, m, Q : Owns(P, m, Q)
    BY DEF Layout
  <1>i. PICK i : i = fcb[f].fcd
    OBVIOUS
  <1>1. /\ f \in Writers /\ i # 0 /\ i \in Files /\ i \in 1..Len(dir) /\ Len(Q[i]) = 0
        /\ Q[i] \in Seq(Sector) /\ loaded
    BY <1>0, <1>i, WriterKnows DEF Layout
  <1>2. /\ \A g \in Fcb : fcb'[g] = IF g = f THEN Blank ELSE fcb[g]
        /\ \A g \in Fcb : g # f => (Listed(g)' <=> Listed(g))
        /\ ~Listed(f)'
    BY BlockStep, Values DEF IInv, HeldIInv
  <1>3. /\ Len(dir') = Len(dir) /\ dir' \in Seq(DirEntry) /\ Len(dir) \in Nat
        /\ \A k \in 1..Len(dir) : dir'[k] = IF k = i THEN NoFile(Deleted) ELSE dir[k]
        /\ NoFile(Deleted).name = Deleted
    BY <1>i, Values, WriteEntryTypes DEF IInv, HeldIInv, Types, NoFile, Entry
  <1>4. /\ Files' = Files \ {i} /\ DirExt' = DirExt
        /\ (Torn' <=> Torn) /\ \A j : ~Closing(j)' /\ ~Closing(j)
    <2>1. DOMAIN dir' = 1..Len(dir) /\ DOMAIN dir = 1..Len(dir)
      BY <1>3, LiveInDir DEF IInv, HeldIInv
    <2>2. Files' = Files \ {i}
      BY <1>1, <1>3, <2>1 DEF Files, Live, Idle, Excls
    <2> QED  BY <2>2 DEF DirExt, Torn, Closing, Idle, Excls
  <1>5. Tidy(link, P, m, Q, DirExt)' /\ DOMAIN Q = 1..Len(dir')
    BY <1>0, <1>3, <1>4 DEF Owns, Tidy, Pooled, InOrder, Chained, Apart
  <1>6. \A g \in Fcb : g # f /\ Listed(g) => fcb[g].fcd # i
    BY <1>i DEF Layout, Sharing
  <1>7. ASSUME NEW j \in 1..Len(dir')  PROVE EntryAt(j, Q)'
    <2>1. CASE j = i
      <3>1. Q[i] = <<>>
        BY <1>1
      <3> QED  BY <1>4, <2>1, <3>1 DEF EntryAt
    <2>2. CASE j # i
      <3>1. Whole(j)' => Whole(j)
        <4> SUFFICES ASSUME \A g \in Writers' : fcb'[g].fcd # j, NEW g \in Writers
                     PROVE  fcb[g].fcd # j
          BY <1>4 DEF Whole
        <4>1. CASE g = f
          BY <1>i, <2>2, <4>1
        <4>2. CASE g # f
          BY <1>2, <4>2 DEF Writers
        <4> QED  BY <4>1, <4>2
      <3>2. dir'[j] = dir[j] /\ EntryAt(j, Q) /\ (j \in Files <=> j \in Files')
        BY <1>0, <1>3, <1>4, <1>7, <2>2 DEF Owns
      <3> QED  BY <1>4, <3>1, <3>2, EntryKept
    <2> QED  BY <2>1, <2>2
  <1>8. ASSUME NEW g \in Fcb  PROVE BlockAt(g, Q)'
    <2>1. CASE g = f
      BY <1>2, <2>1 DEF BlockAt
    <2>2. CASE g # f
      <3>1. BlockAt(g, Q) /\ (Listed(g) => fcb[g].fcd # 0)
        BY <1>0 DEF Owns, BlockAt, Idle, Excls
      <3>2. Listed(g) => fcb[g].fcd \in Files'
        BY <1>4, <1>6, <2>2, <3>1 DEF BlockAt
      <3> QED  BY <1>2, <2>2, <3>1, <3>2, BlockKept
    <2> QED  BY <2>1, <2>2
  <1>9. MapsAre(P, m, Q)' /\ Exact(P, m, Q)'
    BY <1>0, <1>1, <1>4, SameMaps DEF Owns
  <1>10. TakenAt(P, m, Q)'
    <2> SUFFICES ASSUME NEW j \in 1..m
                 PROVE  \E h \in Files' : \E k \in 1..Len(Q[h]) : dir'[h].fsz < k /\ P[j] = Q[h][k]
      BY DEF TakenAt
    <2>1. PICK h \in Files : \E k \in 1..Len(Q[h]) : dir[h].fsz < k /\ P[j] = Q[h][k]
      BY <1>0 DEF Owns, TakenAt
    <2>2. h # i
      BY <1>1, <2>1
    <2>3. h \in Files' /\ dir'[h] = dir[h]
      BY <1>3, <1>4, <2>2, LiveInDir DEF IInv, HeldIInv
    <2> QED  BY <2>1, <2>3
  <1>11. Owns(P, m, Q)'
    BY <1>5, <1>7, <1>8, <1>9, <1>10 DEF Owns
  <1>12. Sharing'
    <2>1. call.op # "close" /\ fcb'[f].fas # WTAPP
      BY <1>2 DEF Idle, Excls, WTAPP, Blank
    <2>2. \A g \in Writers : g # f => dir'[fcb[g].fcd].fsa = dir[fcb[g].fcd].fsa
      <3> SUFFICES ASSUME NEW g \in Writers, g # f
                   PROVE  dir'[fcb[g].fcd].fsa = dir[fcb[g].fcd].fsa
        OBVIOUS
      <3>1. fcb[g].fcd \in 1..Len(dir) /\ fcb[g].fcd # i
        BY <1>6 DEF IInv, HeldIInv, DirInv, Located, Writers
      <3> QED  BY <1>3, <3>1
    <2> QED  BY <1>2, <2>1, <2>2, OneBlockSharing DEF Layout, Writers
  <1>13. Extension'
    BY DEF Layout, Extension, Idle, Excls
  <1> QED  BY <1>11, <1>12, <1>13 DEF Layout

\* One call of CLOSE, up to its first write that ends no call.
LEMMA CloseLayout ==
  ASSUME IInv, Callers, Layout, NEW f \in Fcb, NEW then, Listed(f), call \in {Idle, Excls},
         then = "excls" => call = Excls, CLOSE(f, then)
  PROVE  Layout'
  <1>0. /\ fcb[f] \in Block /\ fcb[f].fas # WTAPP /\ Blank \in Block /\ Blank.fas = 0
        /\ call.op # "close"
    BY Values DEF IInv, HeldIInv, Types, Layout, Sharing, Blank, Idle, Excls
  <1>1. ASSUME Closed(f, then)
        PROVE  /\ fcb' = [fcb EXCEPT ![f] = Blank] /\ fcblist' = REMFCB(f)
               /\ call' \in {Idle, Excls} /\ UNCHANGED <<secmap, loaded, lossy>>
    BY <1>1 DEF Closed
  <1>7. ASSUME INIT, UNCHANGED <<link, dir, dirext, sir>>, "append" \notin Modes  PROVE Layout'
    <2>1. \A g \in Writers : dir[fcb[g].fcd].fsa = None
      BY <1>0, <1>7 DEF Layout, Closes, Sharing
    <2>2. ~Torn
      BY DEF Torn, Idle, Excls
    <2> QED  BY <1>7, <2>1, <2>2, InitStepLayout
  <1>2. ASSUME NEW b \in Block, CloseFails(f, then, b), UNCHANGED <<link, dir, dirext, sir>>,
               \/ b.fas = 3 /\ fcb[f].fas = 131 /\ May("update")
                  /\ b.fcs = fcb[f].fcs /\ b.fwd = fcb[f].fwd /\ b.fsb = fcb[f].fsb
               \/ b.fas = 0 /\ May("empty") /\ fcb[f].fsa = None,
               b.fcd = fcb[f].fcd
        PROVE  Layout'
    <2>1. "append" \notin Modes
      BY <1>2 DEF May, Callers
    <2>2. CASE INIT
      BY <1>2, <1>7, <2>1, <2>2
    <2>3. CASE ~INIT
      <3>1. /\ fcb' = [fcb EXCEPT ![f] = b] /\ call' \in {Idle, Excls} /\ fcblist' = fcblist
            /\ UNCHANGED <<secmap, loaded, lossy>>
        BY <1>2, <2>3 DEF CloseFails
      <3>2. fcb[f].fas # 2 \/ fcb[f].fsa = None
        BY <1>2
      <3>3. \/ fcblist' = fcblist /\ b.fas = 3 /\ fcb[f].fas = 131
               /\ b.fcd = fcb[f].fcd /\ b.fcs = fcb[f].fcs /\ b.fwd = fcb[f].fwd
               /\ b.fsb = fcb[f].fsb
            \/ fcblist' = fcblist /\ b.fas = 0 /\ b.fcd = fcb[f].fcd
        BY <1>2, <3>1
      <3> QED  BY <1>2, <3>1, <3>2, <3>3, DroppedLayout
    <2> QED  BY <2>2, <2>3
  <1>3. CASE CloseRead(f, then)
    <2> DEFINE b == [fcb[f] EXCEPT !.fas = 3]
    <2>1. /\ b \in Block /\ b.fas = 3 /\ b.fcs = fcb[f].fcs /\ b.fwd = fcb[f].fwd
          /\ b.fcd = fcb[f].fcd /\ b.fsb = fcb[f].fsb
      BY <1>0 DEF Block, Fields, Buffered
    <2>2. UNCHANGED <<dir, dirext, sir>> /\ fcb[f].fas \in {0, 1, 3, 131}
      BY <1>3 DEF CloseRead
    <2>3. \/ fcb[f].fas # 131 /\ Closed(f, then) /\ link' = link
          \/ fcb[f].fas = 131 /\ Closed(f, then) /\ link' = [link EXCEPT ![fcb[f].fcs] = fcb[f].fwd]
          \/ fcb[f].fas = 131 /\ May("update") /\ CloseFails(f, then, b) /\ link' = link
      BY <1>3 DEF CloseRead, WriteData, Fault
    <2> HIDE DEF b
    <2>4. CASE Closed(f, then)
      <3>1. link' = link
        <4>1. CASE fcb[f].fas = 131 /\ link' = [link EXCEPT ![fcb[f].fcs] = fcb[f].fwd]
          <5>1. PICK P, m, Q : Owns(P, m, Q)
            BY DEF Layout
          <5>2. fcb[f].fcs # None => [link EXCEPT ![fcb[f].fcs] = fcb[f].fwd] = link
            BY <4>1, <5>1, ReaderKnows DEF Layout
          <5>3. fcb[f].fcs = None => [link EXCEPT ![fcb[f].fcs] = fcb[f].fwd] = link
            BY DEF IInv, HeldIInv, Types, Sector, None
          <5> QED  BY <4>1, <5>2, <5>3
        <4> QED  BY <2>3, <4>1
      <3> QED  BY <1>0, <1>1, <2>2, <2>4, <3>1, DroppedLayout
    <2>5. CASE ~Closed(f, then)
      <3>1. fcb[f].fas = 131 /\ May("update") /\ CloseFails(f, then, b) /\ link' = link
        BY <2>3, <2>5
      <3> QED  BY <1>2, <2>1, <2>2, <3>1
    <2> QED  BY <2>4, <2>5
  <1>4. CASE CloseRefused(f, then)
    BY <1>0, <1>4 DEF CloseRefused
  <1>5. CASE CloseEmpty(f, then)
    <2> DEFINE b == [fcb[f] EXCEPT !.fas = 0]
    <2>1. b \in Block /\ b.fas = 0 /\ b.fcd = fcb[f].fcd
      BY <1>0 DEF Block, Fields, Buffered
    <2>2. UNCHANGED <<link, dirext, sir>> /\ fcb[f].fas = 2 /\ fcb[f].fsa = None
      BY <1>5 DEF CloseEmpty
    <2>3. \/ WriteEntry(fcb[f].fcd, NoFile(Deleted)) /\ Closed(f, then)
          \/ May("empty") /\ CloseFails(f, then, b) /\ UNCHANGED dir
      BY <1>5 DEF CloseEmpty, Fault
    <2> HIDE DEF b
    <2>4. CASE WriteEntry(fcb[f].fcd, NoFile(Deleted)) /\ Closed(f, then)
      BY <1>1, <2>2, <2>4, UnnamedLayout
    <2>5. CASE May("empty") /\ CloseFails(f, then, b) /\ UNCHANGED dir
      BY <1>2, <2>1, <2>2, <2>5
    <2> QED  BY <2>3, <2>4, <2>5
  <1>6. CASE CloseData(f, then)
    <2>1. CASE Fault("data") /\ CloseFails(f, then, fcb[f]) /\ UNCHANGED link
      <3>1. "append" \notin Modes /\ UNCHANGED <<dir, dirext, sir>>
        BY <1>6, <2>1 DEF Fault, May, Callers, CloseData
      <3>2. CASE INIT
        BY <1>7, <2>1, <3>1, <3>2
      <3>3. CASE ~INIT
        <4>1. /\ fcb' = [fcb EXCEPT ![f] = fcb[f]] /\ call' = Idle
              /\ UNCHANGED <<secmap, loaded, fcblist, lossy>>
          BY <2>1, <3>3 DEF CloseFails
        <4>2. fcb' = fcb
          BY <4>1 DEF IInv, HeldIInv, Types
        <4> QED  BY <2>1, <3>1, <4>1, <4>2, SameLayout
      <3> QED  BY <3>2, <3>3
    <2>2. CASE ~(Fault("data") /\ CloseFails(f, then, fcb[f]) /\ UNCHANGED link)
      <3>1. /\ fcb[f].fas = 2 /\ fcb[f].fsa # None
            /\ WriteData(fcb[f].fcs, fcb[f].fwd, fcb[f].tag)
            /\ call' = [op |-> "close", f |-> f, then |-> then, next |-> "entry"]
            /\ UNCHANGED <<memory, lossy, dir, dirext, sir>>
        BY <1>6, <2>2 DEF CloseData
      <3>2. PICK P, m, Q : Owns(P, m, Q)
        BY DEF Layout
      <3>3. fcb[f].fwd = None
        <4>1. Writes(fcb[f], Q[fcb[f].fcd])
          BY <3>1, <3>2, WriterKnows DEF Layout
        <4> QED  BY <4>1 DEF Writes
      <3>4. link' = [link EXCEPT ![fcb[f].fcs] = None]
        BY <3>1, <3>3 DEF WriteData
      <3>5. call'.op = "close" /\ call'.f = f /\ call'.next = "entry"
        BY <3>1
      <3> QED  BY <3>1, <3>3, <3>4, <3>5, EndLayout DEF memory
    <2> QED  BY <2>1, <2>2
  <1>8. ~CloseAgain(f, then)
    BY OwnBuffer DEF CloseAgain, IInv, HeldIInv
  <1> QED  BY <1>3, <1>4, <1>5, <1>6, <1>8 DEF CLOSE

\* The block of a CLOSE that writes.
LEMMA ClosingKnows ==
  ASSUME IInv, Layout, call.op = "close", NEW P, NEW m, NEW Q, Owns(P, m, Q)
  PROVE  LET f == call.f
             i == fcb[f].fcd
         IN  /\ f \in Fcb /\ f \in Writers /\ Listed(f) /\ fcb[f] \in Block /\ fcb[f].fas = 2
             /\ i # 0 /\ i \in Files /\ i \in 1..Len(dir) /\ Closing(i) /\ EntryAt(i, Q)
             /\ Writes(fcb[f], Q[i]) /\ loaded /\ Len(Q[i]) \in Nat
             /\ Len(Q[i]) > 0 => link[Q[i][Len(Q[i])]] = None
             /\ \A g \in Fcb : g # f /\ Listed(g) => fcb[g].fcd # i
             /\ call.next \in {"entry", "sir"}
             /\ (Torn <=> call.next = "sir")
  <1> DEFINE f == call.f
             i == fcb[f].fcd
  <1>1. f \in Fcb /\ call.next \in {"entry", "sir"}
    BY DEF IInv, HeldIInv, Types, Calls, Idle, Excls
  <1>2. fcb[f].fas = 2 /\ Listed(f) /\ fcb[f].fcd # 0 /\ fcb[f] \in Block
    BY <1>1 DEF IInv, HeldIInv, ListInv, CallListed, Placed, Types
  <1>3. f \in Writers
    BY <1>1, <1>2 DEF Writers
  <1>4. i \in Files /\ Writes(fcb[f], Q[i])
    BY <1>1, <1>2 DEF Owns, BlockAt
  <1>5. i \in 1..Len(dir) /\ EntryAt(i, Q) /\ Closing(i)
    BY <1>4, LiveInDir DEF IInv, HeldIInv, Owns, Closing
  <1>6. Len(Q[i]) \in Nat
    BY <1>5, TidyTypes DEF Owns
  <1>7. Len(Q[i]) > 0 => link[Q[i][Len(Q[i])]] = None
    BY <1>4, <1>5 DEF EntryAt
  <1>8. loaded
    BY <1>3 DEF Owns, MapsAre
  <1>9. \A g \in Fcb : g # f /\ Listed(g) => fcb[g].fcd # i
    BY <1>1, <1>2 DEF Layout, Sharing
  <1>10. Torn <=> call.next = "sir"
    BY DEF Torn
  <1> QED  BY <1>1, <1>2, <1>3, <1>4, <1>5, <1>6, <1>7, <1>8, <1>9, <1>10

\* The pool without the sectors that were taken from it.
LEMMA Resynced ==
  ASSUME Types, NEW P, NEW m, NEW Q, Owns(P, m, Q), NEW map, MapIs(map, P, m, Q, DirExt),
         ~lossy => map.count = Len(P) - m
  PROVE  \E P1 : /\ Tidy(link, P1, 0, Q, DirExt)
                 /\ MapIs(map, P1, 0, Q, DirExt)
                 /\ ~lossy => map.count = Len(P1) /\ \A s \in Sector : ~Lost(s, P1, Q, DirExt)
  <1>0. /\ Tidy(link, P, m, Q, DirExt) /\ TakenAt(P, m, Q)
        /\ Exact(P, m, Q) /\ DOMAIN Q = 1..Len(dir)
    BY DEF Owns
  <1>1. Len(P) \in Nat /\ m \in Nat /\ m <= Len(P)
    BY <1>0, TidyTypes
  <1>2. Covered(P, m, Q)
    <2> SUFFICES ASSUME NEW j \in 1..m
                 PROVE  \E i \in DOMAIN Q : \E k \in 1..Len(Q[i]) : P[j] = Q[i][k]
      BY DEF Covered
    <2>1. PICK i \in Files : \E k \in 1..Len(Q[i]) : P[j] = Q[i][k]
      BY <1>0 DEF TakenAt
    <2>2. i \in DOMAIN Q
      BY <1>0, LiveInDir
    <2> QED  BY <2>1, <2>2
  <1>3. PICK P1 : Rest(P1, P, m)
    BY <1>0, RestExists DEF Tidy
  <1>4. Tidy(link, P1, 0, Q, DirExt) /\ Len(P1) = Len(P) - m
    BY <1>0, <1>2, <1>3, TidyResync DEF Rest
  <1>5. \A j \in 1..Len(P1) : P1[j] = P[m + j]
    BY <1>3 DEF Rest
  <1>6. \A s : Lost(s, P1, Q, DirExt) <=> Lost(s, P, Q, DirExt)
    BY <1>0, <1>2, <1>3, TidyResync
  <1>7. MapIs(map, P1, 0, Q, DirExt)
    <2>1. CASE m = Len(P)
      BY <1>1, <1>4, <2>1 DEF MapIs
    <2>2. CASE m # Len(P)
      <3>1. map.last # None /\ (map.last = P[Len(P)] \/ Lost(map.last, P, Q, DirExt))
            /\ map.first = P[m + 1]
        BY <2>2 DEF MapIs
      <3>2. 1 \in 1..Len(P1) /\ Len(P1) \in 1..Len(P1) /\ m + Len(P1) = Len(P) /\ Len(P1) # 0
        BY <1>1, <1>4, <2>2
      <3>3. P1[1] = P[m + 1] /\ P1[Len(P1)] = P[Len(P)]
        BY <1>5, <3>2
      <3>4. map.last = P1[Len(P1)] \/ Lost(map.last, P1, Q, DirExt)
        BY <1>6, <3>1, <3>3
      <3> QED  BY <3>1, <3>2, <3>3, <3>4 DEF MapIs
    <2> QED  BY <2>1, <2>2
  <1>8. ~lossy => map.count = Len(P1) /\ \A s \in Sector : ~Lost(s, P1, Q, DirExt)
    BY <1>0, <1>4, <1>6 DEF Exact
  <1> QED  BY <1>4, <1>7, <1>8

\* CLOSE writes the entry: the sectors taken from the pool are recorded as the file's.
LEMMA CloseEntryLayout ==
  ASSUME IInv, Callers, Layout, CloseEntry
  PROVE  Layout'
  <1>0. PICK P, m, Q : Owns(P, m, Q)
    BY DEF Layout
  <1>f. PICK f : f = call.f
    OBVIOUS
  <1>i. PICK i : i = fcb[f].fcd
    OBVIOUS
  <1>e. PICK e : e = Entry(fcb[f].name, fcb[f].fsa, fcb[f].fea, fcb[f].fsz)
    OBVIOUS
  <1>1. /\ call.op = "close" /\ call.next = "entry" /\ WriteEntry(i, e)
        /\ UNCHANGED <<link, dirext, sir, secmap, loaded, fcb, fcblist, lossy>>
        /\ call' = [call EXCEPT !.next = "sir"]
    <2>1. ~Fault("entry")
      BY DEF Callers, Fault, May
    <2> QED  BY <2>1, <1>f, <1>i, <1>e DEF CloseEntry, memory
  <1>2. /\ f \in Fcb /\ f \in Writers /\ Listed(f) /\ fcb[f] \in Block
        /\ i # 0 /\ i \in Files /\ i \in 1..Len(dir) /\ Closing(i) /\ EntryAt(i, Q)
        /\ Writes(fcb[f], Q[i]) /\ loaded
        /\ Len(Q[i]) > 0 => link[Q[i][Len(Q[i])]] = None
        /\ \A g \in Fcb : g # f /\ Listed(g) => fcb[g].fcd # i
        /\ ~Torn
    BY <1>0, <1>1, <1>f, <1>i, ClosingKnows
  <1>3. call'.op = "close" /\ call'.f = f /\ call'.next = "sir"
    <2>1. call \in [op : {"close"}, f : Fcb, then : {"return", "excls"}, next : {"entry", "sir"}]
      BY <1>1 DEF IInv, HeldIInv, Types, Calls, Idle, Excls
    <2> QED  BY <1>1, <1>f, <2>1
  <1>4. e \in DirEntry /\ e.fsa = fcb[f].fsa /\ e.fea = fcb[f].fea /\ e.fsz = fcb[f].fsz
        /\ e.name = fcb[f].name /\ fcb[f].name \in Names /\ dir[i].name = fcb[f].name
    <2>1. fcb[f].name \in Names /\ dir[i].name = fcb[f].name
      BY <1>2, <1>i DEF IInv, HeldIInv, DirInv, Located
    <2> QED  BY <1>2, <1>e, <2>1 DEF Entry, Block, Fields, DirEntry
  <1>5. /\ Len(dir') = Len(dir) /\ dir' \in Seq(DirEntry) /\ Len(dir) \in Nat
        /\ \A k \in 1..Len(dir) : dir'[k] = IF k = i THEN e ELSE dir[k]
    BY <1>1, <1>4, WriteEntryTypes DEF IInv, HeldIInv, Types
  <1>6. Files' = Files /\ DirExt' = DirExt /\ Torn' /\ Writers' = Writers
    <2>1. DOMAIN dir' = 1..Len(dir) /\ DOMAIN dir = 1..Len(dir)
      BY <1>5, LiveInDir DEF IInv, HeldIInv
    <2>2. Files' = Files
      BY <1>1, <1>3, <1>4, <1>5, <2>1 DEF Files, Live
    <2> QED  BY <1>1, <1>3, <2>2, SameWriters DEF DirExt, Torn
  <1>7. PICK P1 : /\ Tidy(link, P1, 0, Q, DirExt)
                  /\ MapIs(secmap, P1, 0, Q, DirExt)
                  /\ ~lossy => secmap.count = Len(P1) /\ \A s \in Sector : ~Lost(s, P1, Q, DirExt)
    <2>1. MapIs(secmap, P, m, Q, DirExt) /\ (~lossy => secmap.count = Len(P) - m)
      BY <1>0, <1>2 DEF Owns, MapsAre, Exact
    <2> QED  BY <1>0, <2>1, Resynced DEF IInv, HeldIInv
  <1>8. Tidy(link, P1, 0, Q, DirExt)' /\ DOMAIN Q = 1..Len(dir')
    BY <1>0, <1>1, <1>5, <1>6, <1>7 DEF Owns, Tidy, Pooled, InOrder, Chained, Apart
  <1>9. ASSUME NEW j \in 1..Len(dir')  PROVE EntryAt(j, Q)'
    <2>1. CASE j = i
      <3>1. Describes(e, Q[i]) /\ e.fsz = Len(Q[i])
        BY <1>2, <1>4 DEF Writes, Describes
      <3> QED  BY <1>1, <1>2, <1>5, <1>6, <2>1, <3>1 DEF EntryAt, Describes
    <2>2. CASE j # i
      <3>1. ~Closing(j)'
        BY <1>1, <1>3, <1>i, <2>2 DEF Closing
      <3>2. Whole(j)' => Whole(j)
        BY <1>1, <1>6, <3>1 DEF Whole
      <3>3. dir'[j] = dir[j] /\ EntryAt(j, Q) /\ j \in 1..Len(dir)
        BY <1>0, <1>5, <1>9, <2>2 DEF Owns
      <3> QED  BY <1>1, <1>6, <3>1, <3>2, <3>3, EntryKept
    <2> QED  BY <2>1, <2>2
  <1>10. ASSUME NEW g \in Fcb  PROVE BlockAt(g, Q)'
    <2>1. BlockAt(g, Q) /\ (Listed(g) => fcb[g].fcd # 0)
      BY <1>0, <1>1 DEF Owns, BlockAt
    <2>2. Listed(g) => fcb[g].fcd \in Files'
      BY <1>6, <2>1 DEF BlockAt
    <2>3. Listed(g)' <=> Listed(g)
      BY <1>1 DEF Listed
    <2> QED  BY <1>1, <2>1, <2>2, <2>3, BlockKept
  <1>11. MapsAre(P1, 0, Q)'
    <2>1. MapIs(secmap, P1, 0, Q, DirExt)'
      BY <1>1, <1>6, <1>7 DEF MapIs, Lost
    <2> QED  BY <1>1, <1>2, <1>6, <2>1 DEF MapsAre
  <1>12. TakenAt(P1, 0, Q)'
    BY DEF TakenAt
  <1>13. Exact(P1, 0, Q)'
    <2>1. Len(P1) \in Nat
      BY <1>7, TidyTypes
    <2> QED  BY <1>1, <1>6, <1>7, <2>1 DEF Exact, Lost
  <1>14. Owns(P1, 0, Q)'
    BY <1>8, <1>9, <1>10, <1>11, <1>12, <1>13 DEF Owns
  <1>15. Sharing'
    <2>1. call.op = "close" => call.f = f
      BY <1>f
    <2>2. fcb'[f].fas # WTAPP /\ Closes(f)'
      BY <1>1, <1>2, <1>3 DEF Writers, WTAPP, Closes
    <2>3. \A g \in Fcb : g # f => fcb'[g] = fcb[g] /\ (Listed(g)' => Listed(g))
      BY <1>1 DEF Listed
    <2>4. \A g \in Writers : g # f => dir'[fcb[g].fcd].fsa = dir[fcb[g].fcd].fsa
      <3> SUFFICES ASSUME NEW g \in Writers, g # f
                   PROVE  dir'[fcb[g].fcd].fsa = dir[fcb[g].fcd].fsa
        OBVIOUS
      <3>1. fcb[g].fcd \in 1..Len(dir) /\ fcb[g].fcd # i
        BY <1>2 DEF IInv, HeldIInv, DirInv, Located, Writers
      <3> QED  BY <1>5, <3>1
    <2>5. \A g \in Fcb : g # f /\ Listed(g) => fcb[g].fcd # fcb'[f].fcd
      BY <1>1, <1>2, <1>i
    <2> QED  BY <1>2, <2>1, <2>2, <2>3, <2>4, <2>5, OneBlockSharing DEF Layout
  <1>16. Extension'
    BY <1>1, <1>3 DEF Layout, Extension
  <1> QED  BY <1>14, <1>15, <1>16 DEF Layout

\* CLOSE records the map, and the block leaves the list.
LEMMA CloseRecordLayout ==
  ASSUME IInv, Callers, Layout, CloseRecord
  PROVE  Layout'
  <1>0. PICK P, m, Q : Owns(P, m, Q)
    BY DEF Layout
  <1>f. PICK f : f = call.f
    OBVIOUS
  <1>i. PICK i : i = fcb[f].fcd
    OBVIOUS
  <1>1. /\ call.op = "close" /\ call.next = "sir" /\ sir' = secmap
        /\ UNCHANGED <<link, dir, dirext, secmap, loaded, lossy>>
        /\ fcb' = [fcb EXCEPT ![f] = Blank] /\ fcblist' = REMFCB(f) /\ call' \in {Idle, Excls}
    <2>1. ~Fault(IF call.then = "excls" THEN "excls" ELSE "record")
      BY DEF Callers, Fault, May
    <2> QED  BY <2>1, <1>f DEF CloseRecord, Closed
  <1>2. /\ f \in Fcb /\ f \in Writers
        /\ i # 0 /\ i \in Files /\ i \in 1..Len(dir) /\ Closing(i) /\ EntryAt(i, Q) /\ loaded
        /\ \A g \in Fcb : g # f /\ Listed(g) => fcb[g].fcd # i
        /\ Torn
    BY <1>0, <1>1, <1>f, <1>i, ClosingKnows
  <1>3. /\ \A g \in Fcb : fcb'[g] = IF g = f THEN Blank ELSE fcb[g]
        /\ \A g \in Fcb : g # f => (Listed(g)' <=> Listed(g))
        /\ ~Listed(f)'
    BY <1>1, <1>2, BlockStep, Values DEF IInv, HeldIInv
  <1>4. Files' = Files /\ DirExt' = DirExt /\ ~Torn' /\ \A j : ~Closing(j)'
    BY <1>1 DEF Files, Live, DirExt, Torn, Closing, Idle, Excls
  <1>5. m = 0 /\ MapIs(secmap, P, 0, Q, DirExt) /\ (~lossy => secmap.count = Len(P))
    <2>1. m = 0
      BY <1>0, <1>2 DEF Owns, MapsAre
    <2>2. Len(P) \in Nat
      BY <1>0, TidyTypes DEF Owns
    <2> QED  BY <1>0, <1>2, <2>1, <2>2 DEF Owns, MapsAre, Exact
  <1>6. Tidy(link, P, m, Q, DirExt)' /\ DOMAIN Q = 1..Len(dir')
    BY <1>0, <1>1, <1>4 DEF Owns, Tidy, Pooled, InOrder, Chained, Apart
  <1>7. ASSUME NEW j \in 1..Len(dir')  PROVE EntryAt(j, Q)'
    <2>1. Whole(j)' => Whole(j)
      <3>1. CASE j = i
        BY <1>1, <1>2, <3>1 DEF Whole
      <3>2. CASE j # i
        <4> SUFFICES ASSUME \A g \in Writers' : fcb'[g].fcd # j, NEW g \in Writers
                     PROVE  fcb[g].fcd # j
          BY <1>4 DEF Whole
        <4>1. CASE g = f
          BY <1>i, <3>2, <4>1
        <4>2. CASE g # f
          BY <1>3, <4>2 DEF Writers
        <4> QED  BY <4>1, <4>2
      <3> QED  BY <3>1, <3>2
    <2>2. dir'[j] = dir[j] /\ EntryAt(j, Q) /\ (j \in Files <=> j \in Files')
      BY <1>0, <1>1, <1>4, <1>7 DEF Owns
    <2> QED  BY <1>1, <1>4, <2>1, <2>2, EntryKept
  <1>8. ASSUME NEW g \in Fcb  PROVE BlockAt(g, Q)'
    <2>1. CASE g = f
      BY <1>3, <2>1 DEF BlockAt
    <2>2. CASE g # f
      <3>1. BlockAt(g, Q) /\ (Listed(g) => fcb[g].fcd # 0)
        BY <1>0, <1>1 DEF Owns, BlockAt
      <3>2. Listed(g) => fcb[g].fcd \in Files'
        BY <1>4, <3>1 DEF BlockAt
      <3> QED  BY <1>1, <1>3, <2>2, <3>1, <3>2, BlockKept
    <2> QED  BY <2>1, <2>2
  <1>9. MapsAre(P, m, Q)' /\ Exact(P, m, Q)'
    <2>1. MapIs(secmap, P, m, Q, DirExt)' /\ MapIs(sir, P, 0, Q, DirExt)'
      BY <1>1, <1>4, <1>5 DEF MapIs, Lost
    <2>2. MapsAre(P, m, Q)'
      BY <1>1, <1>2, <1>4, <1>5, <2>1 DEF MapsAre
    <2>3. Exact(P, m, Q)'
      BY <1>0, <1>1, <1>2, <1>4, <1>5 DEF Owns, Exact, Lost
    <2> QED  BY <2>2, <2>3
  <1>10. TakenAt(P, m, Q)'
    BY <1>5 DEF TakenAt
  <1>11. Owns(P, m, Q)'
    BY <1>6, <1>7, <1>8, <1>9, <1>10 DEF Owns
  <1>12. Sharing'
    <2>1. call.op = "close" => call.f = f
      BY <1>f
    <2>2. fcb'[f].fas # WTAPP /\ f \notin Writers'
      BY <1>2, <1>3 DEF Writers, WTAPP, Blank
    <2> QED  BY <1>1, <1>2, <1>3, <2>1, <2>2, OneBlockSharing DEF Layout
  <1>13. Extension'
    BY <1>1 DEF Layout, Extension, Idle, Excls
  <1> QED  BY <1>11, <1>12, <1>13 DEF Layout

-----------------------------------------------------------------------------
\* OPNWT8 takes the first available sector for the directory.
LEMMA DirExtendLayout ==
  ASSUME IInv, Callers, Layout, NEW f \in Fcb, NEW n \in Names,
         DirExtend(f, n), ~UNCHANGED call
  PROVE  Layout'
  <1> DEFINE b == [Blank EXCEPT !.fas = fcb[f].fas]
  <1>0. PICK P, m, Q : Owns(P, m, Q)
    BY DEF Layout
  <1>m. PICK map : map = GETAVL
    OBVIOUS
  <1>x. PICK x : x = map.first
    OBVIOUS
  <1>1. /\ call = Idle /\ CallerMapValid /\ ~Listed(f) /\ map.first # None /\ loaded'
        /\ UNCHANGED <<link, dir, sir, lossy>> /\ fcblist' = SETFCB(f)
        /\ fcb' = [fcb EXCEPT ![f] = b]
        /\ secmap' = TakeFirst(map) /\ dirext' = Append(dirext, x)
        /\ call'.op = "extend" /\ call'.f = f /\ call'.next = "clear"
    BY <1>m, <1>x DEF DirExtend, CallerOpens, CallerFree
  <1>2. MapIs(map, P, m, Q, DirExt) /\ (~lossy => map.count = Len(P) - m) /\ ~Torn /\ map \in Map
    BY <1>0, <1>1, <1>m, GetavlIs, MapTypes DEF Callers, IInv, HeldIInv
  <1>3. PICK P1 : /\ Tidy(link, P1, 0, Q, DirExt) /\ MapIs(map, P1, 0, Q, DirExt)
                  /\ ~lossy => map.count = Len(P1) /\ \A s \in Sector : ~Lost(s, P1, Q, DirExt)
    BY <1>0, <1>2, Resynced DEF IInv, HeldIInv
  <1>4. 0 < Len(P1) /\ x = P1[1] /\ x \in Sector /\ Len(P1) \in Nat
        /\ (TakeFirst(map).count = map.count - 1 \/ (Len(P1) = 1 /\ TakeFirst(map) = NoAvail))
        /\ MapIs(TakeFirst(map), P1, 1, Q, DirExt)
    <2>1. /\ 0 < Len(P1) /\ map.first = P1[0 + 1] /\ map.first \in Sector
          /\ TakeFirst(map).count = map.count - 1 \/ (0 + 1 = Len(P1) /\ TakeFirst(map) = NoAvail)
          /\ \A Q1 : (\A s : Lost(s, P1, Q1, DirExt) <=> Lost(s, P1, Q, DirExt)) =>
               MapIs(TakeFirst(map), P1, 0 + 1, Q1, DirExt)
      BY <1>1, <1>2, <1>3, TakeMap
    <2>2. MapIs(TakeFirst(map), P1, 0 + 1, Q, DirExt)
      BY <2>1
    <2> QED  BY <1>3, <1>x, <2>1, <2>2, TidyTypes
  <1>5. PICK P2 : Rest(P2, P1, 1)
    <2>1. P1 \in Seq(Sector) /\ 1 \in 0..Len(P1)
      BY <1>3, <1>4 DEF Tidy
    <2> QED  BY <2>1, RestExists
  <1>X. PICK X1 : X1 = DirExt \cup {P1[1]}
    OBVIOUS
  <1>t. Tidy(link, P1, 0, Q, DirExt) /\ Len(P1) > 0
    BY <1>3, <1>4
  <1>T. /\ Tidy(link, P2, 0, Q, X1)
        /\ \A s : Lost(s, P2, Q, X1) <=> Lost(s, P1, Q, DirExt)
    <2>1. \A PP, XX : Rest(PP, P1, 1) /\ XX = DirExt \cup {P1[1]} =>
            Tidy(link, PP, 0, Q, XX) /\ \A s : Lost(s, PP, Q, XX) <=> Lost(s, P1, Q, DirExt)
      BY <1>t, TidyTake
    <2> QED  BY <1>5, <1>X, <2>1
  <1>6. Tidy(link, P2, 0, Q, X1)
    BY <1>T
  <1>7. \A s : Lost(s, P2, Q, X1) <=> Lost(s, P1, Q, DirExt)
    BY <1>T
  <1>8. /\ Len(P2) = Len(P1) - 1 /\ \A j \in 1..Len(P2) : P2[j] = P1[1 + j]
    BY <1>5 DEF Rest
  <1>9. MapIs(TakeFirst(map), P2, 0, Q, X1)
    <2>1. CASE Len(P1) = 1
      BY <1>4, <1>8, <2>1 DEF MapIs
    <2>2. CASE Len(P1) # 1
      <3>1. /\ TakeFirst(map).first = P1[1 + 1] /\ TakeFirst(map).last # None
            /\ TakeFirst(map).last = P1[Len(P1)] \/ Lost(TakeFirst(map).last, P1, Q, DirExt)
        BY <1>4, <2>2 DEF MapIs
      <3>2. 1 \in 1..Len(P2) /\ Len(P2) \in 1..Len(P2) /\ 1 + Len(P2) = Len(P1) /\ Len(P2) # 0
        BY <1>4, <1>8, <2>2
      <3>3. P2[1] = P1[1 + 1] /\ P2[Len(P2)] = P1[Len(P1)]
        BY <1>8, <3>2
      <3>4. TakeFirst(map).last = P2[Len(P2)] \/ Lost(TakeFirst(map).last, P2, Q, X1)
        BY <1>7, <3>1, <3>3
      <3> QED  BY <3>1, <3>2, <3>3, <3>4 DEF MapIs
    <2> QED  BY <2>1, <2>2
  <1>10. dirext' \in Seq(Sector) /\ Len(dirext') > 0 /\ DirExt' = X1
    <2>1. dirext \in Seq(Sector) /\ Len(dirext) \in Nat
      BY DEF Layout, Extension
    <2>2. /\ dirext' \in Seq(Sector) /\ Len(dirext') = Len(dirext) + 1
          /\ \A j \in 1..Len(dirext) : dirext'[j] = dirext[j]
          /\ dirext'[Len(dirext) + 1] = x
      BY <1>1, <1>4, <2>1, AppendProperties
    <2>3. DOMAIN dirext' = 1..(Len(dirext) + 1) /\ DOMAIN dirext = 1..Len(dirext)
      BY <2>1, <2>2
    <2>4. \A s : s \in Range(dirext') <=> s \in Range(dirext) \cup {x}
      BY <2>1, <2>2, <2>3 DEF Range
    <2> QED  BY <1>4, <1>X, <2>1, <2>2, <2>4 DEF DirExt
  <1>11. b \in Block /\ b.fas = fcb[f].fas /\ b.fcd = 0 /\ b.fas # WTAPP
    <2>1. fcb[f] \in Block /\ fcb[f].fas # WTAPP
      BY DEF IInv, HeldIInv, Types, Layout, Sharing
    <2> QED  BY <2>1, Values DEF Block, Fields, Buffered, Blank
  <1> HIDE DEF b
  <1>12. /\ \A g \in Fcb : fcb'[g] = IF g = f THEN b ELSE fcb[g]
         /\ \A g \in Fcb : g # f => (Listed(g)' <=> Listed(g))
         /\ Listed(f)'
    BY <1>1, <1>11, BlockStep DEF IInv, HeldIInv
  <1>13. Files' = Files /\ Torn' /\ Writers' = Writers /\ (\A j : ~Closing(j)' /\ ~Closing(j))
         /\ \A g \in Fcb : g # f /\ Listed(g) => fcb[g].fcd # 0
    <2>1. Files' = Files /\ Torn' /\ (\A j : ~Closing(j)' /\ ~Closing(j))
      BY <1>1 DEF Files, Live, Torn, Closing, Idle
    <2>2. Writers' = Writers
      BY <1>1, <1>11, <1>12 DEF Writers
    <2>3. \A g \in Fcb : g # f /\ Listed(g) => fcb[g].fcd # 0
      BY <1>0, <1>1 DEF Owns, BlockAt, Idle
    <2> QED  BY <2>1, <2>2, <2>3
  <1>14. Tidy(link, P2, 0, Q, DirExt)' /\ DOMAIN Q = 1..Len(dir')
    BY <1>0, <1>1, <1>6, <1>10 DEF Owns, Tidy, Pooled, InOrder, Chained, Apart
  <1>15. ASSUME NEW j \in 1..Len(dir')  PROVE EntryAt(j, Q)'
    <2>0. f \notin Writers
      BY <1>1 DEF Writers
    <2>1. Whole(j)' => Whole(j)
      <3> SUFFICES ASSUME \A g \in Writers' : fcb'[g].fcd # j, NEW g \in Writers
                   PROVE  fcb[g].fcd # j
        BY <1>13 DEF Whole
      <3>1. g \in Fcb /\ g \in Writers' /\ fcb'[g] = fcb[g]
        BY <1>12, <1>13, <2>0 DEF Writers
      <3> QED  BY <3>1
    <2>2. dir'[j] = dir[j] /\ EntryAt(j, Q)
      BY <1>0, <1>1, <1>15 DEF Owns
    <2> QED  BY <1>1, <1>13, <2>1, <2>2, EntryKept
  <1>16. ASSUME NEW g \in Fcb  PROVE BlockAt(g, Q)'
    <2>1. CASE g = f
      BY <1>1, <1>11, <1>12, <2>1 DEF BlockAt
    <2>2. CASE g # f
      <3>1. BlockAt(g, Q) /\ (Listed(g) => fcb[g].fcd # 0)
        BY <1>0, <1>13, <2>2 DEF Owns
      <3>2. Listed(g) => fcb[g].fcd \in Files'
        BY <1>13, <3>1 DEF BlockAt
      <3> QED  BY <1>1, <1>12, <2>2, <3>1, <3>2, BlockKept
    <2> QED  BY <2>1, <2>2
  <1>17. MapsAre(P2, 0, Q)'
    <2>1. MapIs(secmap', P2, 0, Q, DirExt')
      BY <1>1, <1>9, <1>10
    <2> QED  BY <1>1, <1>13, <2>1 DEF MapsAre, MapIs, Lost
  <1>18. TakenAt(P2, 0, Q)'
    BY DEF TakenAt
  <1>19. Exact(P2, 0, Q)'
    <2>1. ASSUME ~lossy
          PROVE  secmap'.count = Len(P2) - 0 /\ \A s \in Sector : ~Lost(s, P2, Q, X1)
      <3>1. map.count = Len(P1) /\ \A s \in Sector : ~Lost(s, P1, Q, DirExt)
        BY <1>3, <2>1
      <3>2. secmap' = TakeFirst(map) /\ NoAvail.count = 0 /\ Len(P2) = Len(P1) - 1
        BY <1>1, <1>8 DEF NoAvail
      <3>3. secmap'.count = Len(P2) - 0
        BY <1>4, <3>1, <3>2
      <3> QED  BY <1>7, <3>1, <3>3
    <2> QED  BY <1>1, <1>10, <1>13, <2>1 DEF Exact, Lost
  <1>20. Owns(P2, 0, Q)'
    BY <1>14, <1>15, <1>16, <1>17, <1>18, <1>19 DEF Owns
  <1>21. Sharing'
    <2>1. call.op = "close" => call.f = f
      BY <1>1 DEF Idle
    <2>2. fcb'[f].fas # WTAPP /\ f \notin Writers' /\ fcb'[f].fcd = 0
      BY <1>11, <1>12 DEF Writers
    <2>3. \A g \in Fcb : g # f => fcb'[g] = fcb[g] /\ (Listed(g)' => Listed(g))
      BY <1>12
    <2> QED  BY <1>1, <1>13, <2>1, <2>2, <2>3, OneBlockSharing DEF Layout
  <1>22. Extension'
    BY <1>1, <1>10 DEF Extension
  <1> QED  BY <1>20, <1>21, <1>22 DEF Layout

\* The block for which the directory grows.
LEMMA ExtendingKnows ==
  ASSUME IInv, Layout, call.op = "extend", NEW P, NEW m, NEW Q, Owns(P, m, Q)
  PROVE  LET f == call.f
         IN  /\ f \in Fcb /\ Listed(f) /\ f \notin Writers /\ call.name \in Names
             /\ \A g \in Fcb : g # f /\ Listed(g) => fcb[g].fcd # 0
             /\ \A i : ~Closing(i)
             /\ call.next \in {"clear", "sir", "entry"}
             /\ (Torn <=> call.next \in {"clear", "sir"})
             /\ Torn => m = 0 /\ loaded
  <1>1. call.f \in Fcb /\ call.name \in Names /\ call.next \in {"clear", "sir", "entry"}
    BY DEF IInv, HeldIInv, Types, Calls, Idle, Excls
  <1>2. Listed(call.f) /\ fcb[call.f].fcd = 0
    BY DEF IInv, HeldIInv, ListInv, CallListed
  <1>3. \A g \in Fcb : g # call.f /\ Listed(g) => fcb[g].fcd # 0
    BY DEF Owns, BlockAt
  <1>4. (\A i : ~Closing(i)) /\ (Torn <=> call.next \in {"clear", "sir"})
    BY DEF Closing, Torn
  <1>5. Torn => m = 0 /\ loaded
    BY DEF Owns, MapsAre
  <1> QED  BY <1>1, <1>2, <1>3, <1>4, <1>5 DEF Writers

\* The new directory sector is written: the directory has entries nobody uses.
LEMMA DirClearLayout ==
  ASSUME IInv, Layout, DirExtendClear
  PROVE  Layout'
  <1>0. PICK P, m, Q : Owns(P, m, Q)
    BY DEF Layout
  <1>f. PICK f : f = call.f
    OBVIOUS
  <1>n. PICK n : n = Len(dir)
    OBVIOUS
  <1>s. PICK s : s = dirext[Len(dirext)]
    OBVIOUS
  <1>d. PICK D : D = 1..Len(dir')
    OBVIOUS
  <1>q. PICK Q1 : Wider(Q1, Q, D)
    BY DEF Wider
  <1>1. /\ call.op = "extend" /\ call.next = "clear"
        /\ call'.op = "extend" /\ call'.next = "sir" /\ call'.f = f
        /\ link' = Relinked(link, s, None)
        /\ UNCHANGED <<dirext, sir, secmap, loaded, fcb, fcblist, lossy>>
    <2>1. call \in [op : {"extend"}, f : Fcb, name : Names, next : {"clear", "sir", "entry"}]
      BY DEF DirExtendClear, IInv, HeldIInv, Types, Calls, Idle, Excls
    <2>2. /\ call.op = "extend" /\ call.next = "clear" /\ call' = [call EXCEPT !.next = "sir"]
          /\ WriteData(dirext[Len(dirext)], None, <<>>)
          /\ UNCHANGED <<dirext, sir, memory, lossy>>
      BY DEF DirExtendClear
    <2>3. link' = Relinked(link, s, None)
      BY <1>s, <2>2 DEF WriteData, Relinked
    <2> QED  BY <1>f, <2>1, <2>2, <2>3 DEF memory
  <1>2. /\ f \in Fcb /\ Listed(f) /\ f \notin Writers /\ m = 0 /\ loaded /\ Torn
        /\ \A g \in Fcb : g # f /\ Listed(g) => fcb[g].fcd # 0
    BY <1>0, <1>1, <1>f, ExtendingKnows
  <1>3. /\ Len(dir') \in Nat /\ n \in Nat /\ n <= Len(dir')
        /\ \A k \in 1..n : dir'[k] = dir[k] /\ k \in 1..Len(dir')
        /\ \A k \in 1..Len(dir') : k > n => dir'[k].name = Never
        /\ DOMAIN dir' = 1..Len(dir') /\ DOMAIN dir = 1..n
    <2> DEFINE more == [i \in 1..DirSlots |-> NoFile(Never)]
    <2>0. n \in Nat /\ DirSlots \in Nat \ {0}
      BY <1>n, SizeAssumption DEF IInv, HeldIInv, Types
    <2>1. /\ more \in Seq(DirEntry) /\ Len(more) = DirSlots
          /\ \A i \in 1..DirSlots : more[i].name = Never
      <3>1. NoFile(Never) \in DirEntry /\ NoFile(Never).name = Never
        BY Values DEF NoFile, Entry
      <3> QED  BY <3>1, SizeAssumption
    <2>2. dir' = dir \o more
      BY DEF DirExtendClear
    <2> HIDE DEF more
    <2>3. /\ Len(dir') = n + DirSlots /\ dir' \in Seq(DirEntry)
          /\ \A k \in 1..(n + DirSlots) :
               dir'[k] = IF k <= n THEN dir[k] ELSE more[k - n]
      BY <1>n, <2>1, <2>2, ConcatProperties DEF IInv, HeldIInv, Types
    <2>4. \A k \in 1..(n + DirSlots) : k > n => dir'[k].name = Never
      <3> SUFFICES ASSUME NEW k \in 1..(n + DirSlots), k > n  PROVE dir'[k].name = Never
        OBVIOUS
      <3>1. k - n \in 1..DirSlots
        BY <2>0
      <3> QED  BY <2>0, <2>1, <2>3, <3>1
    <2>5. \A k \in 1..n : k \in 1..(n + DirSlots) /\ dir'[k] = dir[k]
      BY <2>0, <2>3
    <2>6. DOMAIN dir = 1..n
      BY <1>n, LiveInDir DEF IInv, HeldIInv
    <2> QED  BY <2>0, <2>3, <2>4, <2>5, <2>6
  <1>4. Files' = Files /\ DirExt' = DirExt /\ Writers' = Writers /\ Torn'
        /\ Files \subseteq 1..n
    <2>1. Files' = Files /\ Files \subseteq 1..n
      <3>1. Live' = Live /\ Live \subseteq 1..n
        BY <1>3 DEF Live
      <3> QED  BY <1>1, <3>1 DEF Files
    <2> QED  BY <1>1, <2>1, SameWriters DEF DirExt, Torn
  <1>5. /\ Tidy(link, P, m, Q, DirExt) /\ DOMAIN Q = 1..n /\ DOMAIN Q \subseteq D
        /\ s \in DirExt
    <2>1. dirext \in Seq(Sector) /\ Len(dirext) > 0
      BY <1>1 DEF Layout, Extension
    <2>2. Len(dirext) \in DOMAIN dirext
      BY <2>1
    <2>3. s \in DirExt
      BY <1>s, <2>2 DEF DirExt, Range
    <2>4. Tidy(link, P, m, Q, DirExt) /\ DOMAIN Q = 1..n
      BY <1>0, <1>n DEF Owns
    <2> QED  BY <1>3, <1>d, <2>3, <2>4
  <1>6. /\ \A l \in 1..Len(P) : P[l] # s
        /\ \A i \in DOMAIN Q : \A k \in 1..Len(Q[i]) : Q[i][k] # s
    BY <1>5 DEF Tidy, Apart
  <1>7. Tidy(link', P, m, Q, DirExt)
    <2>1. None \in Addr
      BY Values
    <2> QED  BY <1>1, <1>5, <1>6, <2>1, TidyOutside
  <1>8. Tidy(link', P, m, Q1, DirExt)
    BY <1>5, <1>7, <1>q, TidySlots
  <1>9. \A t : Lost(t, P, Q1, DirExt) <=> Lost(t, P, Q, DirExt)
    BY <1>5, <1>7, <1>q, TidySlots
  <1>10. /\ DOMAIN Q1 = 1..Len(dir')
         /\ \A i \in 1..n : Q1[i] = Q[i]
         /\ \A i \in 1..Len(dir') : i > n => Q1[i] = <<>>
    BY <1>3, <1>5, <1>d, <1>q DEF Wider
  <1>11. \A i \in 1..n : \A k \in 1..Len(Q[i]) : link'[Q[i][k]] = link[Q[i][k]]
    BY <1>1, <1>5, <1>6, TidyTypes DEF Relinked, IInv, HeldIInv, Types
  <1>12. ASSUME NEW i \in 1..Len(dir')  PROVE EntryAt(i, Q1)'
    <2>0. ~Closing(i)'
      BY <1>1 DEF Closing
    <2>1. CASE i \in 1..n
      <3>1. EntryAt(i, Q) /\ dir'[i] = dir[i] /\ Q1[i] = Q[i]
        BY <1>0, <1>3, <1>10, <1>n, <2>1 DEF Owns
      <3>2. Whole(i)' => Whole(i)
        BY <1>1, <1>4, <2>0 DEF Whole
      <3>3. Len(Q[i]) > 0 => link'[Q[i][Len(Q[i])]] = link[Q[i][Len(Q[i])]]
        <4>1. Len(Q[i]) \in Nat
          BY <1>5, <2>1, TidyTypes
        <4> QED  BY <1>11, <2>1, <4>1
      <3> QED  BY <1>4, <2>0, <3>1, <3>2, <3>3, EntryKept
    <2>2. CASE i \notin 1..n
      <3>1. i > n /\ i \notin Files'
        BY <1>3, <1>4, <2>2
      <3> QED  BY <1>10, <3>1 DEF EntryAt
    <2> QED  BY <2>1, <2>2
  <1>13. ASSUME NEW g \in Fcb  PROVE BlockAt(g, Q1)'
    <2>1. BlockAt(g, Q) /\ (Listed(g)' <=> Listed(g))
      BY <1>0, <1>1 DEF Owns, Listed
    <2>2. Listed(g) /\ fcb[g].fcd = 0 => call'.op = "extend" /\ call'.f = g
      BY <1>1, <1>2
    <2>3. Listed(g) /\ fcb[g].fcd # 0 => fcb[g].fcd \in Files /\ fcb[g].fcd \in 1..n
      BY <1>4, <2>1 DEF BlockAt
    <2> QED  BY <1>1, <1>4, <1>10, <1>11, <2>1, <2>2, <2>3, BlockKept
  <1>14. MapsAre(P, m, Q1)'
    <2>1. MapIs(secmap, P, m, Q, DirExt)
      BY <1>0, <1>2 DEF Owns, MapsAre
    <2>2. MapIs(secmap, P, m, Q1, DirExt)'
      BY <1>1, <1>4, <1>9, <2>1 DEF MapIs, Lost
    <2> QED  BY <1>1, <1>2, <1>4, <2>2 DEF MapsAre
  <1>15. TakenAt(P, m, Q1)'
    BY <1>2 DEF TakenAt
  <1>16. Exact(P, m, Q1)'
    <2>1. ASSUME ~lossy
          PROVE  secmap.count = Len(P) - m /\ \A t \in Sector : ~Lost(t, P, Q1, DirExt)
      BY <1>0, <1>2, <1>9, <2>1 DEF Owns, Exact
    <2> QED  BY <1>1, <1>4, <2>1 DEF Exact, Lost
  <1>17. Owns(P, m, Q1)'
    <2>1. Tidy(link, P, m, Q1, DirExt)'
      BY <1>4, <1>8 DEF Tidy, Pooled, InOrder, Chained, Apart
    <2> QED  BY <1>10, <1>12, <1>13, <1>14, <1>15, <1>16, <2>1 DEF Owns
  <1>18. Sharing'
    <2>1. call.op = "close" => call.f = f
      BY <1>f
    <2>2. fcb'[f].fas # WTAPP /\ f \notin Writers'
      BY <1>1, <1>2, <1>4 DEF Layout, Sharing
    <2>3. \A g \in Fcb : g # f => fcb'[g] = fcb[g] /\ (Listed(g)' => Listed(g))
      BY <1>1 DEF Listed
    <2>4. \A g \in Fcb : g # f /\ Listed(g) => fcb[g].fcd # fcb'[f].fcd
      BY <1>1, <1>2 DEF Layout, Sharing
    <2>5. \A g \in Writers : g # f => dir'[fcb[g].fcd].fsa = dir[fcb[g].fcd].fsa
      BY <1>3, <1>n DEF IInv, HeldIInv, DirInv, Located
    <2> QED  BY <1>2, <2>1, <2>2, <2>3, <2>4, <2>5, OneBlockSharing DEF Layout
  <1>19. Extension'
    BY <1>1 DEF Layout, Extension
  <1> QED  BY <1>17, <1>18, <1>19 DEF Layout

\* PUTAVL records that the directory has the sector.
LEMMA DirRecordLayout ==
  ASSUME IInv, Callers, Layout, DirExtendRecord
  PROVE  Layout'
  <1>0. PICK P, m, Q : Owns(P, m, Q)
    BY DEF Layout
  <1>f. PICK f : f = call.f
    OBVIOUS
  <1>1. /\ call.op = "extend" /\ call.next = "sir" /\ sir' = secmap
        /\ call'.op = "extend" /\ call'.next = "entry" /\ call'.f = f
        /\ UNCHANGED <<link, dir, dirext, secmap, loaded, fcb, fcblist, lossy>>
    <2>1. call \in [op : {"extend"}, f : Fcb, name : Names, next : {"clear", "sir", "entry"}]
      BY DEF DirExtendRecord, IInv, HeldIInv, Types, Calls, Idle, Excls
    <2>2. ~Fault("avail")
      BY DEF Callers, Fault, May
    <2> QED  BY <1>f, <2>1, <2>2 DEF DirExtendRecord
  <1>2. /\ f \in Fcb /\ Listed(f) /\ f \notin Writers /\ m = 0 /\ loaded
        /\ \A g \in Fcb : g # f /\ Listed(g) => fcb[g].fcd # 0
    BY <1>0, <1>1, <1>f, ExtendingKnows
  <1>3. Files' = Files /\ DirExt' = DirExt /\ Writers' = Writers /\ ~Torn'
        /\ \A j : ~Closing(j)' /\ ~Closing(j)
    BY <1>1, SameWriters DEF Files, Live, DirExt, Torn, Closing
  <1>4. Tidy(link, P, m, Q, DirExt)' /\ DOMAIN Q = 1..Len(dir')
    BY <1>0, <1>1, <1>3 DEF Owns, Tidy, Pooled, InOrder, Chained, Apart
  <1>5. ASSUME NEW j \in 1..Len(dir')  PROVE EntryAt(j, Q)'
    <2>1. Whole(j)' => Whole(j)
      BY <1>1, <1>3 DEF Whole
    <2>2. EntryAt(j, Q)
      BY <1>0, <1>1, <1>5 DEF Owns
    <2> QED  BY <1>1, <1>3, <2>1, <2>2, EntryKept
  <1>6. ASSUME NEW g \in Fcb  PROVE BlockAt(g, Q)'
    <2>1. BlockAt(g, Q) /\ (Listed(g)' <=> Listed(g))
      BY <1>0, <1>1 DEF Owns, Listed
    <2>2. Listed(g) /\ fcb[g].fcd = 0 => call'.op = "extend" /\ call'.f = g
      BY <1>1, <1>2
    <2>3. Listed(g) /\ fcb[g].fcd # 0 => fcb[g].fcd \in Files
      BY <2>1 DEF BlockAt
    <2> QED  BY <1>1, <1>3, <2>1, <2>2, <2>3, BlockKept
  <1>7. MapsAre(P, m, Q)'
    <2>1. MapIs(secmap, P, m, Q, DirExt)
      BY <1>0, <1>2 DEF Owns, MapsAre
    <2>2. MapIs(sir, P, 0, Q, DirExt)' /\ MapIs(secmap, P, m, Q, DirExt)'
      BY <1>1, <1>2, <1>3, <2>1 DEF MapIs, Lost
    <2> QED  BY <1>1, <1>2, <1>3, <2>2 DEF MapsAre
  <1>8. Exact(P, m, Q)'
    <2>1. ASSUME ~lossy
          PROVE  secmap.count = Len(P) - m /\ \A t \in Sector : ~Lost(t, P, Q, DirExt)
      BY <1>0, <1>2, <2>1 DEF Owns, Exact
    <2>2. Len(P) \in Nat /\ m = 0
      BY <1>0, <1>2, TidyTypes DEF Owns
    <2> QED  BY <1>1, <1>3, <2>1, <2>2 DEF Exact, Lost
  <1>9. TakenAt(P, m, Q)'
    BY <1>2 DEF TakenAt
  <1>10. Owns(P, m, Q)'
    BY <1>4, <1>5, <1>6, <1>7, <1>8, <1>9 DEF Owns
  <1>11. Sharing'
    <2>1. call.op # "close"
      BY <1>1
    <2> QED  BY <1>1, <1>3, <2>1 DEF Layout, Sharing, Listed, Closes
  <1>12. Extension'
    BY <1>1 DEF Layout, Extension
  <1> QED  BY <1>10, <1>11, <1>12 DEF Layout

\* OPNWT4 writes the entry into the new directory sector.
LEMMA DirEntryLayout ==
  ASSUME IInv, Layout, DirExtendEntry, UNCHANGED fcblist
  PROVE  Layout'
  <1> DEFINE new == [Blank EXCEPT !.fas = 2, !.name = call.name, !.fcd = Len(dir) - DirSlots + 1]
  <1>0. PICK P, m, Q : Owns(P, m, Q)
    BY DEF Layout
  <1>f. PICK f : f = call.f
    OBVIOUS
  <1>n. PICK n : n = call.name
    OBVIOUS
  <1>i. PICK i : i = Len(dir) - DirSlots + 1
    OBVIOUS
  <1>1. /\ call.op = "extend" /\ call.next = "entry" /\ call' = Idle
        /\ UNCHANGED <<link, dirext, sir, secmap, loaded, fcblist, lossy>>
        /\ WriteEntry(i, NoFile(n)) /\ fcb' = [fcb EXCEPT ![f] = new]
    <2>1. call.f \in Fcb /\ Listed(call.f)
      BY <1>0, ExtendingKnows DEF DirExtendEntry
    <2>2. fcblist # REMFCB(call.f)
      BY <2>1, RemfcbProperties DEF Listed, IInv, HeldIInv, Types, ListInv, NoTwice
    <2> QED  BY <2>2, <1>f, <1>i, <1>n DEF DirExtendEntry
  <1>2. f \in Fcb /\ n \in Names /\ f \notin Writers /\ ~Torn
    BY <1>0, <1>1, <1>f, <1>n, ExtendingKnows
  <1>3. i \in 1..Len(dir) /\ i \notin Files
    <2>1. DirSlots <= Len(dir) /\ (\A k \in 1..Len(dir) : dir[k].name # Never <=> k <= Len(dir) - DirSlots)
      BY <1>1 DEF IInv, HeldIInv, DirInv, Extending
    <2>2. DirSlots \in Nat \ {0} /\ Len(dir) \in Nat
      BY SizeAssumption, LiveInDir DEF IInv, HeldIInv
    <2>3. i \in 1..Len(dir) /\ ~(i <= Len(dir) - DirSlots)
      BY <1>i, <2>1, <2>2
    <2>4. dir[i].name = Never
      BY <2>1, <2>3
    <2> QED  BY <2>3, <2>4 DEF Files, Live
  <1>4. /\ new \in Block /\ new.fas = 2 /\ new.fcd = i /\ new.fsa = None /\ new.fsz = 0
        /\ new.fwd = None
    <2>1. i \in Nat
      BY <1>3, LiveInDir DEF IInv, HeldIInv
    <2> QED  BY <1>2, <1>i, <1>n, <2>1, Values DEF Block, Fields, Buffered, Blank
  <1> HIDE DEF new
  <1>5. /\ \A g \in Fcb : fcb'[g] = IF g = f THEN new ELSE fcb[g]
        /\ \A g \in Fcb : g # f => (Listed(g)' <=> Listed(g))
    BY <1>1, <1>2, <1>4, BlockStep DEF IInv, HeldIInv
  <1>6. MapsAre(P, m, Q)' /\ Exact(P, m, Q)'
    <2>1. Torn' <=> Torn
      BY <1>1, <1>2 DEF Torn, Idle
    <2>2. loaded
      BY <1>1 DEF Layout, Extension
    <2> QED  BY <1>0, <1>1, <2>1, <2>2, SameMaps DEF Owns
  <1> QED  BY <1>0, <1>1, <1>2, <1>3, <1>4, <1>5, <1>6, <1>f, NewFileLayout

\* The entry could not be written: the block leaves the list.
LEMMA DirEntryFailsLayout ==
  ASSUME IInv, Layout, DirExtendEntry, ~UNCHANGED fcblist
  PROVE  Layout'
  <1>0. PICK P, m, Q : Owns(P, m, Q)
    BY DEF Layout
  <1>f. PICK f \in Fcb : f = call.f
    BY <1>0, ExtendingKnows DEF DirExtendEntry
  <1>1. /\ call.op = "extend" /\ call.next = "entry" /\ call.f = f /\ call' = Idle
        /\ UNCHANGED <<link, dir, dirext, sir, secmap, loaded, lossy>>
        /\ fcblist' = REMFCB(f)
    BY <1>f DEF DirExtendEntry
  <1>2. Listed(f) /\ f \notin Writers /\ ~Torn
    BY <1>0, <1>1, <1>f, ExtendingKnows
  <1>3. PICK b \in Block : fcb' = [fcb EXCEPT ![f] = b] /\ b.fas = 2
    BY <1>f, ExtendEntryBlock DEF IInv, HeldIInv
  <1>4. /\ \A g \in Fcb : fcb'[g] = IF g = f THEN b ELSE fcb[g]
        /\ \A g \in Fcb : g # f => (Listed(g)' <=> Listed(g))
    BY <1>1, <1>2, <1>3, BlockStep DEF IInv, HeldIInv
  <1>5. ~Listed(f)'
    BY <1>1, RemfcbProperties DEF Listed, IInv, HeldIInv, Types, ListInv, NoTwice
  <1>6. MapsAre(P, m, Q)' /\ Exact(P, m, Q)'
    <2>1. Torn' <=> Torn
      BY <1>1, <1>2 DEF Torn, Idle
    <2>2. loaded
      BY <1>1 DEF Layout, Extension
    <2> QED  BY <1>0, <1>1, <2>1, <2>2, SameMaps DEF Owns
  <1>7. Owns(P, m, Q)'
    BY <1>0, <1>1, <1>2, <1>4, <1>5, <1>6, OneBlockOwns DEF BlockAt
  <1>8. Sharing'
    <2>1. fcb'[f].fas # WTAPP /\ f \notin Writers' /\ call.op # "close"
      BY <1>1, <1>3, <1>4, <1>5 DEF WTAPP, Writers
    <2> QED  BY <1>1, <1>4, <1>5, <2>1, OneBlockSharing DEF Layout
  <1>9. Extension'
    BY <1>1 DEF Layout, Extension, Idle
  <1> QED  BY <1>7, <1>8, <1>9 DEF Layout

-----------------------------------------------------------------------------
\* What DELETE makes of the map and the links for the entry e.
Freed(map1, L1, L, map, e) ==
  IF e.fsa = None THEN map1 = map /\ L1 = L
  ELSE /\ map1 = [first |-> IF map.last = None THEN e.fsa ELSE map.first,
                  last |-> e.fea, count |-> map.count + e.fsz]
       /\ L1 = IF map.last = None THEN L ELSE Relinked(L, map.last, e.fsa)

\* The sectors of a deleted file are the end of the pool, or lost with the sector
\* that was taken for its end.
LEMMA FreedPool ==
  ASSUME NEW L, NEW P, NEW Q, NEW X, Tidy(L, P, 0, Q, X),
         NEW map \in Map, MapIs(map, P, 0, Q, X),
         ~lossy => map.count = Len(P) /\ \A s \in Sector : ~Lost(s, P, Q, X),
         NEW i \in DOMAIN Q, NEW e \in DirEntry, Describes(e, Q[i]), e.fsz = Len(Q[i]),
         Len(Q[i]) > 0 => L[Q[i][Len(Q[i])]] = None,
         NEW map1, NEW L1, Freed(map1, L1, L, map, e)
  PROVE  \E P2, Q1 :
           /\ Empties(Q1, Q, i) /\ Tidy(L1, P2, 0, Q1, X) /\ MapIs(map1, P2, 0, Q1, X)
           /\ ~lossy => map1.count = Len(P2) /\ \A s \in Sector : ~Lost(s, P2, Q1, X)
           /\ \A j \in DOMAIN Q : j # i =>
                \A k \in 1..Len(Q[j]) : L1[Q[j][k]] = L[Q[j][k]]
  <1>0. /\ L \in [Sector -> Addr] /\ P \in Seq(Sector) /\ Len(P) \in Nat
        /\ Q \in [DOMAIN Q -> Seq(Sector)] /\ Q[i] \in Seq(Sector) /\ Len(Q[i]) \in Nat
        /\ \A j \in 1..Len(P) : P[j] \in Sector
        /\ \A j \in DOMAIN Q : Len(Q[j]) \in Nat /\ \A k \in 1..Len(Q[j]) : Q[j][k] \in Sector
        /\ None \notin Sector
    BY TidyTypes DEF Tidy
  <1>1. CASE e.fsa = None
    <2>1. Len(Q[i]) = 0
      BY <1>0, <1>1 DEF Describes
    <2>2. Q[i] = <<>>
      BY <1>0, <2>1
    <2>3. Empties(Q, Q, i)
      BY <1>0, <2>2 DEF Empties
    <2>4. map1 = map /\ L1 = L
      BY <1>1 DEF Freed
    <2> QED  BY <2>3, <2>4
  <1>2. CASE e.fsa # None
    <2>0. /\ Len(Q[i]) > 0 /\ e.fsa = Q[i][1] /\ e.fea = Q[i][Len(Q[i])]
          /\ e.fsa \in Sector /\ e.fea \in Sector
          /\ map1.first = (IF map.last = None THEN e.fsa ELSE map.first)
          /\ map1.last = e.fea /\ map1.count = map.count + e.fsz
          /\ L1 = IF map.last = None THEN L ELSE Relinked(L, map.last, e.fsa)
      <3>1. Len(Q[i]) > 0
        BY <1>0, <1>2 DEF Describes
      <3>2. 1 \in 1..Len(Q[i]) /\ Len(Q[i]) \in 1..Len(Q[i])
        BY <1>0, <3>1
      <3>3. e.fsa = Q[i][1] /\ e.fea = Q[i][Len(Q[i])]
        BY <3>1 DEF Describes
      <3>4. e.fsa \in Sector /\ e.fea \in Sector
        BY <1>0, <3>2, <3>3
      <3>5. map1 = [first |-> IF map.last = None THEN e.fsa ELSE map.first,
                    last |-> e.fea, count |-> map.count + e.fsz]
        BY <1>2 DEF Freed
      <3>6. L1 = IF map.last = None THEN L ELSE Relinked(L, map.last, e.fsa)
        BY <1>2 DEF Freed
      <3> QED  BY <3>1, <3>3, <3>4, <3>5, <3>6
    <2>1. PICK Q1 : Empties(Q1, Q, i)
      BY DEF Empties
    <2>2. PICK P2 : Joins(P2, P, Q[i])
      BY <1>0, JoinsExists
    <2>3. CASE Len(P) = 0 \/ map.last = P[Len(P)]
      <3>1. L1 = Linked(L, P, Q[i][1])
        <4>1. CASE Len(P) = 0
          <5>1. map.last = None
            BY <4>1 DEF MapIs, NoAvail
          <5> QED  BY <2>0, <4>1, <5>1 DEF Linked
        <4>2. CASE Len(P) # 0
          <5>1. map.last # None /\ map.last = P[Len(P)]
            BY <2>3, <4>2 DEF MapIs
          <5>2. L1 = Relinked(L, P[Len(P)], Q[i][1])
            BY <2>0, <5>1
          <5> QED  BY <4>2, <5>2 DEF Linked, Relinked
        <4> QED  BY <4>1, <4>2
      <3>2. Tidy(L1, P2, 0, Q1, X)
        BY <2>0, <2>1, <2>2, <3>1, TidyFree
      <3>3. \A s : Lost(s, P2, Q1, X) <=> Lost(s, P, Q, X)
        BY <2>1, <2>2, FreeLost
      <3>4. Len(P2) = Len(P) + Len(Q[i]) /\ Len(P2) # 0
        BY <1>0, <2>0, <2>2 DEF Joins
      <3>5. P2[Len(P2)] = e.fea
        <4>1. Len(Q[i]) \in 1..Len(Q[i])
          BY <1>0, <2>0
        <4>2. P2[Len(P) + Len(Q[i])] = Q[i][Len(Q[i])]
          BY <2>2, <4>1 DEF Joins
        <4> QED  BY <2>0, <3>4, <4>2
      <3>6. P2[1] = map1.first
        <4>1. CASE Len(P) = 0
          <5>1. map.last = None
            BY <4>1 DEF MapIs, NoAvail
          <5>2. 1 \in 1..Len(Q[i]) /\ Len(P) + 1 = 1
            BY <1>0, <2>0, <4>1
          <5>3. P2[Len(P) + 1] = Q[i][1]
            BY <2>2, <5>2 DEF Joins
          <5> QED  BY <2>0, <5>1, <5>2, <5>3
        <4>2. CASE Len(P) # 0
          <5>1. map.last # None /\ map.first = P[0 + 1]
            BY <4>2 DEF MapIs
          <5>2. 1 \in 1..Len(P)
            BY <1>0, <4>2
          <5>3. P2[1] = P[1]
            BY <2>2, <5>2 DEF Joins
          <5> QED  BY <2>0, <5>1, <5>3
        <4> QED  BY <4>1, <4>2
      <3>7. MapIs(map1, P2, 0, Q1, X)
        <4>1. map1.last # None /\ map1.last = P2[Len(P2)]
          BY <1>0, <2>0, <3>5
        <4>2. map1.first = P2[0 + 1] /\ 0 # Len(P2)
          BY <3>4, <3>6
        <4> QED  BY <4>1, <4>2 DEF MapIs
      <3>8. ~lossy => map1.count = Len(P2) /\ \A s \in Sector : ~Lost(s, P2, Q1, X)
        BY <2>0, <3>3, <3>4
      <3>9. ASSUME NEW j \in DOMAIN Q, j # i, NEW k \in 1..Len(Q[j])
            PROVE  L1[Q[j][k]] = L[Q[j][k]]
        <4>1. CASE Len(P) = 0
          BY <3>1, <4>1 DEF Linked
        <4>2. CASE Len(P) # 0
          <5>1. Len(P) \in 1..Len(P) /\ Len(P) > 0
            BY <1>0, <4>2
          <5>2. Q[j][k] # P[Len(P)]
            <6>1. \A l \in 1..Len(P) : l > 0 => Q[j][k] # P[l]
              BY <3>9 DEF Tidy, Apart
            <6> QED  BY <5>1, <6>1
          <5> QED  BY <1>0, <3>1, <4>2, <5>1, <5>2 DEF Linked
        <4> QED  BY <4>1, <4>2
      <3>10. \A j \in DOMAIN Q : j # i =>
               \A k \in 1..Len(Q[j]) : L1[Q[j][k]] = L[Q[j][k]]
        BY <3>9
      <3> WITNESS P2, Q1
      <3> QED  BY <2>1, <3>2, <3>7, <3>8, <3>10
    <2>4. CASE Len(P) # 0 /\ map.last # P[Len(P)]
      <3>1. map.last # None /\ Lost(map.last, P, Q, X) /\ map.first = P[0 + 1]
        BY <2>4 DEF MapIs
      <3>2. map.last \in Sector
        BY <3>1 DEF Map, Addr
      <3>3. lossy
        BY <3>1, <3>2
      <3>4. L1 = Relinked(L, map.last, e.fsa) /\ e.fsa \in Addr
        BY <2>0, <3>1 DEF Addr
      <3>5. Tidy(L1, P, 0, Q, X)
        <4>1. \A l \in 1..Len(P) : P[l] # map.last
          BY <3>1 DEF Lost
        <4>2. \A j \in DOMAIN Q : \A k \in 1..Len(Q[j]) : Q[j][k] # map.last
          BY <3>1 DEF Lost
        <4> QED  BY <3>4, <4>1, <4>2, TidyOutside
      <3>6. Begins(Q1, Q)
        <4>1. DOMAIN Q1 = DOMAIN Q
          BY <1>0, <2>1 DEF Empties
        <4>2. \A j \in DOMAIN Q : Q1[j] = IF j = i THEN <<>> ELSE Q[j]
          BY <1>0, <2>1 DEF Empties
        <4>3. Q1 \in [DOMAIN Q1 -> Seq(Sector)]
          BY <1>0, <2>1 DEF Empties
        <4>4. ASSUME NEW j \in DOMAIN Q
              PROVE  Len(Q1[j]) <= Len(Q[j]) /\ \A k \in 1..Len(Q1[j]) : Q1[j][k] = Q[j][k]
          <5>1. CASE j = i
            <6>1. Q1[j] = <<>>
              BY <4>2, <5>1
            <6>2. Len(Q1[j]) = 0
              BY <6>1
            <6> QED  BY <1>0, <6>2
          <5>2. CASE j # i
            BY <1>0, <4>2, <5>2
          <5> QED  BY <5>1, <5>2
        <4> QED  BY <4>1, <4>3, <4>4 DEF Begins
      <3>7. Tidy(L1, P, 0, Q1, X)
        BY <3>5, <3>6, TidyForget
      <3>8. Lost(e.fea, P, Q1, X)
        <4>1. Len(Q[i]) \in 1..Len(Q[i])
          BY <1>0, <2>0
        <4>2. e.fea \notin X
          BY <2>0, <4>1 DEF Tidy, Apart
        <4>3. \A l \in 1..Len(P) : P[l] # e.fea
          <5>1. \A l \in 1..Len(P) : l > 0
            BY <1>0
          <5> QED  BY <2>0, <4>1, <5>1 DEF Tidy, Apart
        <4>4. ASSUME NEW j \in DOMAIN Q1, NEW k \in 1..Len(Q1[j])  PROVE Q1[j][k] # e.fea
          <5>1. j \in DOMAIN Q /\ Q1[j] = IF j = i THEN <<>> ELSE Q[j]
            BY <1>0, <2>1, <4>4 DEF Empties
          <5>2. CASE j = i
            <6>1. Q1[j] = <<>>
              BY <5>1, <5>2
            <6>2. Len(Q1[j]) = 0
              BY <6>1
            <6> QED  BY <4>4, <6>2
          <5>3. CASE j # i
            BY <2>0, <4>1, <4>4, <5>1, <5>3 DEF Tidy, Apart
          <5> QED  BY <5>2, <5>3
        <4> QED  BY <4>2, <4>3, <4>4 DEF Lost
      <3>9. MapIs(map1, P, 0, Q1, X)
        BY <1>0, <2>0, <2>4, <3>1, <3>8 DEF MapIs
      <3>10. ASSUME NEW j \in DOMAIN Q, j # i, NEW k \in 1..Len(Q[j])
             PROVE  L1[Q[j][k]] = L[Q[j][k]]
        <4>1. Q[j][k] # map.last /\ Q[j][k] \in Sector
          BY <1>0, <3>1, <3>10 DEF Lost
        <4> QED  BY <1>0, <3>4, <4>1 DEF Relinked
      <3> QED  BY <2>1, <3>3, <3>7, <3>9, <3>10
    <2> QED  BY <2>3, <2>4
  <1> QED  BY <1>1, <1>2

\* DELETE appends the sectors of the file to the pool and links them to its end.
LEMMA DeleteLinkLayout ==
  ASSUME IInv, Callers, Layout, NEW f \in Fcb, NEW n \in Names, DeleteLink(f, n)
  PROVE  Layout'
  <1>0. PICK P, m, Q : Owns(P, m, Q)
    BY DEF Layout
  <1>i. PICK i : i = FNDNAM(n)
    OBVIOUS
  <1>e. PICK e : e = dir[i]
    OBVIOUS
  <1>m. PICK map : map = GETAVL
    OBVIOUS
  <1>1. /\ call = Idle /\ CallerOwns(n) /\ CallerMapValid /\ Found(n) # {} /\ loaded' = TRUE
        /\ UNCHANGED <<dir, dirext, sir, fcb, fcblist, lossy>>
        /\ \/ /\ Freed(secmap', link', link, map, e)
              /\ call' = [op |-> "delete", slot |-> i, next |-> "entry"]
           \/ secmap' = map /\ UNCHANGED <<link, call>>
    <2>1. /\ call = Idle /\ CallerOwns(n) /\ CallerMapValid /\ Found(n) # {} /\ loaded' = TRUE
          /\ UNCHANGED <<dir, dirext, sir, fcb, fcblist, lossy>>
      BY DEF DeleteLink, CallerFree
    <2>2. \/ /\ secmap' = IF e.fsa = None THEN map
                          ELSE [first |-> IF map.last = None THEN e.fsa ELSE map.first,
                                last  |-> e.fea,
                                count |-> map.count + e.fsz]
             /\ link' = IF e.fsa = None \/ map.last = None THEN link
                        ELSE [link EXCEPT ![map.last] = e.fsa]
             /\ call' = [op |-> "delete", slot |-> i, next |-> "entry"]
          \/ secmap' = map /\ UNCHANGED <<link, call>>
      BY <1>i, <1>e, <1>m DEF DeleteLink
    <2>3. CASE /\ secmap' = IF e.fsa = None THEN map
                            ELSE [first |-> IF map.last = None THEN e.fsa ELSE map.first,
                                  last  |-> e.fea,
                                  count |-> map.count + e.fsz]
               /\ link' = IF e.fsa = None \/ map.last = None THEN link
                          ELSE [link EXCEPT ![map.last] = e.fsa]
               /\ call' = [op |-> "delete", slot |-> i, next |-> "entry"]
      <3>1. Freed(secmap', link', link, map, e)
        BY <2>3 DEF Freed, Relinked
      <3> QED  BY <2>1, <2>3, <3>1
    <2> QED  BY <2>1, <2>2, <2>3
  <1>2. MapIs(map, P, m, Q, DirExt) /\ (~lossy => map.count = Len(P) - m) /\ ~Torn
    BY <1>0, <1>1, <1>m, GetavlIs DEF IInv, HeldIInv, Callers
  <1>3. CASE secmap' = map /\ UNCHANGED <<link, call>>
    <2>1. MapsAre(P, m, Q)' /\ Exact(P, m, Q)'
      BY <1>0, <1>1, <1>3, <1>m, Reloaded DEF IInv, HeldIInv, Callers
    <2> QED  BY <1>0, <1>1, <1>3, <2>1, SameFiles
  <1>4. CASE /\ Freed(secmap', link', link, map, e)
             /\ call' = [op |-> "delete", slot |-> i, next |-> "entry"]
    <2>1. /\ i \in 1..Len(dir) /\ i \in Files /\ e \in DirEntry
          /\ \A g \in Fcb : Listed(g) => fcb[g].fcd # i
      <3>1. i \in 1..Len(dir) /\ e \in DirEntry /\ e.name = n /\ OpenOn(i) = {}
        BY <1>1, <1>i, <1>e, FoundEntry DEF IInv, HeldIInv, CallerOwns, Callers
      <3>2. i \in Files
        BY <1>1, <1>e, <3>1, LiveInDir DEF IInv, HeldIInv, Idle
      <3> QED  BY <3>1, <3>2 DEF OpenOn
    <2>2. EntryAt(i, Q) /\ Whole(i) /\ DOMAIN Q = 1..Len(dir)
      BY <1>0, <2>1 DEF Owns, Whole, Writers
    <2>3. /\ Describes(e, Q[i]) /\ e.fsz = Len(Q[i])
          /\ Len(Q[i]) > 0 => link[Q[i][Len(Q[i])]] = None
      BY <1>e, <2>1, <2>2 DEF EntryAt
    <2>4. map \in Map
      BY <1>m, MapTypes DEF IInv, HeldIInv
    <2>5. PICK P1 : /\ Tidy(link, P1, 0, Q, DirExt)
                    /\ MapIs(map, P1, 0, Q, DirExt)
                    /\ ~lossy => map.count = Len(P1) /\ \A s \in Sector : ~Lost(s, P1, Q, DirExt)
      BY <1>0, <1>2, Resynced DEF IInv, HeldIInv
    <2>6. PICK P2, Q1 :
             /\ Empties(Q1, Q, i) /\ Tidy(link', P2, 0, Q1, DirExt)
             /\ MapIs(secmap', P2, 0, Q1, DirExt)
             /\ ~lossy => secmap'.count = Len(P2) /\ \A s \in Sector : ~Lost(s, P2, Q1, DirExt)
             /\ \A j \in DOMAIN Q : j # i =>
                  \A k \in 1..Len(Q[j]) : link'[Q[j][k]] = link[Q[j][k]]
      BY <1>4, <2>1, <2>2, <2>3, <2>4, <2>5, FreedPool
    <2>7. /\ call'.op = "delete" /\ call'.slot = i /\ call'.next = "entry"
          /\ Torn' /\ DirExt' = DirExt /\ \A j : ~Closing(j) /\ ~Closing(j)'
      BY <1>1, <1>4 DEF Torn, DirExt, Closing, Idle
    <2>8. Files' = Files \ {i}
      BY <1>1, <2>7 DEF Files, Live, Idle
    <2>9. /\ DOMAIN Q1 = 1..Len(dir) /\ Q1[i] = <<>>
          /\ \A j \in 1..Len(dir) : j # i => Q1[j] = Q[j]
      <3>1. Q \in [DOMAIN Q -> Seq(Sector)]
        BY <2>5 DEF Tidy
      <3> QED  BY <2>1, <2>2, <2>6, <3>1 DEF Empties
    <2>10. Tidy(link, P2, 0, Q1, DirExt)' /\ DOMAIN Q1 = 1..Len(dir')
      BY <1>1, <2>6, <2>7, <2>9 DEF Tidy, Pooled, InOrder, Chained, Apart
    <2>11. ASSUME NEW j \in 1..Len(dir')  PROVE EntryAt(j, Q1)'
      <3>1. CASE j = i
        BY <2>8, <2>9, <3>1 DEF EntryAt
      <3>2. CASE j # i
        <4>1. EntryAt(j, Q) /\ Q1[j] = Q[j] /\ (j \in Files <=> j \in Files') /\ dir'[j] = dir[j]
          BY <1>0, <1>1, <2>8, <2>9, <2>11, <3>2 DEF Owns
        <4>2. Whole(j)' => Whole(j)
          BY <1>1, <2>7, SameWriters DEF Whole
        <4>3. Len(Q[j]) > 0 => link'[Q[j][Len(Q[j])]] = link[Q[j][Len(Q[j])]]
          <5>1. j \in DOMAIN Q /\ Len(Q[j]) \in Nat
            BY <1>1, <2>2, <2>5, <2>11, TidyTypes
          <5> QED  BY <2>6, <3>2, <5>1
        <4> QED  BY <2>7, <4>1, <4>2, <4>3, EntryKept
      <3> QED  BY <3>1, <3>2
    <2>12. ASSUME NEW g \in Fcb  PROVE BlockAt(g, Q1)'
      <3>1. BlockAt(g, Q) /\ (Listed(g) => fcb[g].fcd # 0) /\ (Listed(g)' <=> Listed(g))
        BY <1>0, <1>1 DEF Owns, BlockAt, Idle, Listed
      <3>2. Listed(g) => /\ fcb[g].fcd \in Files' /\ fcb[g].fcd # i /\ fcb[g].fcd \in DOMAIN Q
                         /\ Q1[fcb[g].fcd] = Q[fcb[g].fcd]
        <4>1. Listed(g) => fcb[g].fcd \in Files /\ fcb[g].fcd # i
          BY <2>1, <3>1 DEF BlockAt
        <4>2. Files \subseteq 1..Len(dir)
          BY LiveInDir DEF IInv, HeldIInv
        <4> QED  BY <2>2, <2>8, <2>9, <4>1, <4>2
      <3>3. Listed(g) => \A k \in 1..Len(Q[fcb[g].fcd]) :
              link'[Q[fcb[g].fcd][k]] = link[Q[fcb[g].fcd][k]]
        BY <2>6, <3>2
      <3> QED  BY <1>1, <3>1, <3>2, <3>3, BlockKept
    <2>13. MapsAre(P2, 0, Q1)'
      BY <1>1, <2>6, <2>7 DEF MapsAre, MapIs, Lost
    <2>14. TakenAt(P2, 0, Q1)'
      BY DEF TakenAt
    <2>15. Exact(P2, 0, Q1)'
      <3>1. Len(P2) \in Nat
        BY <2>6, TidyTypes
      <3> QED  BY <1>1, <2>6, <2>7, <3>1 DEF Exact, Lost
    <2>16. Owns(P2, 0, Q1)'
      BY <2>10, <2>11, <2>12, <2>13, <2>14, <2>15 DEF Owns
    <2>17. Sharing'
      <3>1. Writers' = Writers
        BY <1>1, SameWriters
      <3>2. \A g : ~Closes(g)
        BY <1>1 DEF Closes, Idle
      <3> QED  BY <1>1, <3>1, <3>2 DEF Layout, Sharing, Listed
    <2>18. Extension'
      BY <1>1, <2>7 DEF Layout, Extension
    <2> QED  BY <2>16, <2>17, <2>18 DEF Layout
  <1> QED  BY <1>1, <1>3, <1>4

\* DELETE marks the entry.
LEMMA DeleteEntryLayout ==
  ASSUME IInv, Callers, Layout, DeleteEntry
  PROVE  Layout'
  <1>0. PICK P, m, Q : Owns(P, m, Q)
    BY DEF Layout
  <1>i. PICK i : i = call.slot
    OBVIOUS
  <1>1. /\ call.op = "delete" /\ WriteEntry(i, NoFile(Deleted))
        /\ call' = [call EXCEPT !.next = "sir"]
        /\ UNCHANGED <<link, dirext, sir, secmap, loaded, fcb, fcblist, lossy>>
    <2>1. ~Fault("delete")
      BY DEF Callers, Fault, May
    <2> QED  BY <2>1, <1>i DEF DeleteEntry, memory
  <1>2. call'.op = "delete" /\ call'.slot = i /\ call'.next = "sir"
    <2>1. call \in [op : {"delete"}, slot : Nat, next : {"entry", "sir"}]
      BY <1>1 DEF IInv, HeldIInv, Types, Calls, Idle, Excls
    <2> QED  BY <1>1, <1>i, <2>1
  <1>3. NoFile(Deleted) \in DirEntry /\ NoFile(Deleted).name = Deleted
    BY Values DEF NoFile, Entry
  <1>4. /\ Len(dir') = Len(dir) /\ dir' \in Seq(DirEntry) /\ Len(dir) \in Nat
        /\ \A k \in 1..Len(dir) : dir'[k] = IF k = i THEN NoFile(Deleted) ELSE dir[k]
    BY <1>1, <1>3, WriteEntryTypes DEF IInv, HeldIInv, Types
  <1>5. DOMAIN dir' = 1..Len(dir) /\ DOMAIN dir = 1..Len(dir)
    BY <1>4, LiveInDir DEF IInv, HeldIInv
  <1>6. i \notin Files /\ i \notin Live' /\ Files' = Files
    BY <1>1, <1>i, <1>2, <1>3, <1>4, <1>5 DEF Files, Live
  <1>7. Torn /\ Torn' /\ DirExt' = DirExt /\ (\A j : ~Closing(j) /\ ~Closing(j)') /\ Writers' = Writers
    BY <1>1, <1>2, SameWriters DEF Torn, DirExt, Closing
  <1>8. Tidy(link, P, m, Q, DirExt)' /\ DOMAIN Q = 1..Len(dir')
    BY <1>0, <1>1, <1>4, <1>7 DEF Owns, Tidy, Pooled, InOrder, Chained, Apart
  <1>9. ASSUME NEW j \in 1..Len(dir')  PROVE EntryAt(j, Q)'
    <2>1. EntryAt(j, Q) /\ (Whole(j)' => Whole(j)) /\ (j \in Files => dir'[j] = dir[j])
      BY <1>0, <1>1, <1>4, <1>6, <1>7, <1>9 DEF Owns, Whole
    <2> QED  BY <1>1, <1>6, <1>7, <2>1, EntryKept
  <1>10. ASSUME NEW g \in Fcb  PROVE BlockAt(g, Q)'
    <2>1. BlockAt(g, Q) /\ (Listed(g) => fcb[g].fcd # 0) /\ (Listed(g)' <=> Listed(g))
      BY <1>0, <1>1 DEF Owns, BlockAt, Listed
    <2>2. Listed(g) => fcb[g].fcd \in Files'
      BY <1>6, <2>1 DEF BlockAt
    <2> QED  BY <1>1, <2>1, <2>2, BlockKept
  <1>11. loaded /\ m = 0
    BY <1>0, <1>7 DEF Owns, MapsAre
  <1>12. MapsAre(P, m, Q)' /\ Exact(P, m, Q)'
    BY <1>0, <1>1, <1>7, <1>11, SameMaps DEF Owns
  <1>13. TakenAt(P, m, Q)'
    BY <1>11 DEF TakenAt
  <1>14. Owns(P, m, Q)'
    BY <1>8, <1>9, <1>10, <1>12, <1>13 DEF Owns
  <1>15. Sharing'
    <2>1. ASSUME NEW g \in Writers  PROVE dir'[fcb[g].fcd] = dir[fcb[g].fcd]
      <3>1. fcb[g].fcd \in 1..Len(dir)
        BY DEF IInv, HeldIInv, DirInv, Located, Writers
      <3>2. fcb[g].fcd \in Files
        BY <1>0, <1>1 DEF Owns, BlockAt, Writers
      <3> QED  BY <1>4, <1>6, <3>1, <3>2
    <2>2. \A g : ~Closes(g)
      BY <1>1 DEF Closes
    <2> QED  BY <1>1, <1>7, <2>1, <2>2 DEF Layout, Sharing, Listed
  <1>16. Extension'
    BY <1>1, <1>2, <1>6 DEF Layout, Extension
  <1> QED  BY <1>14, <1>15, <1>16 DEF Layout

\* DELETE records the map.
LEMMA DeleteRecordLayout ==
  ASSUME IInv, Callers, Layout, DeleteRecord
  PROVE  Layout'
  <1>0. PICK P, m, Q : Owns(P, m, Q)
    BY DEF Layout
  <1>1. /\ call.op = "delete" /\ call.next = "sir" /\ call' = Idle
        /\ sir' = secmap /\ (lossy' <=> lossy)
        /\ UNCHANGED <<link, dir, dirext, secmap, loaded, fcb, fcblist>>
    <2>1. ~Fault("avail")
      BY DEF Callers, Fault, May
    <2> QED  BY <2>1 DEF DeleteRecord, memory
  <1>2. Torn /\ ~Torn' /\ DirExt' = DirExt /\ (\A j : ~Closing(j) /\ ~Closing(j)') /\ Writers' = Writers
    BY <1>1, SameWriters DEF Torn, DirExt, Closing, Idle
  <1>3. Files' = Files
    BY <1>1 DEF Layout, Extension, Files, Live, Idle
  <1>4. loaded /\ m = 0 /\ MapIs(secmap, P, m, Q, DirExt)
    BY <1>0, <1>2 DEF Owns, MapsAre
  <1>5. Tidy(link, P, m, Q, DirExt)' /\ DOMAIN Q = 1..Len(dir')
    BY <1>0, <1>1, <1>2 DEF Owns, Tidy, Pooled, InOrder, Chained, Apart
  <1>6. ASSUME NEW j \in 1..Len(dir')  PROVE EntryAt(j, Q)'
    <2>1. EntryAt(j, Q) /\ (Whole(j)' => Whole(j)) /\ dir'[j] = dir[j]
      BY <1>0, <1>1, <1>2, <1>6 DEF Owns, Whole
    <2> QED  BY <1>1, <1>2, <1>3, <2>1, EntryKept
  <1>7. ASSUME NEW g \in Fcb  PROVE BlockAt(g, Q)'
    <2>1. BlockAt(g, Q) /\ (Listed(g) => fcb[g].fcd # 0) /\ (Listed(g)' <=> Listed(g))
      BY <1>0, <1>1 DEF Owns, BlockAt, Listed
    <2>2. Listed(g) => fcb[g].fcd \in Files'
      BY <1>3, <2>1 DEF BlockAt
    <2> QED  BY <1>1, <2>1, <2>2, BlockKept
  <1>8. MapsAre(P, m, Q)'
    <2>1. MapIs(secmap, P, m, Q, DirExt)' /\ MapIs(sir, P, 0, Q, DirExt)'
      BY <1>1, <1>2, <1>4 DEF MapIs, Lost
    <2> QED  BY <1>1, <1>2, <1>4, <2>1 DEF MapsAre
  <1>9. Exact(P, m, Q)'
    <2>1. Len(P) \in Nat
      BY <1>0, TidyTypes DEF Owns
    <2> QED  BY <1>0, <1>1, <1>2, <1>4, <2>1 DEF Owns, Exact, Lost
  <1>10. TakenAt(P, m, Q)'
    BY <1>4 DEF TakenAt
  <1>11. Owns(P, m, Q)'
    BY <1>5, <1>6, <1>7, <1>8, <1>9, <1>10 DEF Owns
  <1>12. Sharing'
    <2>1. \A g : ~Closes(g)
      BY <1>1 DEF Closes
    <2> QED  BY <1>1, <1>2, <2>1 DEF Layout, Sharing, Listed
  <1>13. Extension'
    BY <1>1 DEF Layout, Extension, Idle
  <1> QED  BY <1>11, <1>12, <1>13 DEF Layout

\* RENAME changes a name, not what the entry says of the file.
LEMMA RenameLayout ==
  ASSUME IInv, Callers, Layout, NEW f \in Fcb, NEW old \in Names, NEW new \in Names,
         Rename(f, old, new)
  PROVE  Layout'
  <1>0. PICK P, m, Q : Owns(P, m, Q)
    BY DEF Layout
  <1>i. PICK i : i = FNDNAM(old)
    OBVIOUS
  <1>e. PICK e : e = [dir[i] EXCEPT !.name = new]
    OBVIOUS
  <1>1. /\ call = Idle /\ Found(old) # {} /\ CallerOwns(old)
        /\ UNCHANGED <<link, dirext, sir, secmap, loaded, fcb, fcblist, call, lossy>>
        /\ UNCHANGED dir \/ dir' = [dir EXCEPT ![i].name = new]
    BY <1>i DEF Rename, CallerFree, memory
  <1>2. CASE UNCHANGED dir
    BY <1>1, <1>2, SameLayout
  <1>3. CASE dir' = [dir EXCEPT ![i].name = new]
    <2>1. i \in 1..Len(dir) /\ dir[i] \in DirEntry /\ dir[i].name = old /\ OpenOn(i) = {}
      BY <1>1, <1>i, FoundEntry DEF IInv, HeldIInv, CallerOwns, Callers
    <2>2. e \in DirEntry /\ e.name = new /\ e.fsa = dir[i].fsa /\ e.fea = dir[i].fea
          /\ e.fsz = dir[i].fsz
      BY <1>e, <2>1, Values DEF DirEntry
    <2>3. WriteEntry(i, e)
      BY <1>3, <1>e, <2>1 DEF WriteEntry, IInv, HeldIInv, Types
    <2>4. /\ Len(dir') = Len(dir) /\ dir' \in Seq(DirEntry) /\ Len(dir) \in Nat
          /\ \A k \in 1..Len(dir) : dir'[k] = IF k = i THEN e ELSE dir[k]
      BY <2>2, <2>3, WriteEntryTypes DEF IInv, HeldIInv, Types
    <2>5. DOMAIN dir' = 1..Len(dir) /\ DOMAIN dir = 1..Len(dir)
      BY <2>4, LiveInDir DEF IInv, HeldIInv
    <2>6. i \in Files
      BY <1>1, <2>1, LiveInDir DEF IInv, HeldIInv, Idle
    <2>7. new \notin {Deleted, Never}
      BY NameAssumption
    <2>8. Files' = Files
      BY <1>1, <2>1, <2>2, <2>4, <2>5, <2>6, <2>7 DEF Files, Live, Idle
    <2>9. /\ \A k \in 1..Len(dir) : /\ dir'[k].fsa = dir[k].fsa /\ dir'[k].fea = dir[k].fea
                                    /\ dir'[k].fsz = dir[k].fsz
      BY <2>2, <2>4
    <2>10. /\ ~Torn /\ ~Torn' /\ DirExt' = DirExt /\ Writers' = Writers
           /\ \A j : ~Closing(j) /\ ~Closing(j)'
      BY <1>1, SameWriters DEF Torn, DirExt, Closing, Idle
    <2>11. Tidy(link, P, m, Q, DirExt)' /\ DOMAIN Q = 1..Len(dir')
      BY <1>0, <1>1, <2>4, <2>10 DEF Owns, Tidy, Pooled, InOrder, Chained, Apart
    <2>12. ASSUME NEW j \in 1..Len(dir')  PROVE EntryAt(j, Q)'
      <3>1. EntryAt(j, Q) /\ (Whole(j)' => Whole(j)) /\ j \in 1..Len(dir)
        BY <1>0, <1>1, <2>4, <2>10, <2>12 DEF Owns, Whole
      <3>2. CASE j \in Files
        <4>1. Describes(dir[j], Q[j])' /\ dir'[j].fsz = dir[j].fsz
          BY <2>9, <3>1, <3>2 DEF EntryAt, Describes
        <4>2. Whole(j)' => dir'[j].fsz = Len(Q[j])
          BY <3>1, <3>2, <4>1 DEF EntryAt
        <4>3. Len(Q[j]) > 0 /\ (dir'[j].fsz = Len(Q[j]) \/ Closing(j)') =>
                link'[Q[j][Len(Q[j])]] = None
          BY <1>1, <2>10, <3>1, <3>2, <4>1 DEF EntryAt
        <4> QED  BY <2>8, <3>2, <4>1, <4>2, <4>3 DEF EntryAt
      <3>3. CASE j \notin Files
        BY <2>8, <3>1, <3>3 DEF EntryAt
      <3> QED  BY <3>2, <3>3
    <2>13. ASSUME NEW g \in Fcb  PROVE BlockAt(g, Q)'
      <3>1. BlockAt(g, Q) /\ (Listed(g) => fcb[g].fcd # 0) /\ (Listed(g)' <=> Listed(g))
        BY <1>0, <1>1 DEF Owns, BlockAt, Listed, Idle
      <3>2. Listed(g) => fcb[g].fcd \in Files'
        BY <2>8, <3>1 DEF BlockAt
      <3> QED  BY <1>1, <3>1, <3>2, BlockKept
    <2>14. MapsAre(P, m, Q)' /\ Exact(P, m, Q)'
      BY <1>0, <1>1, <2>10, SameMaps DEF Owns, MapsAre
    <2>15. TakenAt(P, m, Q)'
      <3>1. \A k \in Files : dir'[k].fsz = dir[k].fsz
        BY <2>9, LiveInDir DEF IInv, HeldIInv
      <3> QED  BY <1>0, <2>8, <3>1 DEF Owns, TakenAt
    <2>16. Owns(P, m, Q)'
      BY <2>11, <2>12, <2>13, <2>14, <2>15 DEF Owns
    <2>17. Sharing'
      <3>1. \A g \in Writers : dir'[fcb[g].fcd].fsa = dir[fcb[g].fcd].fsa
        BY <2>9 DEF IInv, HeldIInv, DirInv, Located, Writers
      <3>2. \A g : ~Closes(g)
        BY <1>1 DEF Closes, Idle
      <3> QED  BY <1>1, <2>10, <3>1, <3>2 DEF Layout, Sharing, Listed
    <2>18. Extension'
      BY <1>1 DEF Layout, Extension, Idle
    <2> QED  BY <2>16, <2>17, <2>18 DEF Layout
  <1> QED  BY <1>1, <1>2, <1>3

\* EXCLS is done when no block is in use: nothing was taken that is not recorded.
LEMMA ExclsDoneLayout ==
  ASSUME IInv, Layout, ExclsDone
  PROVE  Layout'
  <1>0. PICK P, m, Q : Owns(P, m, Q)
    BY DEF Layout
  <1>1. /\ call = Excls /\ call' = Idle /\ fcblist = <<>> /\ secmap' = NoAvail /\ loaded' = FALSE
        /\ UNCHANGED <<link, dir, dirext, sir, fcb, fcblist, lossy>>
    BY DEF ExclsDone, disk
  <1>2. Writers = {} /\ Writers' = {} /\ ~Torn /\ ~Torn' /\ DirExt' = DirExt
    <2>1. Writers = {}
      BY <1>1 DEF Writers, Listed, Range
    <2> QED  BY <1>1, <2>1, SameWriters DEF Torn, DirExt, Idle, Excls
  <1>3. m \in Nat
    BY <1>0, TidyTypes DEF Owns
  <1>4. m = 0
    <2> SUFFICES ASSUME m # 0  PROVE FALSE
      OBVIOUS
    <2>1. 1 \in 1..m
      BY <1>3
    <2>2. PICK i \in Files : \E k \in 1..Len(Q[i]) : dir[i].fsz < k
      BY <1>0, <2>1 DEF Owns, TakenAt
    <2>3. i \in 1..Len(dir) /\ dir[i].fsz \in Nat
      BY LiveInDir DEF IInv, HeldIInv, DirEntry
    <2>4. dir[i].fsz = Len(Q[i])
      BY <1>0, <1>2, <2>3 DEF Owns, EntryAt, Whole
    <2> QED  BY <2>2, <2>3, <2>4
  <1>5. MapsAre(P, m, Q)' /\ Exact(P, m, Q)'
    <2>1. MapIs(sir, P, 0, Q, DirExt)'
      BY <1>0, <1>1, <1>2 DEF Owns, MapsAre, MapIs, Lost
    <2>2. MapsAre(P, m, Q)'
      BY <1>1, <1>2, <1>4, <2>1 DEF MapsAre
    <2>3. Exact(P, m, Q)'
      BY <1>0, <1>1, <1>2, <1>4 DEF Owns, Exact, Lost
    <2> QED  BY <2>2, <2>3
  <1> QED  BY <1>0, <1>1, <1>5, SameFiles DEF Idle

-----------------------------------------------------------------------------
\* The opens, by the actions of Opening.
LEMMA OpeningLayout ==
  ASSUME IInv, Callers, Layout, NEW f \in Fcb, NEW n \in Names, Opening(f, n)
  PROVE  Layout'
  <1>1. CASE OpenWrite(f, n)
    <2>1. CASE UNCHANGED <<dir, fcblist>>
      BY <1>1, <2>1, OpenWriteFailsLayout
    <2>2. CASE ~UNCHANGED <<dir, fcblist>>
      BY <1>1, <2>2, OpenWriteLayout
    <2> QED  BY <2>1, <2>2
  <1>2. CASE DirExtend(f, n)
    BY <1>2, OpenWriteFailsLayout, DirExtendLayout
  <1>3. CASE OpenWriteBusy(f) \/ OpenWriteExists(f, n)
    BY <1>3, OpenWriteFailsLayout
  <1>4. CASE OpenFails(f, n)
    BY <1>4, SameLayout DEF OpenFails, vars, disk, memory
  <1>5. CASE OpenRead(f, n) \/ OpenUpdate(f, n) \/ OpenAppend(f, n)
    BY <1>5, OpenFileLayout
  <1> QED  BY <1>1, <1>2, <1>3, <1>4, <1>5 DEF Opening

\* Reading, writing and CLOSE, by the actions of Using.
LEMMA UsingLayout ==
  ASSUME IInv, Callers, Layout, NEW f \in Fcb, Using(f)
  PROVE  Layout'
  <1>1. CASE Reading(f)
    BY <1>1, ReadingLayout
  <1>2. CASE Writing(f)
    BY <1>2, WritingLayout
  <1>3. CASE CloseCall(f)
    BY <1>3, CloseLayout DEF CloseCall, CallerUses, CallerFree
  <1> QED  BY <1>1, <1>2, <1>3 DEF Using, Reading, Writing

\* The later steps of a call, by the actions of Continue.
LEMMA ContinueLayout ==
  ASSUME IInv, Callers, Layout, Continue
  PROVE  Layout'
  <1>1. CASE ExclsNext
    <2>1. call = Excls /\ fcblist # <<>> /\ CLOSE(Head(fcblist), "excls")
      BY <1>1 DEF ExclsNext
    <2>2. fcblist \in Seq(Fcb)
      BY DEF IInv, HeldIInv, Types
    <2>3. Head(fcblist) \in Fcb /\ Listed(Head(fcblist))
      BY <2>1, <2>2 DEF Listed, Range
    <2> QED  BY <2>1, <2>3, CloseLayout
  <1>2. CASE DirExtendClear \/ DirExtendRecord \/ DirExtendEntry
    BY <1>2, DirClearLayout, DirRecordLayout, DirEntryLayout, DirEntryFailsLayout
  <1>3. CASE CloseEntry \/ CloseRecord
    BY <1>3, CloseEntryLayout, CloseRecordLayout
  <1>4. CASE DeleteEntry \/ DeleteRecord
    BY <1>4, DeleteEntryLayout, DeleteRecordLayout
  <1>5. CASE ExclsDone
    BY <1>5, ExclsDoneLayout
  <1> QED  BY <1>1, <1>2, <1>3, <1>4, <1>5 DEF Continue

\* Every step keeps the invariant.
LEMMA StepLayout ==
  ASSUME IInv, Callers, Layout, [Next]_vars
  PROVE  Layout'
  <1>1. ASSUME NEW f \in Fcb, NEW n \in Names, Opening(f, n)  PROVE Layout'
    BY <1>1, OpeningLayout
  <1>2. ASSUME NEW f \in Fcb, NEW n \in Names, DeleteLink(f, n)  PROVE Layout'
    BY <1>2, DeleteLinkLayout
  <1>3. ASSUME NEW f \in Fcb, NEW o \in Names, NEW n \in Names, Rename(f, o, n)  PROVE Layout'
    BY <1>3, RenameLayout
  <1>4. ASSUME NEW f \in Fcb, Using(f)  PROVE Layout'
    BY <1>4, UsingLayout
  <1>5. CASE ExclsCall
    BY <1>5, SameLayout DEF ExclsCall, disk, memory
  <1>6. CASE Continue
    BY <1>6, ContinueLayout
  <1>7. CASE Restart
    <2>1. ~Torn /\ \A f \in Writers : dir[fcb[f].fcd].fsa # None => fcb[f].fea = dir[fcb[f].fcd].fea
      BY <1>7 DEF Restart, Window, Torn, Callers
    <2> QED  BY <1>7, <2>1, InitStepLayout DEF Restart, disk
  <1>8. CASE UNCHANGED vars
    BY <1>8, SameLayout DEF vars, disk, memory
  <1> QED
    BY <1>1, <1>2, <1>3, <1>4, <1>5, <1>6, <1>7, <1>8, Zenon DEF Next

\* The inductive invariant: the sectors of the disk have the owners they should.
LEMMA LayoutInvariance == Callers => (Spec => [](IInv /\ Layout))
  <1>1. ASSUME Callers  PROVE Spec => [](IInv /\ Layout)
    <2>1. Init => IInv /\ Layout
      BY InitHeld, InitDir, InitLayout DEF IInv
    <2>2. IInv /\ Layout /\ [Next]_vars => (IInv /\ Layout)'
      <3>1. "reopen" \in Discipline /\ "share" \in Discipline /\ "entry" \notin FaultAt
        BY <1>1 DEF Callers
      <3> QED  BY <1>1, <3>1, NextIInv, StepLayout
    <2> QED  BY <2>1, <2>2, PTL DEF Spec
  <1> QED  BY <1>1

-----------------------------------------------------------------------------
(* Third part: what the chains of FmsSafety are when every sector has its  *)
(* owner, and the theorems.                                                *)

\* p solves the equation of Chain for the links L and first sector s.
IsChain(p, L, s, n) ==
  p = [k \in 1..n |-> IF k = 1 THEN s ELSE IF p[k - 1] = None THEN None ELSE L[p[k - 1]]]

\* That solution when the links lead through q.
ChainOf(q, n) == [k \in 1..n |-> IF k <= Len(q) THEN q[k] ELSE None]

\* The equation of Chain has one solution.
LEMMA ChainUnique ==
  ASSUME NEW L, NEW s, NEW n \in Nat, NEW p, IsChain(p, L, s, n), NEW c, IsChain(c, L, s, n)
  PROVE  p = c
  <1>1. /\ DOMAIN p = 1..n /\ DOMAIN c = 1..n
        /\ p = [k \in 1..n |-> p[k]] /\ c = [k \in 1..n |-> c[k]]
        /\ \A k \in 1..n : p[k] = IF k = 1 THEN s ELSE IF p[k - 1] = None THEN None ELSE L[p[k - 1]]
        /\ \A k \in 1..n : c[k] = IF k = 1 THEN s ELSE IF c[k - 1] = None THEN None ELSE L[c[k - 1]]
    BY DEF IsChain
  <1> DEFINE Bad == {k \in 1..n : p[k] # c[k]}
  <1>2. CASE Bad = {}
    BY <1>1, <1>2
  <1>3. CASE Bad # {}
    <2>1. Bad \subseteq Nat
      OBVIOUS
    <2>2. PICK k : k = Min(Bad)
      OBVIOUS
    <2>3. k \in Bad /\ \A y \in Bad : k <= y
      <3> HIDE DEF Bad
      <3> QED  BY <1>3, <2>1, <2>2, MinOfNat, Zenon
    <2>4. k \in 1..n /\ p[k] # c[k]
      BY <2>3
    <2>5. k # 1
      BY <1>1, <2>4
    <2>6. k - 1 \in 1..n /\ ~(k <= k - 1)
      BY <2>4, <2>5
    <2>7. p[k - 1] = c[k - 1]
      BY <2>3, <2>6
    <2>8. p[k] = IF p[k - 1] = None THEN None ELSE L[p[k - 1]]
      BY <1>1, <2>4, <2>5
    <2>9. c[k] = IF c[k - 1] = None THEN None ELSE L[c[k - 1]]
      BY <1>1, <2>4, <2>5
    <2> QED  BY <2>4, <2>7, <2>8, <2>9
  <1> QED  BY <1>2, <1>3

\* The links lead from s through q.
LEMMA ChainOfIs ==
  ASSUME NEW L, NEW s, NEW n \in Nat, NEW q \in Seq(Sector),
         n > 0 => s = IF Len(q) = 0 THEN None ELSE q[1],
         \A k \in 1..Len(q) : k < Len(q) => L[q[k]] = q[k + 1],
         n <= Len(q) \/ Len(q) = 0 \/ L[q[Len(q)]] = None
  PROVE  IsChain(ChainOf(q, n), L, s, n)
  <1> DEFINE c == ChainOf(q, n)
  <1>0. Len(q) \in Nat /\ None \notin Sector /\ \A k \in 1..Len(q) : q[k] \in Sector
    BY SizeAssumption DEF Sector, None
  <1>1. \A k \in 1..n : c[k] = IF k <= Len(q) THEN q[k] ELSE None
    BY DEF ChainOf
  <1>2. ASSUME NEW k \in 1..n
        PROVE  c[k] = IF k = 1 THEN s ELSE IF c[k - 1] = None THEN None ELSE L[c[k - 1]]
    <2>1. CASE k = 1
      <3>1. n > 0
        BY <1>2
      <3>2. c[1] = IF 1 <= Len(q) THEN q[1] ELSE None
        BY <1>1, <1>2, <2>1
      <3>3. 1 <= Len(q) <=> Len(q) # 0
        BY <1>0
      <3> QED  BY <2>1, <3>1, <3>2, <3>3
    <2>2. CASE k # 1
      <3>1. k - 1 \in 1..n /\ (k - 1) + 1 = k
        BY <1>2, <2>2
      <3>2. CASE k - 1 < Len(q)
        <4>1. k - 1 \in 1..Len(q) /\ k <= Len(q) /\ k - 1 <= Len(q)
          BY <1>0, <1>2, <2>2, <3>2
        <4>2. c[k - 1] = q[k - 1] /\ q[k - 1] # None /\ c[k] = q[k]
          BY <1>0, <1>1, <1>2, <3>1, <4>1
        <4>3. L[q[k - 1]] = q[k]
          BY <3>1, <3>2, <4>1
        <4> QED  BY <2>2, <4>2, <4>3
      <3>3. CASE ~(k - 1 < Len(q))
        <4>1. ~(k <= Len(q)) /\ c[k] = None /\ ~(n <= Len(q))
          BY <1>0, <1>1, <1>2, <3>1, <3>3
        <4>2. CASE k - 1 = Len(q)
          <5>1. Len(q) # 0 /\ k - 1 <= Len(q)
            BY <1>2, <2>2, <4>2
          <5>2. c[k - 1] = q[Len(q)] /\ L[q[Len(q)]] = None
            BY <1>1, <3>1, <4>1, <4>2, <5>1
          <5> QED  BY <2>2, <4>1, <5>2
        <4>3. CASE k - 1 # Len(q)
          <5>1. ~(k - 1 <= Len(q))
            BY <1>0, <3>1, <3>3, <4>3
          <5>2. c[k - 1] = None
            BY <1>1, <3>1, <5>1
          <5> QED  BY <2>2, <4>1, <5>2
        <4> QED  BY <4>2, <4>3
      <3> QED  BY <3>2, <3>3
    <2> QED  BY <2>1, <2>2
  <1>3. c = [k \in 1..n |-> c[k]]
    BY DEF ChainOf
  <1> HIDE DEF c
  <1>4. c = [k \in 1..n |-> IF k = 1 THEN s ELSE IF c[k - 1] = None THEN None ELSE L[c[k - 1]]]
    BY <1>2, <1>3
  <1>5. IsChain(c, L, s, n)
    BY <1>4 DEF IsChain
  <1> QED  BY <1>5 DEF c

\* The chain that starts at s, when q is what the links lead through.
LEMMA ChainIs ==
  ASSUME NEW s, NEW n \in Nat, NEW q \in Seq(Sector),
         n > 0 => s = IF Len(q) = 0 THEN None ELSE q[1],
         \A k \in 1..Len(q) : k < Len(q) => link[q[k]] = q[k + 1],
         n <= Len(q) \/ Len(q) = 0 \/ link[q[Len(q)]] = None
  PROVE  /\ Chain(s, n) = ChainOf(q, n)
         /\ \A x : x \in SectorsOf(s, n) <=> \E k \in 1..Len(q) : k <= n /\ x = q[k]
  <1>1. IsChain(ChainOf(q, n), link, s, n)
    BY ChainOfIs
  <1>2. Chain(s, n) = CHOOSE p : IsChain(p, link, s, n)
    BY DEF Chain, IsChain
  <1>3. IsChain(Chain(s, n), link, s, n)
    BY <1>1, <1>2
  <1>4. Chain(s, n) = ChainOf(q, n)
    BY <1>1, <1>3, ChainUnique
  <1>5. Len(q) \in Nat /\ None \notin Sector /\ \A k \in 1..Len(q) : q[k] \in Sector
    BY SizeAssumption DEF Sector, None
  <1>6. \A x : x \in Range(ChainOf(q, n)) <=> \E k \in 1..n : x = IF k <= Len(q) THEN q[k] ELSE None
    BY DEF Range, ChainOf
  <1>7. ASSUME NEW x
        PROVE  x \in SectorsOf(s, n) <=> \E k \in 1..Len(q) : k <= n /\ x = q[k]
    <2>1. x \in SectorsOf(s, n) <=>
            x # None /\ \E k \in 1..n : x = IF k <= Len(q) THEN q[k] ELSE None
      BY <1>4, <1>6 DEF SectorsOf
    <2>2. ASSUME x # None, NEW k \in 1..n, x = IF k <= Len(q) THEN q[k] ELSE None
          PROVE  k \in 1..Len(q) /\ k <= n /\ x = q[k]
      <3>1. k <= Len(q)
        BY <2>2
      <3> QED  BY <1>5, <2>2, <3>1
    <2>3. ASSUME NEW k \in 1..Len(q), k <= n, x = q[k]
          PROVE  x # None /\ k \in 1..n /\ x = IF k <= Len(q) THEN q[k] ELSE None
      BY <1>5, <2>3
    <2> QED  BY <2>1, <2>2, <2>3
  <1> QED  BY <1>4, <1>7

\* The sectors an entry records are the first of its file.
LEMMA RecordedIs ==
  ASSUME IInv, NEW P, NEW m, NEW Q, Owns(P, m, Q), NEW i \in Files
  PROVE  /\ dir[i].fsz \in Nat /\ Len(Q[i]) \in Nat /\ dir[i].fsz <= Len(Q[i])
         /\ i \in DOMAIN Q
         /\ Chain(dir[i].fsa, dir[i].fsz) = ChainOf(Q[i], dir[i].fsz)
         /\ \A s : s \in Recorded(i) <=> \E k \in 1..Len(Q[i]) : k <= dir[i].fsz /\ s = Q[i][k]
  <1>1. i \in 1..Len(dir) /\ dir[i] \in DirEntry /\ i \in DOMAIN Q
    BY LiveInDir DEF IInv, HeldIInv, Owns
  <1>2. dir[i].fsz \in Nat /\ Q[i] \in Seq(Sector) /\ Len(Q[i]) \in Nat
    BY <1>1, TidyTypes DEF Owns, DirEntry
  <1>3. Describes(dir[i], Q[i])
    BY <1>1 DEF Owns, EntryAt
  <1>4. dir[i].fsz <= Len(Q[i])
    BY <1>3 DEF Describes
  <1>5. dir[i].fsz > 0 => dir[i].fsa = IF Len(Q[i]) = 0 THEN None ELSE Q[i][1]
    BY <1>2, <1>3 DEF Describes
  <1>6. \A k \in 1..Len(Q[i]) : k < Len(Q[i]) => link[Q[i][k]] = Q[i][k + 1]
    BY <1>1 DEF Owns, Tidy, Chained
  <1>7. /\ Chain(dir[i].fsa, dir[i].fsz) = ChainOf(Q[i], dir[i].fsz)
        /\ \A s : s \in SectorsOf(dir[i].fsa, dir[i].fsz) <=>
             \E k \in 1..Len(Q[i]) : k <= dir[i].fsz /\ s = Q[i][k]
    BY <1>2, <1>4, <1>5, <1>6, ChainIs
  <1> QED  BY <1>1, <1>2, <1>4, <1>7 DEF Recorded

\* A block that writes a file holds all its sectors.
LEMMA HeldIs ==
  ASSUME IInv, NEW P, NEW m, NEW Q, Owns(P, m, Q), NEW f \in Writers
  PROVE  /\ fcb[f].fcd \in Files
         /\ \A s : s \in Held(f) <=> \E k \in 1..Len(Q[fcb[f].fcd]) : s = Q[fcb[f].fcd][k]
  <1>i. PICK i : i = fcb[f].fcd
    OBVIOUS
  <1>1. i \in Files /\ Writes(fcb[f], Q[i])
    BY <1>i DEF Owns, BlockAt, Writers
  <1>2. i \in DOMAIN Q
    BY <1>1, RecordedIs
  <1>3. Q[i] \in Seq(Sector) /\ Len(Q[i]) \in Nat
    BY <1>2, TidyTypes DEF Owns
  <1>4. fcb[f].fsz = Len(Q[i]) /\ fcb[f].fsz \in Nat /\ fcb[f].fsz <= Len(Q[i])
    BY <1>1, <1>3 DEF Writes
  <1>5. fcb[f].fsz > 0 => fcb[f].fsa = IF Len(Q[i]) = 0 THEN None ELSE Q[i][1]
    BY <1>1, <1>3, <1>4 DEF Writes, Describes
  <1>6. \A k \in 1..Len(Q[i]) : k < Len(Q[i]) => link[Q[i][k]] = Q[i][k + 1]
    BY <1>2 DEF Owns, Tidy, Chained
  <1>7. \A s : s \in SectorsOf(fcb[f].fsa, fcb[f].fsz) <=>
          \E k \in 1..Len(Q[i]) : k <= fcb[f].fsz /\ s = Q[i][k]
    BY <1>3, <1>4, <1>5, <1>6, ChainIs
  <1>8. \A k \in 1..Len(Q[i]) : k <= fcb[f].fsz
    BY <1>3, <1>4
  <1>9. \A s : s \in Held(f) <=> \E k \in 1..Len(Q[i]) : s = Q[i][k]
    BY <1>7, <1>8 DEF Held
  <1> QED  BY <1>i, <1>1, <1>9

\* A file owns the sectors the invariant gives it.
LEMMA OwnedIs ==
  ASSUME IInv, NEW P, NEW m, NEW Q, Owns(P, m, Q), NEW i \in Files
  PROVE  \A s : s \in Owned(i) <=> \E k \in 1..Len(Q[i]) : s = Q[i][k]
  <1>1. /\ dir[i].fsz \in Nat /\ Len(Q[i]) \in Nat /\ i \in 1..Len(dir)
        /\ \A s : s \in Recorded(i) <=> \E k \in 1..Len(Q[i]) : k <= dir[i].fsz /\ s = Q[i][k]
    BY RecordedIs, LiveInDir DEF IInv, HeldIInv
  <1>2. ASSUME NEW s, s \in Owned(i)  PROVE \E k \in 1..Len(Q[i]) : s = Q[i][k]
    <2>1. CASE s \in Recorded(i)
      BY <1>1, <2>1
    <2>2. CASE s \notin Recorded(i)
      <3>1. PICK f \in Writers : fcb[f].fcd = i /\ s \in Held(f)
        BY <1>2, <2>2 DEF Owned
      <3> QED  BY <3>1, HeldIs
    <2> QED  BY <2>1, <2>2
  <1>3. ASSUME NEW k \in 1..Len(Q[i])  PROVE Q[i][k] \in Owned(i)
    <2>1. CASE \E f \in Writers : fcb[f].fcd = i
      <3>1. PICK f \in Writers : fcb[f].fcd = i
        BY <2>1
      <3>2. Q[i][k] \in Held(f)
        BY <3>1, HeldIs
      <3> QED  BY <3>1, <3>2 DEF Owned
    <2>2. CASE ~\E f \in Writers : fcb[f].fcd = i
      <3>1. dir[i].fsz = Len(Q[i])
        BY <1>1, <2>2 DEF Owns, EntryAt, Whole
      <3>2. Q[i][k] \in Recorded(i)
        BY <1>1, <3>1
      <3> QED  BY <3>2 DEF Owned
    <2> QED  BY <2>1, <2>2
  <1> QED  BY <1>2, <1>3

\* A disk of n sectors has no chain with more.
LEMMA NotLonger ==
  ASSUME NEW P \in Seq(Sector), \A j, k \in 1..Len(P) : P[j] = P[k] => j = k
  PROVE  Len(P) <= Sectors
  <1>1. Len(P) \in Nat /\ Sectors \in Nat
    BY SizeAssumption
  <1>2. \A n \in Nat : IsFiniteSet(1..n) /\ Cardinality(1..n) = n
    <2> SUFFICES ASSUME NEW n \in Nat  PROVE IsFiniteSet(1..n) /\ Cardinality(1..n) = n
      OBVIOUS
    <2>1. IsFiniteSet(1..n) /\ Cardinality(1..n) = IF 1 > n THEN 0 ELSE n - 1 + 1
      BY FS_Interval
    <2> QED  BY <2>1
  <1>3. IsFiniteSet(Sector) /\ Cardinality(Sector) = Sectors
    BY <1>1, <1>2 DEF Sector
  <1> DEFINE g == [j \in 1..Len(P) |-> P[j]]
  <1>4. g \in Injection(1..Len(P), Sector)
    BY DEF Injection, IsInjective
  <1> QED  BY <1>2, <1>3, <1>4, FS_Injection

\* The available sectors are the part of the pool that is not taken.
LEMMA AvailableIs ==
  ASSUME IInv, NEW P, NEW m, NEW Q, Owns(P, m, Q)
  PROVE  /\ View.first = IF m = Len(P) THEN None ELSE P[m + 1]
         /\ \A s : s \in Available <=> \E j \in 1..Len(P) : m < j /\ s = P[j]
         /\ MapIs(View, P, m, Q, DirExt)
         /\ ~lossy => View.count = Len(P) - m
         /\ View \in Map
  <1>0. /\ P \in Seq(Sector) /\ Len(P) \in Nat /\ m \in Nat /\ m <= Len(P)
        /\ \A j \in 1..Len(P) : P[j] \in Sector
        /\ None \notin Sector
    BY TidyTypes DEF Owns, Tidy
  <1>1. MapIs(View, P, m, Q, DirExt) /\ (~lossy => View.count = Len(P) - m)
    <2>1. MapsAre(P, m, Q) /\ Exact(P, m, Q)
      BY DEF Owns
    <2>2. CASE loaded
      BY <2>1, <2>2 DEF View, MapsAre, Exact
    <2>3. CASE ~loaded
      BY <1>0, <2>1, <2>3 DEF View, MapsAre, Exact
    <2> QED  BY <2>2, <2>3
  <1>2. View.first = IF m = Len(P) THEN None ELSE P[m + 1]
    BY <1>1 DEF MapIs, NoAvail
  <1>3. View \in Map
    BY DEF View, IInv, HeldIInv, Types
  <1>4. PICK q : Rest(q, P, m)
    BY RestExists DEF Owns, Tidy
  <1>5. /\ q \in Seq(Sector) /\ Len(q) = Len(P) - m /\ Len(q) \in Nat
        /\ \A j \in 1..Len(q) : q[j] = P[m + j]
    BY <1>0, <1>4 DEF Rest
  <1>6. View.first = IF Len(q) = 0 THEN None ELSE q[1]
    <2>1. m # Len(P) => 1 \in 1..Len(q)
      BY <1>0, <1>5
    <2> QED  BY <1>0, <1>2, <1>5, <2>1
  <1>7. ASSUME NEW k \in 1..Len(q), k < Len(q)  PROVE link[q[k]] = q[k + 1]
    <2>1. k + 1 \in 1..Len(q) /\ m + k \in 1..Len(P) /\ m < m + k /\ m + k < Len(P)
          /\ (m + k) + 1 = m + (k + 1)
      BY <1>0, <1>5, <1>7
    <2>2. link[P[m + k]] = P[(m + k) + 1]
      BY <2>1 DEF Owns, Tidy, InOrder
    <2> QED  BY <1>5, <2>1, <2>2
  <1>8. Len(q) = 0 \/ link[q[Len(q)]] = None
    <2> SUFFICES ASSUME Len(q) # 0  PROVE link[q[Len(q)]] = None
      OBVIOUS
    <2>1. Len(q) \in 1..Len(q) /\ m + Len(q) = Len(P) /\ Len(P) > 0
      BY <1>0, <1>5
    <2>2. q[Len(q)] = P[Len(P)]
      BY <1>5, <2>1
    <2> QED  BY <2>1, <2>2, TidyLast DEF Owns
  <1>9. Len(q) <= Sectors + 1
    <2>1. Len(P) <= Sectors /\ Sectors \in Nat
      BY <1>0, NotLonger, SizeAssumption DEF Owns, Tidy, Pooled
    <2> QED  BY <1>0, <1>5, <2>1
  <1>10. \A s : s \in Available <=> \E k \in 1..Len(q) : k <= Sectors + 1 /\ s = q[k]
    <2>1. Sectors + 1 \in Nat
      BY SizeAssumption
    <2> QED  BY <1>5, <1>6, <1>7, <1>8, <2>1, ChainIs DEF Available, ToEnd
  <1>11. ASSUME NEW s  PROVE s \in Available <=> \E j \in 1..Len(P) : m < j /\ s = P[j]
    <2>1. ASSUME NEW k \in 1..Len(q), s = q[k]
          PROVE  m + k \in 1..Len(P) /\ m < m + k /\ s = P[m + k]
      BY <1>0, <1>5, <2>1
    <2>2. ASSUME NEW j \in 1..Len(P), m < j, s = P[j]
          PROVE  j - m \in 1..Len(q) /\ j - m <= Sectors + 1 /\ s = q[j - m]
      <3>1. j - m \in 1..Len(q) /\ m + (j - m) = j
        BY <1>0, <1>5, <2>2
      <3>2. j - m <= Sectors + 1
        BY <1>5, <1>9, <3>1, SizeAssumption
      <3> QED  BY <1>5, <2>2, <3>1, <3>2
    <2> QED  BY <1>10, <2>1, <2>2
  <1> QED  BY <1>1, <1>2, <1>3, <1>11

-----------------------------------------------------------------------------
\* A sector has one owner: a file, the directory or the available sectors.
LEMMA OneOwner ==
  ASSUME IInv, Layout
  PROVE  NoCrossLink
  <1>0. PICK P, m, Q : Owns(P, m, Q)
    BY DEF Layout
  <1>1. Apart(P, m, Q, DirExt) /\ Files \subseteq DOMAIN Q
    BY <1>0, LiveInDir DEF Owns, Tidy, IInv, HeldIInv
  <1>2. ASSUME NEW i \in Files, NEW j \in Files, i # j, NEW s, s \in Owned(i), s \in Owned(j)
        PROVE  FALSE
    <2>1. PICK k \in 1..Len(Q[i]) : s = Q[i][k]
      BY <1>0, <1>2, OwnedIs
    <2>2. PICK l \in 1..Len(Q[j]) : s = Q[j][l]
      BY <1>0, <1>2, OwnedIs
    <2> QED  BY <1>1, <1>2, <2>1, <2>2 DEF Apart
  <1>3. ASSUME NEW i \in Files, NEW s, s \in Owned(i)
        PROVE  s \notin Available /\ s \notin DirExt
    <2>1. PICK k \in 1..Len(Q[i]) : s = Q[i][k]
      BY <1>0, <1>3, OwnedIs
    <2>2. s \notin DirExt /\ \A l \in 1..Len(P) : l > m => s # P[l]
      BY <1>1, <2>1 DEF Apart
    <2>3. s \in Available => \E l \in 1..Len(P) : m < l /\ s = P[l]
      BY <1>0, AvailableIs
    <2>4. m \in Nat /\ Len(P) \in Nat
      BY <1>0, TidyTypes DEF Owns
    <2> QED  BY <2>2, <2>3, <2>4
  <1>4. ASSUME NEW s, s \in DirExt, s \in Available  PROVE FALSE
    <2>1. PICK l \in 1..Len(P) : s = P[l]
      BY <1>0, <1>4, AvailableIs
    <2> QED  BY <1>1, <1>4, <2>1 DEF Apart
  <1> QED  BY <1>2, <1>3, <1>4 DEF NoCrossLink

\* The entry's size and its last sector agree, and the chain ends there.
LEMMA EntriesEnd ==
  ASSUME IInv, Layout
  PROVE  FilesEnd
  <1>0. PICK P, m, Q : Owns(P, m, Q)
    BY DEF Layout
  <1> SUFFICES ASSUME NEW i \in Files, dir[i].fsa # None, ~\E f \in Writers : fcb[f].fcd = i
               PROVE  /\ Chain(dir[i].fsa, dir[i].fsz)[dir[i].fsz] = dir[i].fea
                      /\ link[dir[i].fea] = None
    BY DEF FilesEnd
  <1>1. /\ dir[i].fsz \in Nat /\ Chain(dir[i].fsa, dir[i].fsz) = ChainOf(Q[i], dir[i].fsz)
        /\ i \in 1..Len(dir)
    BY <1>0, RecordedIs, LiveInDir DEF IInv, HeldIInv
  <1>2. EntryAt(i, Q) /\ Whole(i)
    BY <1>0, <1>1 DEF Owns, Whole
  <1>3. dir[i].fsz = Len(Q[i]) /\ dir[i].fsz > 0 /\ dir[i].fea = Q[i][dir[i].fsz]
    BY <1>1, <1>2 DEF EntryAt, Describes
  <1>4. link[Q[i][Len(Q[i])]] = None
    BY <1>1, <1>2, <1>3 DEF EntryAt
  <1>5. ChainOf(Q[i], dir[i].fsz)[dir[i].fsz] = Q[i][dir[i].fsz]
    <2>1. dir[i].fsz \in 1..dir[i].fsz /\ dir[i].fsz <= Len(Q[i])
      BY <1>1, <1>3
    <2> QED  BY <2>1 DEF ChainOf
  <1> QED  BY <1>1, <1>3, <1>4, <1>5

\* The disk alone: what the directory records, and what the links lead through
\* from the first sector the system information record names.
LEMMA DiskAlone ==
  ASSUME IInv, Layout
  PROVE  TornOnlyInWindow
  <1>0. PICK P, m, Q : Owns(P, m, Q)
    BY DEF Layout
  <1> SUFFICES ASSUME ~Window
               PROVE  /\ \A i, j \in Live : i # j => Recorded(i) \cap Recorded(j) = {}
                      /\ \A i \in Live : Recorded(i) \cap (ToEnd(sir.first) \cup DirExt) = {}
                      /\ DirExt \cap ToEnd(sir.first) = {}
    BY DEF TornOnlyInWindow
  <1>1. ~Torn /\ Live = Files
    BY DEF Window, Torn, Files
  <1>2. /\ P \in Seq(Sector) /\ Len(P) \in Nat /\ m \in Nat /\ m <= Len(P) /\ Pooled(link, P)
        /\ Apart(P, m, Q, DirExt) /\ MapIs(sir, P, 0, Q, DirExt) /\ Files \subseteq DOMAIN Q
    BY <1>0, <1>1, TidyTypes, LiveInDir DEF Owns, Tidy, MapsAre, IInv, HeldIInv
  <1>3. \A s \in ToEnd(sir.first) : \E l \in 1..Len(P) : s = P[l]
    <2>1. Sectors + 1 \in Nat
      BY SizeAssumption
    <2>2. CASE Len(P) = 0
      <3>1. sir.first = None
        BY <1>2, <2>2 DEF MapIs, NoAvail
      <3> DEFINE q == <<>>
      <3>2. q \in Seq(Sector) /\ Len(q) = 0
        OBVIOUS
      <3> HIDE DEF q
      <3>3. \A k \in 1..Len(q) : FALSE
        BY <3>2
      <3> QED  BY <2>1, <3>1, <3>2, <3>3, ChainIs DEF ToEnd
    <2>3. CASE Len(P) # 0
      <3>1. sir.first = P[0 + 1] /\ 1 \in 1..Len(P)
        BY <1>2, <2>3 DEF MapIs
      <3>2. PICK w \in Seq(Sector) : IsWalk(link, P, 1, w)
        BY <1>2, <3>1, WalkExists
      <3>3. Len(w) \in Nat /\ Len(w) > 0 /\ w[1] = sir.first /\ link[w[Len(w)]] = None
            /\ \A k \in 1..Len(w) : k < Len(w) => link[w[k]] = w[k + 1]
        BY <3>1, <3>2 DEF IsWalk
      <3>4. \A s \in ToEnd(sir.first) : \E k \in 1..Len(w) : s = w[k]
        BY <2>1, <3>3, ChainIs DEF ToEnd
      <3> QED  BY <3>2, <3>4 DEF IsWalk
    <2> QED  BY <2>2, <2>3
  <1>4. ASSUME NEW i \in Files, NEW j \in Files, i # j, NEW s, s \in Recorded(i), s \in Recorded(j)
        PROVE  FALSE
    <2>1. PICK k \in 1..Len(Q[i]) : s = Q[i][k]
      BY <1>0, <1>4, RecordedIs
    <2>2. PICK l \in 1..Len(Q[j]) : s = Q[j][l]
      BY <1>0, <1>4, RecordedIs
    <2> QED  BY <1>2, <1>4, <2>1, <2>2 DEF Apart
  <1>5. ASSUME NEW i \in Files, NEW s, s \in Recorded(i)
        PROVE  s \notin DirExt /\ s \notin ToEnd(sir.first)
    <2>1. PICK k \in 1..Len(Q[i]) : k <= dir[i].fsz /\ s = Q[i][k]
      BY <1>0, <1>5, RecordedIs
    <2>2. dir[i].fsz \in Nat /\ Len(Q[i]) \in Nat
      BY <1>0, RecordedIs
    <2>3. s \notin DirExt /\ \A l \in 1..Len(P) : l > m => s # P[l]
      BY <1>2, <2>1 DEF Apart
    <2>4. \A l \in 1..m : s # P[l]
      <3> SUFFICES ASSUME NEW l \in 1..m, s = P[l]  PROVE FALSE
        OBVIOUS
      <3>1. PICK j \in Files : \E x \in 1..Len(Q[j]) : dir[j].fsz < x /\ P[l] = Q[j][x]
        BY <1>0 DEF Owns, TakenAt
      <3>2. PICK x \in 1..Len(Q[j]) : dir[j].fsz < x /\ P[l] = Q[j][x]
        BY <3>1
      <3>3. Q[i][k] = Q[j][x] /\ i \in DOMAIN Q /\ j \in DOMAIN Q
        BY <1>2, <2>1, <3>2
      <3>4. i = j /\ k = x
        <4>1. Apart(P, m, Q, DirExt)
          BY <1>2
        <4>2. \A u, v \in DOMAIN Q : \A y \in 1..Len(Q[u]), z \in 1..Len(Q[v]) :
                Q[u][y] = Q[v][z] => u = v /\ y = z
          BY <4>1 DEF Apart
        <4> QED  BY <2>1, <3>2, <3>3, <4>2
      <3> QED  BY <2>1, <2>2, <3>2, <3>4
    <2>5. ASSUME NEW l \in 1..Len(P)  PROVE s # P[l]
      <3>1. l > m \/ l \in 1..m
        BY <1>2
      <3> QED  BY <2>3, <2>4, <3>1
    <2> QED  BY <1>3, <2>3, <2>5
  <1>6. ASSUME NEW s, s \in DirExt, s \in ToEnd(sir.first)  PROVE FALSE
    BY <1>2, <1>3, <1>6 DEF Apart
  <1> QED  BY <1>1, <1>4, <1>5, <1>6

\* The map in use counts the available sectors, and no sector is forgotten.
LEMMA MapExact ==
  ASSUME IInv, Layout
  PROVE  FreeExact
  <1>0. PICK P, m, Q : Owns(P, m, Q)
    BY DEF Layout
  <1> SUFFICES ASSUME ~lossy
               PROVE  /\ Cardinality(Available) = View.count
                      /\ View.last # None => View.last \in Available /\ link[View.last] = None
                      /\ View.first = None <=> View.last = None
                      /\ Sector = Available \cup DirExt \cup UNION {Owned(i) : i \in Files}
    BY DEF FreeExact
  <1>1. /\ P \in Seq(Sector) /\ Len(P) \in Nat /\ m \in Nat /\ m <= Len(P)
        /\ Pooled(link, P) /\ DOMAIN Q = 1..Len(dir)
        /\ \A j \in 1..Len(P) : P[j] \in Sector
        /\ \A i \in DOMAIN Q : Len(Q[i]) \in Nat
        /\ \A i \in DOMAIN Q : \A k \in 1..Len(Q[i]) : Q[i][k] \in Sector
        /\ None \notin Sector
    BY <1>0, TidyTypes DEF Owns, Tidy
  <1>2. /\ View.first = IF m = Len(P) THEN None ELSE P[m + 1]
        /\ \A s : s \in Available <=> \E j \in 1..Len(P) : m < j /\ s = P[j]
        /\ MapIs(View, P, m, Q, DirExt) /\ View.count = Len(P) - m /\ View \in Map
    BY <1>0, AvailableIs
  <1>3. \A s \in Sector : ~Lost(s, P, Q, DirExt)
    BY <1>0 DEF Owns, Exact
  <1>4. m # Len(P) => View.last = P[Len(P)] /\ View.last # None
    <2> SUFFICES ASSUME m # Len(P)  PROVE View.last = P[Len(P)] /\ View.last # None
      OBVIOUS
    <2>1. View.last # None /\ (View.last = P[Len(P)] \/ Lost(View.last, P, Q, DirExt))
      BY <1>2 DEF MapIs
    <2>2. View.last \in Sector
      BY <1>2, <2>1 DEF Map, Addr
    <2> QED  BY <1>3, <2>1, <2>2
  <1>5. m = Len(P) => View = NoAvail
    BY <1>2 DEF MapIs
  <1>6. View.last # None => View.last \in Available /\ link[View.last] = None
    <2> SUFFICES ASSUME View.last # None
                 PROVE  View.last \in Available /\ link[View.last] = None
      OBVIOUS
    <2>1. m # Len(P)
      BY <1>5 DEF NoAvail
    <2>2. Len(P) \in 1..Len(P) /\ m < Len(P) /\ Len(P) > 0
      BY <1>1, <2>1
    <2> QED  BY <1>0, <1>2, <1>4, <2>1, <2>2, TidyLast DEF Owns
  <1>7. View.first = None <=> View.last = None
    <2>1. CASE m = Len(P)
      BY <1>5, <2>1 DEF NoAvail
    <2>2. CASE m # Len(P)
      <3>1. m + 1 \in 1..Len(P)
        BY <1>1, <2>2
      <3> QED  BY <1>1, <1>2, <1>4, <2>2, <3>1
    <2> QED  BY <2>1, <2>2
  <1>8. Cardinality(Available) = Len(P) - m
    <2> DEFINE g == [j \in (m + 1)..Len(P) |-> P[j]]
    <2>1. IsFiniteSet((m + 1)..Len(P)) /\ Cardinality((m + 1)..Len(P)) = Len(P) - m
      <3>1. /\ IsFiniteSet((m + 1)..Len(P))
            /\ Cardinality((m + 1)..Len(P)) =
                 IF m + 1 > Len(P) THEN 0 ELSE Len(P) - (m + 1) + 1
        <4>1. m + 1 \in Int /\ Len(P) \in Int
          BY <1>1
        <4> QED  BY <4>1, FS_Interval, Zenon
      <3> QED  BY <1>1, <3>1
    <2>2. \A j \in (m + 1)..Len(P) : j \in 1..Len(P) /\ m < j
      BY <1>1
    <2>3. \A j \in 1..Len(P) : m < j => j \in (m + 1)..Len(P)
      BY <1>1
    <2>4. \A j \in (m + 1)..Len(P) : g[j] \in Available /\ g[j] = P[j]
      BY <1>2, <2>2
    <2>5. \A s \in Available : \E j \in (m + 1)..Len(P) : s = g[j]
      BY <1>2, <2>3
    <2>6. \A j, k \in (m + 1)..Len(P) : g[j] = g[k] => j = k
      BY <1>1, <2>2, <2>4 DEF Pooled
    <2>7. g \in [(m + 1)..Len(P) -> Available]
      BY <2>4
    <2> HIDE DEF g
    <2>8. g \in Injection((m + 1)..Len(P), Available)
      BY <2>6, <2>7 DEF Injection, IsInjective
    <2>9. g \in Surjection((m + 1)..Len(P), Available)
      BY <2>5, <2>7 DEF Surjection
    <2>10. Cardinality(Available) = Cardinality((m + 1)..Len(P))
      BY <2>1, <2>8, <2>9, FS_Surjection
    <2> QED  BY <2>1, <2>10
  <1>9. ASSUME NEW s \in Sector, s \notin Available, s \notin DirExt
        PROVE  \E i \in Files : s \in Owned(i)
    <2>1. \A i \in DOMAIN Q : i \notin Files => Len(Q[i]) = 0
      <3> SUFFICES ASSUME NEW i \in DOMAIN Q, i \notin Files  PROVE Len(Q[i]) = 0
        OBVIOUS
      <3>1. Q[i] = <<>>
        BY <1>0, <1>1 DEF Owns, EntryAt
      <3> QED  BY <3>1
    <2>2. CASE \E l \in 1..Len(P) : P[l] = s
      <3>1. PICK l \in 1..Len(P) : P[l] = s
        BY <2>2
      <3>2. l \in 1..m
        BY <1>1, <1>2, <1>9, <3>1
      <3>3. PICK i \in Files : \E k \in 1..Len(Q[i]) : P[l] = Q[i][k]
        BY <1>0, <3>2 DEF Owns, TakenAt
      <3> QED  BY <1>0, <3>1, <3>3, OwnedIs
    <2>3. CASE \E i \in DOMAIN Q : \E k \in 1..Len(Q[i]) : Q[i][k] = s
      <3>1. PICK i \in DOMAIN Q : \E k \in 1..Len(Q[i]) : Q[i][k] = s
        BY <2>3
      <3>2. i \in Files
        BY <1>1, <2>1, <3>1
      <3> QED  BY <1>0, <3>1, <3>2, OwnedIs
    <2> QED  BY <1>3, <1>9, <2>2, <2>3 DEF Lost
  <1>10. Available \subseteq Sector
    BY <1>1, <1>2
  <1>11. DirExt \subseteq Sector
    BY DEF Layout, Extension, DirExt, Range
  <1>12. \A i \in Files : Owned(i) \subseteq Sector
    <2> SUFFICES ASSUME NEW i \in Files, NEW s \in Owned(i)  PROVE s \in Sector
      OBVIOUS
    <2>1. i \in DOMAIN Q
      BY <1>1, LiveInDir DEF IInv, HeldIInv
    <2> QED  BY <1>0, <1>1, <2>1, OwnedIs
  <1>13. Sector = Available \cup DirExt \cup UNION {Owned(i) : i \in Files}
    BY <1>9, <1>10, <1>11, <1>12
  <1> QED  BY <1>2, <1>6, <1>7, <1>8, <1>13

\* A block that reads a file stays inside it.
LEMMA ReadersInside ==
  ASSUME IInv, Layout
  PROVE  ReadsOwnFile
  <1>0. PICK P, m, Q : Owns(P, m, Q)
    BY DEF Layout
  <1> SUFFICES ASSUME NEW f \in Fcb, Listed(f), fcb[f].fas \in {1, 3, 131}, call.op # "extend"
               PROVE  {fcb[f].fcs, fcb[f].fwd} \subseteq Recorded(fcb[f].fcd) \cup {None}
    BY DEF ReadsOwnFile
  <1>i. PICK i : i = fcb[f].fcd
    OBVIOUS
  <1>1. i \in Files /\ ReadsAt(fcb[f], Q[i], link)
    BY <1>0, <1>i DEF Owns, BlockAt
  <1>2. /\ dir[i].fsz \in Nat /\ Len(Q[i]) \in Nat /\ i \in DOMAIN Q /\ i \in 1..Len(dir)
        /\ \A s : s \in Recorded(i) <=> \E k \in 1..Len(Q[i]) : k <= dir[i].fsz /\ s = Q[i][k]
    BY <1>0, <1>1, RecordedIs, LiveInDir DEF IInv, HeldIInv
  <1>3. Whole(i)
    <2> SUFFICES ASSUME NEW g \in Writers, fcb[g].fcd = i  PROVE FALSE
      BY DEF Whole
    <2>1. g = f
      BY <1>i DEF Layout, Sharing, Writers
    <2> QED  BY <2>1 DEF Writers
  <1>4. EntryAt(i, Q) /\ dir[i].fsz = Len(Q[i])
    BY <1>0, <1>1, <1>2, <1>3 DEF Owns, EntryAt
  <1>5. \A k \in 1..Len(Q[i]) : Q[i][k] \in Recorded(i)
    BY <1>2, <1>4
  <1>6. CASE fcb[f].fcs = None
    BY <1>i, <1>1, <1>5, <1>6 DEF ReadsAt
  <1>7. CASE fcb[f].fcs # None
    <2>1. PICK k \in 1..Len(Q[i]) : fcb[f].fcs = Q[i][k]
      BY <1>1, <1>7 DEF ReadsAt
    <2>2. CASE fcb[f].fwd = fcb[f].fcs
      BY <1>i, <1>5, <2>1, <2>2
    <2>3. CASE k < Len(Q[i])
      <3>1. k + 1 \in 1..Len(Q[i]) /\ link[Q[i][k]] = Q[i][k + 1]
        BY <1>0, <1>2, <2>3 DEF Owns, Tidy, Chained
      <3> QED  BY <1>i, <1>1, <1>5, <1>7, <2>1, <2>2, <3>1 DEF ReadsAt
    <2>4. CASE k = Len(Q[i])
      <3>1. link[Q[i][k]] = None
        BY <1>1, <1>2, <1>4, <2>4 DEF EntryAt
      <3> QED  BY <1>i, <1>1, <1>5, <1>7, <2>1, <2>2, <3>1 DEF ReadsAt
    <2> QED  BY <1>2, <2>2, <2>3, <2>4, UpTo
  <1> QED  BY <1>6, <1>7

-----------------------------------------------------------------------------

\* WTNEXT, OPNWT, CLOSE and DELETE never give a sector to two owners, and the
\* directory never grows into one: for every disk, directory and set of programs,
\* with the habits and the errors Callers names and restarts outside Window.
THEOREM OwnersApart ==
  ASSUME Callers
  PROVE  Spec => []NoCrossLink
  <1>1. IInv /\ Layout => NoCrossLink
    BY OneOwner
  <1> QED  BY <1>1, LayoutInvariance, PTL

\* The entry CLOSE writes, or DELETE and RENAME leave, ends where its chain does,
\* behind the errors of reads, of CLOSE, DELETE and RENAME that Callers names; not
\* behind those of ASNNXT's read, WRTDIR and PUTAVL, nor a restart in Window.
THEOREM FilesEndEver ==
  ASSUME Callers
  PROVE  Spec => []FilesEnd
  <1>1. IInv /\ Layout => FilesEnd
    BY EntriesEnd
  <1> QED  BY <1>1, LayoutInvariance, PTL

\* Switched off outside the windows, the machine finds the disk consistent: the
\* links written since the avail pointers were last recorded (PUTAVL) do no harm,
\* nor do the errors that Callers names.
THEOREM DiskConsistent ==
  ASSUME Callers
  PROVE  Spec => []TornOnlyInWindow
  <1>1. IInv /\ Layout => TornOnlyInWindow
    BY DiskAlone
  <1> QED  BY <1>1, LayoutInvariance, PTL

\* The count in the avail map is the number of available sectors, and every sector
\* is available or in use (ASNNXT, GETAVL, PUTAVL, DELETE), as long as no writer is
\* cut off, under Callers.
THEOREM AvailExact ==
  ASSUME Callers
  PROVE  Spec => []FreeExact
  <1>1. IInv /\ Layout => FreeExact
    BY MapExact
  <1> QED  BY <1>1, LayoutInvariance, PTL

\* RDNEXT and the update of a file stay on its sectors until the empty link, also
\* when reads of it fail, under Callers.
THEOREM ReadersStay ==
  ASSUME Callers
  PROVE  Spec => []ReadsOwnFile
  <1>1. IInv /\ Layout => ReadsOwnFile
    BY ReadersInside
  <1> QED  BY <1>1, LayoutInvariance, PTL
=============================================================================
