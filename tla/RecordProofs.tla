---------------------------- MODULE RecordProofs ----------------------------
(***************************************************************************)
(* The records of a device, and its flows, for every device type, every    *)
(* number of interfaces and every length of a tick: a walk of the          *)
(* interface tables visits the interfaces one after the other, the tables  *)
(* are complete, their counters agree, and NetFlow reports no traffic that *)
(* they do not, in records of which the template says what they hold.      *)
(*                                                                         *)
(* The argument: the interfaces are determined by the type and the count.  *)
(* The OIDs of different emitters are apart, for an OID tells who emitted  *)
(* it (Group), and each emitter comes once.  So what is in the interface   *)
(* tables is what the rows put there (Content), wherever it stands, and    *)
(* sorting only moves it: Sorted gives an ascending permutation, because   *)
(* the records that go before another one count its place.  In such a list *)
(* nothing can stand between the lines of two neighbouring interfaces,     *)
(* because what is between their OIDs begins as they do (Between) and is   *)
(* therefore of the same column (TableLines).                              *)
(*                                                                         *)
(* The loop that selects the active interfaces is a function defined by    *)
(* recursion on a number; that it exists, and what it gives, is shown with *)
(* the least number at which it would fail (Least).                        *)
(***************************************************************************)
EXTENDS Flows, TLAPS, SequenceTheorems, FiniteSetTheorems, WellFoundedInduction

-----------------------------------------------------------------------------
(* Induction, without an operator that would have to be instantiated.      *)

\* A set of naturals that is not empty has a least element.
LEMMA Least ==
  ASSUME NEW T \in SUBSET Nat, T # {}
  PROVE  \E x \in T : \A y \in T : x <= y
<1>1. PICK x \in T : \A y \in T : <<y, x>> \notin OpToRel(<, Nat)
  BY WFMin, NatLessThanWellFounded, Zenon
<1>2. \A y \in T : ~(y < x)
  BY <1>1, Zenon DEF OpToRel
<1> QED BY <1>2

\* What holds at 0 and of the next if it holds of one, holds up to N.
LEMMA Upwards ==
  ASSUME NEW N \in Nat, NEW S, 0 \in S, \A n \in 1..N : n - 1 \in S => n \in S
  PROVE  0..N \subseteq S
<1> DEFINE T == {n \in 0..N : n \notin S}
<1> SUFFICES ASSUME T # {} PROVE FALSE
  OBVIOUS
<1>1. PICK x \in T : \A y \in T : x <= y
  <2> T \in SUBSET Nat
    OBVIOUS
  <2> HIDE DEF T
  <2> QED BY Least
<1>2. x \in 1..N /\ x - 1 \in 0..N
  BY <1>1
<1>3. x - 1 \in S
  BY <1>1, <1>2
<1> QED BY <1>1, <1>2, <1>3

\* f begins with base and goes on by the steps of G.
Follows(f, N, S, base, G) ==
  f \in [0..N -> S] /\ f[0] = base /\ \A n \in 1..N : f[n] = G[n][f[n - 1]]

\* A function that is defined by recursion exists.
LEMMA Recursion ==
  ASSUME NEW N \in Nat, NEW S, NEW base \in S, NEW G \in [1..N -> [S -> S]]
  PROVE  \E f : Follows(f, N, S, base, G)
<1> DEFINE Upto(m) == \E f \in [0..m -> S] : f[0] = base /\ \A n \in 1..m : f[n] = G[n][f[n - 1]]
           M == {m \in 0..N : Upto(m)}
<1>1. Upto(0)
  <2> DEFINE g == [n \in 0..0 |-> base]
  <2>1. g \in [0..0 -> S] /\ g[0] = base /\ \A n \in 1..0 : g[n] = G[n][g[n - 1]]
    OBVIOUS
  <2> HIDE DEF g
  <2> QED BY <2>1
<1>2. ASSUME NEW m \in 1..N, Upto(m - 1) PROVE Upto(m)
  <2>1. PICK f \in [0..(m - 1) -> S] : f[0] = base /\ \A n \in 1..(m - 1) : f[n] = G[n][f[n - 1]]
    BY <1>2
  <2> DEFINE g == [n \in 0..m |-> IF n = m THEN G[m][f[m - 1]] ELSE f[n]]
  <2>2. f[m - 1] \in S /\ G[m][f[m - 1]] \in S
    BY <2>1
  <2>3. g \in [0..m -> S]
    BY <2>1, <2>2
  <2>4. g[0] = base /\ \A n \in 1..m : g[n] = G[n][g[n - 1]]
    BY <2>1
  <2> QED BY <2>3, <2>4
<1>3. 0 \in M /\ \A n \in 1..N : n - 1 \in M => n \in M
  <2> HIDE DEF Upto
  <2>1. ASSUME NEW n \in 1..N, n - 1 \in M PROVE n \in M
    BY <1>2, <2>1
  <2> QED BY <1>1, <2>1
<1>4. N \in M
  <2> HIDE DEF M
  <2>1. 0..N \subseteq M
    BY <1>3, Upwards
  <2> QED BY <2>1
<1> QED BY <1>4 DEF Follows

-----------------------------------------------------------------------------
(* oid_sort_key: the order of the records.                                 *)

\* The order is total.
LEMMA BeforeTotal ==
  ASSUME NEW o \in Seq(Nat), NEW p \in Seq(Nat), ~Before(o, p), ~Before(p, o)
  PROVE  o = p
<1> DEFINE Both(i) == i \in DOMAIN o /\ i \in DOMAIN p /\ o[i] = p[i]
           T == {i \in Nat : i \in DOMAIN o \cup DOMAIN p /\ ~Both(i)}
<1>1. /\ Len(o) \in Nat /\ DOMAIN o = 1..Len(o) /\ \A i \in DOMAIN o : o[i] \in Nat
      /\ Len(p) \in Nat /\ DOMAIN p = 1..Len(p) /\ \A i \in DOMAIN p : p[i] \in Nat
  OBVIOUS
<1>2. CASE T = {}
  <2>1. \A i \in Nat : i \in DOMAIN o \cup DOMAIN p => Both(i)
    BY <1>2
  <2>2. Len(o) \in DOMAIN o => Len(o) \in DOMAIN p
    BY <1>1, <2>1
  <2>3. Len(p) \in DOMAIN p => Len(p) \in DOMAIN o
    BY <1>1, <2>1
  <2>4. Len(o) = Len(p)
    <3>1. Len(o) \in Nat /\ Len(p) \in Nat
      OBVIOUS
    <3>2. Len(o) > 0 => Len(o) <= Len(p)
      BY <1>1, <2>2, <3>1
    <3>3. Len(p) > 0 => Len(p) <= Len(o)
      BY <1>1, <2>3, <3>1
    <3> QED BY <3>1, <3>2, <3>3
  <2>5. \A i \in 1..Len(o) : o[i] = p[i]
    BY <1>1, <2>1
  <2> QED BY <2>4, <2>5, SeqEqual
<1>3. CASE T # {}
  <2>1. PICK x \in T : \A y \in T : x <= y
    <3> T \in SUBSET Nat
      OBVIOUS
    <3> HIDE DEF T
    <3> QED BY <1>3, Least
  <2>2. \A j \in 1..(x - 1) : Both(j)
    BY <1>1, <2>1
  <2>3. CASE x \in DOMAIN o /\ x \in DOMAIN p
    <3>1. o[x] # p[x] /\ o[x] \in Nat /\ p[x] \in Nat
      BY <1>1, <2>1, <2>3
    <3>2. o[x] < p[x] \/ p[x] < o[x]
      BY <3>1
    <3> QED BY <2>2, <2>3, <3>2 DEF Before
  <2>4. CASE x \notin DOMAIN o
    BY <1>1, <2>1, <2>2, <2>4 DEF Before
  <2>5. CASE x \notin DOMAIN p
    BY <1>1, <2>1, <2>2, <2>5 DEF Before
  <2> QED BY <2>3, <2>4, <2>5
<1> QED BY <1>2, <1>3

\* Of three OIDs in order the first is before the last.
LEMMA BeforeTransitive ==
  ASSUME NEW o \in Seq(Nat), NEW p \in Seq(Nat), NEW q \in Seq(Nat), Before(o, p), Before(p, q)
  PROVE  Before(o, q)
<1>1. /\ Len(o) \in Nat /\ DOMAIN o = 1..Len(o) /\ \A i \in DOMAIN o : o[i] \in Nat
      /\ Len(p) \in Nat /\ DOMAIN p = 1..Len(p) /\ \A i \in DOMAIN p : p[i] \in Nat
      /\ Len(q) \in Nat /\ DOMAIN q = 1..Len(q) /\ \A i \in DOMAIN q : q[i] \in Nat
  OBVIOUS
<1>2. PICK i \in DOMAIN p : /\ i \in DOMAIN o => o[i] < p[i]
                            /\ \A j \in 1..(i - 1) : j \in DOMAIN o /\ o[j] = p[j]
  BY DEF Before
<1>3. PICK k \in DOMAIN q : /\ k \in DOMAIN p => p[k] < q[k]
                            /\ \A j \in 1..(k - 1) : j \in DOMAIN p /\ p[j] = q[j]
  BY DEF Before
<1>4. CASE i < k
  <2>1. i \in DOMAIN q /\ i \in 1..(k - 1)
    BY <1>1, <1>4
  <2>2. p[i] = q[i]
    BY <1>3, <2>1
  <2>3. \A j \in 1..(i - 1) : p[j] = q[j]
    <3>1. \A j \in 1..(i - 1) : j \in 1..(k - 1)
      BY <1>1, <1>4
    <3> QED BY <1>3, <3>1
  <2> QED BY <1>2, <2>1, <2>2, <2>3 DEF Before
<1>5. CASE k < i
  <2>1. k \in DOMAIN o /\ o[k] = p[k] /\ k \in DOMAIN p
    BY <1>1, <1>2, <1>3, <1>5
  <2>2. \A j \in 1..(k - 1) : j \in DOMAIN o /\ o[j] = q[j]
    <3>1. \A j \in 1..(k - 1) : j \in 1..(i - 1)
      BY <1>1, <1>5
    <3> QED BY <1>2, <1>3, <3>1
  <2> QED BY <1>1, <1>3, <2>1, <2>2 DEF Before
<1>6. CASE k = i
  <2>1. \A j \in 1..(k - 1) : j \in DOMAIN o /\ o[j] = q[j]
    BY <1>1, <1>2, <1>3, <1>6
  <2>2. k \in DOMAIN o => o[k] < q[k]
    BY <1>1, <1>2, <1>3, <1>6
  <2> QED BY <1>1, <1>3, <2>1, <2>2 DEF Before
<1>7. i \in Nat /\ k \in Nat
  BY <1>1
<1> QED BY <1>4, <1>5, <1>6, <1>7

\* No two OIDs are each before the other.
LEMMA BeforeAsymmetric ==
  ASSUME NEW o \in Seq(Nat), NEW p \in Seq(Nat), Before(o, p)
  PROVE  ~Before(p, o)
<1>1. ~Before(o, o)
  <2>1. Len(o) \in Nat /\ DOMAIN o = 1..Len(o) /\ \A i \in DOMAIN o : o[i] \in Nat
    OBVIOUS
  <2> QED BY <2>1 DEF Before
<1> QED BY <1>1, BeforeTransitive

-----------------------------------------------------------------------------
(* lines.sort(): a permutation in that order.                              *)

\* What _rec() gives, and the order that is asked for.
Record == [oid : Seq(Nat), grows : BOOLEAN]

Ascending(s) == \A i, j \in 1..Len(s) : i < j => ~Before(s[j].oid, s[i].oid)

\* p takes every position to another one.
Bijective(p, m) ==
  /\ p \in [1..m -> 1..m]
  /\ \A i, j \in 1..m : p[i] = p[j] => i = j
  /\ \A k \in 1..m : \E i \in 1..m : p[i] = k

\* s has the records of t, each as often.
Rearranges(s, t) ==
  /\ s \in Seq(Record) /\ Len(s) = Len(t)
  /\ \E p : Bijective(p, Len(t)) /\ \A i \in 1..Len(t) : s[i] = t[p[i]]

\* Record j of t goes before record i, and where record i goes.
Earlier(t, j, i) == \/ Before(t[j].oid, t[i].oid)
                    \/ j < i /\ t[j].oid = t[i].oid
Ahead(t, i)      == {j \in DOMAIN t : Earlier(t, j, i)}
Place(t, i)      == 1 + Cardinality(Ahead(t, i))

\* Of two records one goes before the other, and not both.
LEMMA EarlierOrder ==
  ASSUME NEW t \in Seq(Record)
  PROVE  /\ \A i \in 1..Len(t) : ~Earlier(t, i, i)
         /\ \A i, j \in 1..Len(t) : i # j => Earlier(t, i, j) \/ Earlier(t, j, i)
         /\ \A i, j, k \in 1..Len(t) : Earlier(t, i, j) /\ Earlier(t, j, k) => Earlier(t, i, k)
<1>1. \A i \in 1..Len(t) : t[i].oid \in Seq(Nat)
  <2>1. \A i \in 1..Len(t) : t[i] \in Record
    BY ElementOfSeq
  <2> QED BY <2>1 DEF Record
<1>2. \A i \in 1..Len(t) : ~Earlier(t, i, i)
  BY <1>1, BeforeAsymmetric DEF Earlier
<1>3. \A i, j \in 1..Len(t) : i # j => Earlier(t, i, j) \/ Earlier(t, j, i)
  <2> SUFFICES ASSUME NEW i \in 1..Len(t), NEW j \in 1..Len(t), i # j
               PROVE  Earlier(t, i, j) \/ Earlier(t, j, i)
    OBVIOUS
  <2>1. CASE t[i].oid = t[j].oid
    BY <2>1 DEF Earlier
  <2>2. CASE t[i].oid # t[j].oid
    BY <1>1, <2>2, BeforeTotal DEF Earlier
  <2> QED BY <2>1, <2>2
<1>4. ASSUME NEW i \in 1..Len(t), NEW j \in 1..Len(t), NEW k \in 1..Len(t),
             Earlier(t, i, j), Earlier(t, j, k)
      PROVE  Earlier(t, i, k)
  <2>1. CASE Before(t[i].oid, t[j].oid) /\ Before(t[j].oid, t[k].oid)
    BY <1>1, <2>1, BeforeTransitive DEF Earlier
  <2>2. CASE t[i].oid = t[j].oid \/ t[j].oid = t[k].oid
    BY <1>4, <2>2 DEF Earlier
  <2> QED BY <1>4, <2>1, <2>2 DEF Earlier
<1> QED BY <1>2, <1>3, <1>4

\* Every record has a place of its own, in the order in which they go.
LEMMA Places ==
  ASSUME NEW t \in Seq(Record)
  PROVE  /\ \A i \in 1..Len(t) : Place(t, i) \in 1..Len(t)
         /\ \A i, j \in 1..Len(t) : Earlier(t, j, i) => Place(t, j) < Place(t, i)
         /\ \A i, j \in 1..Len(t) : Place(t, j) = Place(t, i) => i = j
         /\ \A k \in 1..Len(t) : \E i \in 1..Len(t) : Place(t, i) = k
<1> DEFINE n == Len(t)
           D == 1..n
<1>1. n \in Nat /\ DOMAIN t = D
  OBVIOUS
<1>2. /\ \A i \in D : ~Earlier(t, i, i)
      /\ \A i, j \in D : i # j => Earlier(t, i, j) \/ Earlier(t, j, i)
      /\ \A i, j, k \in D : Earlier(t, i, j) /\ Earlier(t, j, k) => Earlier(t, i, k)
  BY EarlierOrder
<1> HIDE DEF n
<1>3. IsFiniteSet(D) /\ Cardinality(D) = n
  <2>1. IsFiniteSet(1..n) /\ Cardinality(1..n) = IF 1 > n THEN 0 ELSE n - 1 + 1
    BY <1>1, FS_Interval
  <2> QED BY <1>1, <2>1
<1>4. \A i \in D : Ahead(t, i) \in SUBSET D
  BY <1>1 DEF Ahead
<1>5. \A i \in D : IsFiniteSet(Ahead(t, i)) /\ Cardinality(Ahead(t, i)) \in Nat
  BY <1>3, <1>4, FS_Subset, FS_CardinalityType
<1>6. ASSUME NEW i \in D PROVE Place(t, i) \in D
  <2> DEFINE F == Ahead(t, i)
  <2>1. F \in SUBSET (D \ {i})
    BY <1>1, <1>2, <1>4 DEF Ahead
  <2>2. IsFiniteSet(D \ {i}) /\ Cardinality(D \ {i}) = n - 1
    BY <1>3, FS_RemoveElement
  <2>3. Cardinality(F) <= n - 1
    <3> DEFINE G == D \ {i}
    <3>1. F \in SUBSET G /\ IsFiniteSet(G) /\ Cardinality(G) = n - 1
      BY <2>1, <2>2
    <3> HIDE DEF F, G
    <3>2. Cardinality(F) <= Cardinality(G)
      BY <3>1, FS_Subset
    <3> QED BY <3>1, <3>2
  <2>4. Cardinality(F) \in Nat
    BY <1>5
  <2> HIDE DEF F
  <2>5. 1 + Cardinality(F) \in D
    BY <1>1, <2>3, <2>4
  <2> QED BY <2>5 DEF Place, F
<1>7. ASSUME NEW i \in D, NEW j \in D, Earlier(t, j, i) PROVE Place(t, j) < Place(t, i)
  <2> DEFINE F == Ahead(t, i)
             E == Ahead(t, j)
  <2>1. E \in SUBSET F
    BY <1>1, <1>2, <1>7 DEF Ahead
  <2>2. j \in F /\ j \notin E
    BY <1>1, <1>2, <1>7 DEF Ahead
  <2>3. IsFiniteSet(F) /\ Cardinality(F) \in Nat /\ Cardinality(E) \in Nat
    BY <1>5
  <2> HIDE DEF E, F
  <2>4. Cardinality(E) <= Cardinality(F) /\ Cardinality(F) # Cardinality(E)
    BY <2>1, <2>2, <2>3, FS_Subset
  <2>5. 1 + Cardinality(E) < 1 + Cardinality(F)
    BY <2>3, <2>4
  <2> QED BY <2>5 DEF Place, E, F
<1>8. \A i \in D : Place(t, i) \in Nat
  BY <1>6
<1>9. ASSUME NEW i \in D, NEW j \in D, Place(t, j) = Place(t, i) PROVE i = j
  BY <1>2, <1>7, <1>8, <1>9
<1>10. ASSUME NEW k \in D PROVE \E i \in D : Place(t, i) = k
  <2> SUFFICES ASSUME \A i \in D : Place(t, i) # k PROVE FALSE
    OBVIOUS
  <2> DEFINE f == [i \in D |-> Place(t, i)]
  <2>1. f \in [D -> D \ {k}]
    BY <1>6
  <2>2. \A i, j \in D : f[i] = f[j] => i = j
    BY <1>9
  <2> HIDE DEF f
  <2>3. IsFiniteSet(D \ {k}) /\ Cardinality(D \ {k}) < Cardinality(D)
    <3>1. IsFiniteSet(D \ {k}) /\ Cardinality(D \ {k}) = n - 1
      BY <1>3, FS_RemoveElement
    <3> QED BY <1>1, <1>3, <3>1
  <2>4. \E i, j \in D : i # j /\ f[i] = f[j]
    BY <1>3, <2>1, <2>3, FS_PigeonHole
  <2> QED BY <2>2, <2>4
<1> QED BY <1>6, <1>7, <1>9, <1>10 DEF n

\* Sorting (lines.sort() with oid_sort_key, whatever is emitted) gives the records that
\* there are, each as often as it is there, and in the order of their OIDs.
THEOREM SortedWorks ==
  ASSUME NEW t \in Seq(Record)
  PROVE  Ascending(Sorted(t)) /\ Rearranges(Sorted(t), t)
<1> DEFINE n == Len(t)
           D == 1..n
           placed == {[record |-> t[i], place |-> Place(t, i)] : i \in D}
           s == Sorted(t)
           q == [k \in D |-> CHOOSE i \in D : Place(t, i) = k]
<1>1. n \in Nat /\ DOMAIN t = D /\ \A i \in D : t[i] \in Record
  BY ElementOfSeq
<1>2. s = [k \in D |-> (CHOOSE p \in placed : p.place = k).record]
  BY <1>1 DEF Sorted, Place, Ahead, Earlier
<1>3. /\ \A i \in D : Place(t, i) \in D
      /\ \A i, j \in D : Earlier(t, j, i) => Place(t, j) < Place(t, i)
      /\ \A i, j \in D : Place(t, j) = Place(t, i) => i = j
      /\ \A k \in D : \E i \in D : Place(t, i) = k
  BY Places
<1>4. \A k \in D : q[k] \in D /\ Place(t, q[k]) = k
  BY <1>3
<1>5. q \in [D -> D]
  BY <1>4
<1> HIDE DEF q, n, s
<1>6. ASSUME NEW k \in D PROVE s[k] = t[q[k]]
  <2> DEFINE p == CHOOSE p \in placed : p.place = k
  <2>1. [record |-> t[q[k]], place |-> Place(t, q[k])] \in placed
    BY <1>4
  <2>2. \E x \in placed : x.place = k
    BY <1>4, <2>1
  <2>3. p \in placed /\ p.place = k
    BY <2>2
  <2>4. PICK i \in D : p = [record |-> t[i], place |-> Place(t, i)]
    BY <2>3
  <2> HIDE DEF p
  <2>5. Place(t, i) = k /\ p.record = t[i]
    BY <2>3, <2>4
  <2>6. i = q[k]
    <3>1. q[k] \in D /\ Place(t, q[k]) = Place(t, i)
      BY <1>4, <2>5
    <3> QED BY <1>3, <3>1
  <2>7. s[k] = p.record
    BY <1>2 DEF p
  <2> QED BY <2>5, <2>6, <2>7
<1>7. s \in Seq(Record) /\ Len(s) = n
  <2>1. s \in [1..n -> Record]
    <3>1. \A k \in D : s[k] \in Record
      BY <1>1, <1>4, <1>6
    <3> HIDE DEF placed
    <3>2. s = [k \in D |-> s[k]]
      BY <1>2
    <3> QED BY <3>1, <3>2
  <2> QED BY <1>1, <2>1
<1>8. Bijective(q, n)
  <2>1. \A i, j \in D : q[i] = q[j] => i = j
    BY <1>4
  <2>2. ASSUME NEW k \in D PROVE \E i \in D : q[i] = k
    <3>1. Place(t, k) \in D /\ Place(t, q[Place(t, k)]) = Place(t, k)
      BY <1>3, <1>4
    <3>2. q[Place(t, k)] = k
      BY <1>3, <1>4, <3>1
    <3> QED BY <3>1, <3>2
  <2> QED BY <1>5, <2>1, <2>2 DEF Bijective
<1>9. ASSUME NEW i \in D, NEW j \in D, i < j PROVE ~Before(s[j].oid, s[i].oid)
  <2> SUFFICES ASSUME Before(s[j].oid, s[i].oid) PROVE FALSE
    OBVIOUS
  <2>0. s[j] = t[q[j]] /\ s[i] = t[q[i]]
    BY <1>6
  <2>1. Earlier(t, q[j], q[i])
    BY <2>0 DEF Earlier
  <2>2. Place(t, q[j]) < Place(t, q[i])
    BY <1>3, <1>4, <2>1
  <2> QED BY <1>1, <1>4, <1>9, <2>2
<1>10. Ascending(s)
  BY <1>7, <1>9 DEF Ascending
<1>11. Rearranges(s, t)
  BY <1>6, <1>7, <1>8 DEF Rearranges, n
<1> QED BY <1>10, <1>11 DEF s

-----------------------------------------------------------------------------
(* The stages, the OIDs and the interfaces of a device.                    *)

\* The place of a stage among the stages.
No == [interfaces |-> 1, system |-> 2, if_tables |-> 3, ip_tables |-> 4, tcp_udp |-> 5,
       cisco_cpu |-> 6, cisco_memory |-> 7, cisco_chassis |-> 8,
       host_resources |-> 9, ucd_snmp |-> 10, sort |-> 11, done |-> 12]

\* The place of the stage that emits an OID: no two groups share one.
Group(oid) ==
  IF oid[1] = 2
  THEN IF oid[3] = 1 \/ (oid[3] = 2 /\ oid[4] = 1) THEN 2
       ELSE IF oid[3] = 2 \/ oid[3] = 31 THEN 3
       ELSE IF oid[3] = 4 THEN 4
       ELSE IF oid[3] = 6 \/ oid[3] = 7 THEN 5 ELSE 9
  ELSE IF oid[3] = 2021 THEN 10
       ELSE IF oid[4] = 3 THEN 8
       ELSE IF oid[5] = 109 THEN 6 ELSE 7

\* The names of a device of type t with n interfaces.
FirstName == [router   |-> <<"Loopback", 0>>,     switch  |-> <<"Vlan", 1>>,
              firewall |-> <<"Management0/", 0>>, generic |-> <<"lo", 0>>]

PortPrefix == [router |-> "Gi0/", switch |-> "Gi1/0/", firewall |-> "Gi0/", generic |-> "eth"]

NameAt(t, i) == IF i = 1 THEN FirstName[t]
                ELSE <<PortPrefix[t], IF t = "switch" THEN i - 1 ELSE i - 2>>

Name == {"Loopback", "Vlan", "Management0/", "lo", "Gi0/", "Gi1/0/", "eth"} \X Nat

Interface == [index : Nat, name : Name, type : {6, 24}, oper : BOOLEAN, admin : BOOLEAN]

-----------------------------------------------------------------------------
(* The names of the interfaces.                                            *)

\* What the concatenation of two sequences is.
LEMMA ConcatPair ==
  ASSUME NEW S, NEW s \in Seq(S), NEW t \in Seq(S)
  PROVE  /\ s \o t \in Seq(S) /\ Len(s \o t) = Len(s) + Len(t)
         /\ \A i \in 1..Len(s) : (s \o t)[i] = s[i]
         /\ \A i \in 1..Len(t) : (s \o t)[Len(s) + i] = t[i]
<1> DEFINE u == s \o t
<1>1. /\ u \in Seq(S) /\ Len(u) = Len(s) + Len(t)
      /\ \A i \in 1..(Len(s) + Len(t)) : u[i] = IF i <= Len(s) THEN s[i] ELSE t[i - Len(s)]
  BY ConcatProperties
<1> HIDE DEF u
<1>2. Len(s) \in Nat /\ Len(t) \in Nat
  OBVIOUS
<1>3. ASSUME NEW i \in 1..Len(s) PROVE u[i] = s[i]
  BY <1>1, <1>2
<1>4. ASSUME NEW i \in 1..Len(t) PROVE u[Len(s) + i] = t[i]
  <2>1. Len(s) + i \in 1..(Len(s) + Len(t)) /\ ~(Len(s) + i <= Len(s)) /\ (Len(s) + i) - Len(s) = i
    BY <1>2
  <2> QED BY <1>1, <2>1
<1> QED BY <1>1, <1>3, <1>4 DEF u

\* A run of ports: how many there are, and their names.
LEMMA PortsProperties ==
  ASSUME NEW prefix, NEW from \in Nat, NEW n \in Nat, <<prefix, 0>> \in Name
  PROVE  /\ Ports(prefix, from, n) \in Seq(Name) /\ Len(Ports(prefix, from, n)) = n
         /\ \A i \in 1..n : Ports(prefix, from, n)[i] = <<prefix, from + i - 1>>
<1>1. \A i \in 1..n : <<prefix, from + i - 1>> \in Name
  <2> SUFFICES ASSUME NEW i \in 1..n PROVE <<prefix, from + i - 1>> \in Name
    OBVIOUS
  <2>1. from + i - 1 \in Nat
    OBVIOUS
  <2> QED BY <2>1 DEF Name
<1>2. DOMAIN Ports(prefix, from, n) = 1..n /\ Ports(prefix, from, n) \in [1..n -> Name]
  BY <1>1 DEF Ports
<1>3. Ports(prefix, from, n) \in Seq(Name) /\ Len(Ports(prefix, from, n)) = n
  BY <1>2
<1> QED BY <1>3 DEF Ports

\* A list of names that is cut after n of them.
LEMMA ListCut ==
  ASSUME NEW first \in Name, NEW ports \in Seq(Name), NEW n \in 1..(Len(ports) + 1)
  PROVE  /\ SubSeq(<<first>> \o ports, 1, n) \in Seq(Name)
         /\ Len(SubSeq(<<first>> \o ports, 1, n)) = n
         /\ SubSeq(<<first>> \o ports, 1, n)[1] = first
         /\ \A i \in 2..n : SubSeq(<<first>> \o ports, 1, n)[i] = ports[i - 1]
<1> DEFINE one == <<first>>
           u == one \o ports
           cut == SubSeq(u, 1, n)
<1>1. one \in Seq(Name) /\ Len(one) = 1 /\ one[1] = first
  OBVIOUS
<1> HIDE DEF one
<1>2. /\ u \in Seq(Name) /\ Len(u) = 1 + Len(ports)
      /\ \A i \in 1..Len(one) : u[i] = one[i]
      /\ \A i \in 1..Len(ports) : u[Len(one) + i] = ports[i]
  <2>1. /\ one \o ports \in Seq(Name) /\ Len(one \o ports) = Len(one) + Len(ports)
        /\ \A i \in 1..Len(one) : (one \o ports)[i] = one[i]
        /\ \A i \in 1..Len(ports) : (one \o ports)[Len(one) + i] = ports[i]
    <3>1. one \in Seq(Name)
      BY <1>1
    <3> QED BY <3>1, ConcatPair
  <2>2. /\ u \in Seq(Name) /\ Len(u) = Len(one) + Len(ports)
        /\ \A i \in 1..Len(one) : u[i] = one[i]
        /\ \A i \in 1..Len(ports) : u[Len(one) + i] = ports[i]
    BY <2>1
  <2> HIDE DEF u
  <2> QED BY <1>1, <2>2
<1> HIDE DEF u
<1>3. Len(ports) \in Nat /\ n \in Nat \ {0} /\ n <= Len(u)
  BY <1>2
<1>4. \A i \in 1..n : u[i] \in Name
  BY <1>2, <1>3, ElementOfSeq
<1>5. /\ cut \in Seq(Name)
      /\ Len(cut) = IF 1 <= n THEN n - 1 + 1 ELSE 0
      /\ \A i \in 1..(n - 1 + 1) : cut[i] = u[1 + i - 1]
  BY <1>3, <1>4, SubSeqProperties
<1> HIDE DEF cut
<1>6. Len(cut) = n /\ \A i \in 1..n : cut[i] = u[i]
  BY <1>3, <1>5
<1>7. cut[1] = first
  BY <1>1, <1>2, <1>3, <1>6
<1>8. ASSUME NEW i \in 2..n PROVE cut[i] = ports[i - 1]
  <2>1. i - 1 \in 1..Len(ports) /\ i \in 1..n /\ Len(one) + (i - 1) = i
    BY <1>1, <1>2, <1>3
  <2> QED BY <1>2, <1>6, <2>1
<1>9. /\ cut \in Seq(Name) /\ Len(cut) = n /\ cut[1] = first
      /\ \A i \in 2..n : cut[i] = ports[i - 1]
  BY <1>5, <1>6, <1>7, <1>8
<1> QED BY <1>9 DEF cut, u, one

\* What max(n, low) is.
LEMMA AtLeastBounds ==
  ASSUME NEW n \in Int, NEW low \in Nat
  PROVE  AtLeast(n, low) \in Nat /\ AtLeast(n, low) >= n /\ AtLeast(n, low) >= low
         /\ (n >= low => AtLeast(n, low) = n)
BY DEF AtLeast

\* _interface_names() gives as many names as it is asked for, and these.
LEMMA Names ==
  ASSUME NEW t \in DeviceType, NEW n \in Nat \ {0}
  PROVE  /\ Len(InterfaceNames(Style[t], n)) = n
         /\ \A i \in 1..n : InterfaceNames(Style[t], n)[i] = NameAt(t, i)
<1> DEFINE names == InterfaceNames(Style[t], n)
<1>1. ASSUME NEW first \in Name, NEW ports \in Seq(Name), n <= Len(ports) + 1,
             names = SubSeq(<<first>> \o ports, 1, n), first = NameAt(t, 1),
             \A i \in 2..n : ports[i - 1] = NameAt(t, i)
      PROVE  Len(names) = n /\ \A i \in 1..n : names[i] = NameAt(t, i)
  <2> HIDE DEF names
  <2>1. n \in 1..(Len(ports) + 1)
    BY <1>1
  <2>2. /\ Len(names) = n /\ names[1] = first
        /\ \A i \in 2..n : names[i] = ports[i - 1]
    BY <1>1, <2>1, ListCut
  <2>3. \A i \in 1..n : i = 1 \/ i \in 2..n
    OBVIOUS
  <2> QED BY <1>1, <2>2, <2>3
<1>2. CASE t = "router"
  <2> DEFINE m == AtLeast(n - 1, 1)
             ports == Ports("Gi0/", 0, m)
  <2>1. m \in Nat /\ n <= m + 1
    BY AtLeastBounds
  <2> HIDE DEF m
  <2>2. /\ ports \in Seq(Name) /\ Len(ports) = m
        /\ \A i \in 1..m : ports[i] = <<"Gi0/", 0 + i - 1>>
    BY <2>1, PortsProperties DEF Name
  <2>3. names = SubSeq(<<<<"Loopback", 0>>>> \o ports, 1, n)
    BY <1>2 DEF InterfaceNames, Style, m
  <2> HIDE DEF ports, names
  <2>4. ASSUME NEW i \in 2..n PROVE ports[i - 1] = NameAt(t, i)
    <3>1. i - 1 \in 1..m /\ 0 + (i - 1) - 1 = i - 2
      BY <2>1
    <3> QED BY <1>2, <2>2, <3>1 DEF NameAt, PortPrefix
  <2>5. <<"Loopback", 0>> \in Name /\ <<"Loopback", 0>> = NameAt(t, 1)
    BY <1>2 DEF NameAt, FirstName, Name
  <2> QED BY <1>1, <2>1, <2>2, <2>3, <2>4, <2>5 DEF names
<1>3. CASE t = "switch"
  <2> DEFINE m == AtLeast(n, 2) - 1
             ports == Ports("Gi1/0/", 1, m)
  <2>1. m \in Nat /\ n <= m + 1
    BY AtLeastBounds
  <2> HIDE DEF m
  <2>2. /\ ports \in Seq(Name) /\ Len(ports) = m
        /\ \A i \in 1..m : ports[i] = <<"Gi1/0/", 1 + i - 1>>
    BY <2>1, PortsProperties, ZenonT(60) DEF Name
  <2>3. names = SubSeq(<<<<"Vlan", 1>>>> \o ports, 1, n)
    BY <1>3 DEF InterfaceNames, Style, m
  <2> HIDE DEF ports, names
  <2>4. \A i \in 2..n : ports[i - 1] = NameAt(t, i)
    BY <1>3, <2>1, <2>2 DEF NameAt, PortPrefix
  <2>5. <<"Vlan", 1>> \in Name /\ <<"Vlan", 1>> = NameAt(t, 1)
    BY <1>3 DEF NameAt, FirstName, Name
  <2> QED BY <1>1, <2>1, <2>2, <2>3, <2>4, <2>5 DEF names
<1>4. CASE t = "generic"
  <2> DEFINE m == AtLeast(n - 1, 1)
             ports == Ports("eth", 0, m)
  <2>1. m \in Nat /\ n <= m + 1
    BY AtLeastBounds
  <2> HIDE DEF m
  <2>2. /\ ports \in Seq(Name) /\ Len(ports) = m
        /\ \A i \in 1..m : ports[i] = <<"eth", 0 + i - 1>>
    BY <2>1, PortsProperties DEF Name
  <2>3. names = SubSeq(<<<<"lo", 0>>>> \o ports, 1, n)
    BY <1>4 DEF InterfaceNames, Style, m
  <2> HIDE DEF ports, names
  <2>4. ASSUME NEW i \in 2..n PROVE ports[i - 1] = NameAt(t, i)
    <3>1. i - 1 \in 1..m /\ 0 + (i - 1) - 1 = i - 2
      BY <2>1
    <3> QED BY <1>4, <2>2, <3>1 DEF NameAt, PortPrefix
  <2>5. <<"lo", 0>> \in Name /\ <<"lo", 0>> = NameAt(t, 1)
    BY <1>4 DEF NameAt, FirstName, Name
  <2> QED BY <1>1, <2>1, <2>2, <2>3, <2>4, <2>5 DEF names
<1>5. CASE t = "firewall"
  <2> DEFINE m == AtLeast(n, 3) - 3
             three == Ports("Gi0/", 0, 3)
             more == Ports("Gi0/", 3, m)
             ports == three \o more
             one == <<<<"Management0/", 0>>>>
  <2>1. m \in Nat /\ n <= m + 3
    BY AtLeastBounds
  <2> HIDE DEF m
  <2>2. /\ three \in Seq(Name) /\ Len(three) = 3
        /\ \A i \in 1..3 : three[i] = <<"Gi0/", 0 + i - 1>>
    <3>1. <<"Gi0/", 0>> \in Name /\ 0 \in Nat /\ 3 \in Nat
      BY DEF Name
    <3> HIDE DEF three
    <3>2. /\ Ports("Gi0/", 0, 3) \in Seq(Name) /\ Len(Ports("Gi0/", 0, 3)) = 3
          /\ \A i \in 1..3 : Ports("Gi0/", 0, 3)[i] = <<"Gi0/", 0 + i - 1>>
      BY <3>1, PortsProperties
    <3> QED BY <3>2 DEF three
  <2>3. /\ more \in Seq(Name) /\ Len(more) = m
        /\ \A i \in 1..m : more[i] = <<"Gi0/", 3 + i - 1>>
    BY <2>1, PortsProperties, ZenonT(60) DEF Name
  <2>4. names = SubSeq(one \o three \o more, 1, n)
    BY <1>5 DEF InterfaceNames, Style, m
  <2>5. one \in Seq(Name) /\ <<"Management0/", 0>> \in Name
        /\ <<"Management0/", 0>> = NameAt(t, 1)
    BY <1>5 DEF NameAt, FirstName, Name
  <2> HIDE DEF three, more, names
  <2>6. (one \o three) \o more = one \o (three \o more)
    <3> HIDE DEF one
    <3> QED BY <2>2, <2>3, <2>5, ConcatAssociative
  <2>7. names = SubSeq(one \o ports, 1, n)
    BY <2>4, <2>6
  <2>8. /\ ports \in Seq(Name) /\ Len(ports) = 3 + m
        /\ \A i \in 1..3 : ports[i] = three[i]
        /\ \A i \in 1..m : ports[3 + i] = more[i]
    <3>1. /\ three \o more \in Seq(Name) /\ Len(three \o more) = Len(three) + Len(more)
          /\ \A i \in 1..Len(three) : (three \o more)[i] = three[i]
          /\ \A i \in 1..Len(more) : (three \o more)[Len(three) + i] = more[i]
      <4>1. three \in Seq(Name)
        BY <2>2
      <4>2. more \in Seq(Name)
        BY <2>3
      <4> QED BY <4>1, <4>2, ConcatPair
    <3>2. /\ ports \in Seq(Name) /\ Len(ports) = Len(three) + Len(more)
          /\ \A i \in 1..Len(three) : ports[i] = three[i]
          /\ \A i \in 1..Len(more) : ports[Len(three) + i] = more[i]
      BY <3>1
    <3> HIDE DEF ports
    <3> QED BY <2>2, <2>3, <3>2
  <2> HIDE DEF ports
  <2>9. ASSUME NEW i \in 2..n PROVE ports[i - 1] = NameAt(t, i)
    <3>1. CASE i <= 4
      <4>1. i - 1 \in 1..3
        BY <3>1
      <4>2. ports[i - 1] = <<"Gi0/", i - 2>>
        BY <2>2, <2>8, <4>1
      <4> QED BY <1>5, <4>2 DEF NameAt, PortPrefix
    <3>2. CASE i > 4
      <4>1. i - 4 \in 1..m /\ i - 1 = 3 + (i - 4) /\ 3 + (i - 4) - 1 = i - 2
        BY <2>1, <3>2
      <4>2. ports[i - 1] = <<"Gi0/", i - 2>>
        BY <2>3, <2>8, <4>1
      <4> QED BY <1>5, <4>2 DEF NameAt, PortPrefix
    <3> QED BY <3>1, <3>2
  <2>10. n <= Len(ports) + 1
    BY <2>1, <2>8
  <2> QED BY <1>1, <2>5, <2>7, <2>8, <2>9, <2>10 DEF names
<1> QED BY <1>2, <1>3, <1>4, <1>5 DEF DeviceType

-----------------------------------------------------------------------------
(* The OIDs of the groups.                                                 *)

\* The OIDs below mib-2.
LEMMA Mib2 ==
  ASSUME NEW s \in Seq(Nat)
  PROVE  /\ mib2 \o s \in Seq(Nat) /\ Len(mib2 \o s) = Len(s) + 2
         /\ (mib2 \o s)[1] = 2
         /\ \A i \in 1..Len(s) : (mib2 \o s)[2 + i] = s[i]
<1>1. mib2 \in Seq(Nat)
  BY DEF mib2
<1>2. Len(mib2) = 2 /\ mib2[1] = 2
  BY DEF mib2
<1>3. /\ mib2 \o s \in Seq(Nat) /\ Len(mib2 \o s) = Len(mib2) + Len(s)
      /\ \A i \in 1..Len(mib2) : (mib2 \o s)[i] = mib2[i]
      /\ \A i \in 1..Len(s) : (mib2 \o s)[Len(mib2) + i] = s[i]
  BY <1>1, ConcatPair
<1> DEFINE u == mib2 \o s
<1> HIDE DEF u
<1>4. /\ u \in Seq(Nat) /\ Len(u) = Len(mib2) + Len(s)
      /\ \A i \in 1..Len(mib2) : u[i] = mib2[i]
      /\ \A i \in 1..Len(s) : u[Len(mib2) + i] = s[i]
  BY <1>3 DEF u
<1>5. u \in Seq(Nat) /\ Len(u) = Len(s) + 2 /\ u[1] = 2 /\ \A i \in 1..Len(s) : u[2 + i] = s[i]
  BY <1>2, <1>4
<1> QED BY <1>5 DEF u

\* The OIDs below enterprises.
LEMMA Enterprises ==
  ASSUME NEW s \in Seq(Nat)
  PROVE  /\ enterprises \o s \in Seq(Nat) /\ Len(enterprises \o s) = Len(s) + 2
         /\ (enterprises \o s)[1] = 4
         /\ \A i \in 1..Len(s) : (enterprises \o s)[2 + i] = s[i]
<1>1. enterprises \in Seq(Nat)
  BY DEF enterprises
<1>2. Len(enterprises) = 2 /\ enterprises[1] = 4
  BY DEF enterprises
<1>3. /\ enterprises \o s \in Seq(Nat) /\ Len(enterprises \o s) = Len(enterprises) + Len(s)
      /\ \A i \in 1..Len(enterprises) : (enterprises \o s)[i] = enterprises[i]
      /\ \A i \in 1..Len(s) : (enterprises \o s)[Len(enterprises) + i] = s[i]
  BY <1>1, ConcatPair
<1> DEFINE u == enterprises \o s
<1> HIDE DEF u
<1>4. /\ u \in Seq(Nat) /\ Len(u) = Len(enterprises) + Len(s)
      /\ \A i \in 1..Len(enterprises) : u[i] = enterprises[i]
      /\ \A i \in 1..Len(s) : u[Len(enterprises) + i] = s[i]
  BY <1>3 DEF u
<1>5. u \in Seq(Nat) /\ Len(u) = Len(s) + 2 /\ u[1] = 4 /\ \A i \in 1..Len(s) : u[2 + i] = s[i]
  BY <1>2, <1>4
<1> QED BY <1>5 DEF u

\* A record of a table has the prefix of the table and then its column.
LEMMA RecsProperties ==
  ASSUME NEW prefix \in Seq(Nat), NEW cols \in Seq(Nat), NEW suffix \in Seq(Nat)
  PROVE  /\ Recs(prefix, cols, suffix) \in Seq(Record)
         /\ Len(Recs(prefix, cols, suffix)) = Len(cols)
         /\ \A i \in 1..Len(cols) :
              /\ \A j \in 1..Len(prefix) :
                   Recs(prefix, cols, suffix)[i].oid[j] = prefix[j]
              /\ Recs(prefix, cols, suffix)[i].oid[Len(prefix) + 1] = cols[i]
<1> DEFINE s == Recs(prefix, cols, suffix)
           oid(i) == prefix \o <<cols[i]>> \o suffix
<1>1. ASSUME NEW i \in 1..Len(cols)
      PROVE  /\ oid(i) \in Seq(Nat)
             /\ \A j \in 1..Len(prefix) : oid(i)[j] = prefix[j]
             /\ oid(i)[Len(prefix) + 1] = cols[i]
  <2> DEFINE one == <<cols[i]>>
             u == prefix \o one
  <2>1. cols[i] \in Nat
    BY ElementOfSeq
  <2>2. one \in Seq(Nat)
    BY <2>1
  <2>3. Len(one) = 1 /\ one[1] = cols[i]
    OBVIOUS
  <2> HIDE DEF one
  <2>4. /\ prefix \o one \in Seq(Nat) /\ Len(prefix \o one) = Len(prefix) + Len(one)
        /\ \A j \in 1..Len(prefix) : (prefix \o one)[j] = prefix[j]
        /\ \A j \in 1..Len(one) : (prefix \o one)[Len(prefix) + j] = one[j]
    BY <2>2, ConcatPair
  <2> HIDE DEF u
  <2>5. u \in Seq(Nat)
    BY <2>4 DEF u
  <2>6. Len(u) = Len(prefix) + 1 /\ Len(prefix) \in Nat
    BY <2>3, <2>4 DEF u
  <2>7. (\A j \in 1..Len(prefix) : u[j] = prefix[j]) /\ u[Len(prefix) + 1] = cols[i]
    BY <2>3, <2>4 DEF u
  <2>8. /\ u \o suffix \in Seq(Nat)
        /\ \A j \in 1..Len(u) : (u \o suffix)[j] = u[j]
    BY <2>5, ConcatPair
  <2>9. oid(i) = u \o suffix
    BY DEF u, one
  <2> DEFINE o == oid(i)
  <2> HIDE DEF o
  <2>10. o \in Seq(Nat) /\ \A j \in 1..Len(u) : o[j] = u[j]
    BY <2>8, <2>9 DEF o
  <2>11. \A j \in 1..Len(prefix) : j \in 1..Len(u)
    BY <2>6
  <2>12. Len(prefix) + 1 \in 1..Len(u)
    BY <2>6
  <2>13. (\A j \in 1..Len(prefix) : o[j] = prefix[j]) /\ o[Len(prefix) + 1] = cols[i]
    BY <2>7, <2>10, <2>11, <2>12
  <2> QED BY <2>10, <2>13 DEF o
<1> HIDE DEF oid
<1>2. s = [i \in 1..Len(cols) |-> [oid |-> oid(i), grows |-> FALSE]]
  BY DEF Recs, Rec, oid
<1>3. \A i \in 1..Len(cols) : [oid |-> oid(i), grows |-> FALSE] \in Record
  BY <1>1 DEF Record
<1> HIDE DEF s
<1>4. s \in [1..Len(cols) -> Record]
  BY <1>2, <1>3
<1>5. s \in Seq(Record) /\ Len(s) = Len(cols)
  <2> DEFINE m == Len(cols)
  <2>1. m \in Nat
    OBVIOUS
  <2> HIDE DEF m
  <2>2. s \in [1..m -> Record]
    BY <1>4 DEF m
  <2>3. s \in Seq(Record) /\ Len(s) = m
    BY <2>1, <2>2
  <2> QED BY <2>3 DEF m
<1>6. \A i \in 1..Len(cols) : s[i].oid = oid(i)
  BY <1>2
<1>7. \A i \in 1..Len(cols) : /\ \A j \in 1..Len(prefix) : s[i].oid[j] = prefix[j]
                              /\ s[i].oid[Len(prefix) + 1] = cols[i]
  BY <1>1, <1>6
<1> QED BY <1>5, <1>7 DEF s

\* Records of group n, each OID once, whose arcs at k are in A.
Tables(s, n, k, A) ==
  /\ s \in Seq(Record)
  /\ \A i, j \in 1..Len(s) : s[i].oid = s[j].oid => i = j
  /\ \A i \in 1..Len(s) : Group(s[i].oid) = n /\ s[i].oid[k] \in A

\* A table whose columns are different has no OID twice, and one group if its prefix has.
LEMMA OneTable ==
  ASSUME NEW prefix \in Seq(Nat), NEW cols \in Seq(Nat), NEW suffix \in Seq(Nat),
         NEW n, NEW k \in 1..Len(prefix),
         \A i, j \in 1..Len(cols) : cols[i] = cols[j] => i = j,
         \A o : (\A j \in 1..Len(prefix) : o[j] = prefix[j]) => Group(o) = n
  PROVE  /\ Tables(Recs(prefix, cols, suffix), n, k, {prefix[k]})
         /\ Tables(Recs(prefix, cols, suffix), n, Len(prefix) + 1, {cols[i] : i \in 1..Len(cols)})
<1> DEFINE s == Recs(prefix, cols, suffix)
<1>1. /\ s \in Seq(Record) /\ Len(s) = Len(cols)
      /\ \A i \in 1..Len(cols) : /\ \A j \in 1..Len(prefix) : s[i].oid[j] = prefix[j]
                                 /\ s[i].oid[Len(prefix) + 1] = cols[i]
  BY RecsProperties
<1> HIDE DEF s
<1>2. \A i, j \in 1..Len(s) : s[i].oid = s[j].oid => i = j
  <2> SUFFICES ASSUME NEW i \in 1..Len(s), NEW j \in 1..Len(s), s[i].oid = s[j].oid PROVE i = j
    OBVIOUS
  <2>1. cols[i] = cols[j]
    BY <1>1
  <2> QED BY <1>1, <2>1
<1>3. \A i \in 1..Len(s) : Group(s[i].oid) = n
  BY <1>1
<1>4. Tables(s, n, k, {prefix[k]})
  BY <1>1, <1>2, <1>3 DEF Tables
<1>5. Tables(s, n, Len(prefix) + 1, {cols[i] : i \in 1..Len(cols)})
  BY <1>1, <1>2, <1>3 DEF Tables
<1> QED BY <1>4, <1>5 DEF s

\* Two tables that differ in an arc.
LEMMA TwoTables ==
  ASSUME NEW n, NEW k, NEW A, NEW B, A \cap B = {},
         NEW s, NEW t, Tables(s, n, k, A), Tables(t, n, k, B)
  PROVE  Tables(s \o t, n, k, A \cup B)
<1>1. s \in Seq(Record)
  BY DEF Tables
<1>2. t \in Seq(Record)
  BY DEF Tables
<1>3. /\ s \o t \in Seq(Record) /\ Len(s \o t) = Len(s) + Len(t)
      /\ \A i \in 1..Len(s) : (s \o t)[i] = s[i]
      /\ \A i \in 1..Len(t) : (s \o t)[Len(s) + i] = t[i]
  BY <1>1, <1>2, ConcatPair
<1> DEFINE u == s \o t
<1> HIDE DEF u
<1>4. /\ u \in Seq(Record) /\ Len(u) = Len(s) + Len(t)
      /\ \A i \in 1..Len(s) : u[i] = s[i]
      /\ \A i \in 1..Len(t) : u[Len(s) + i] = t[i]
  BY <1>3 DEF u
<1>5. Len(s) \in Nat /\ Len(t) \in Nat
  BY <1>1, <1>2
<1>6. ASSUME NEW i \in 1..Len(u)
      PROVE  \/ i \in 1..Len(s) /\ u[i] = s[i]
             \/ i - Len(s) \in 1..Len(t) /\ u[i] = t[i - Len(s)] /\ i > Len(s)
  <2>1. CASE i <= Len(s)
    BY <1>4, <1>5, <2>1
  <2>2. CASE i > Len(s)
    <3>1. i - Len(s) \in 1..Len(t) /\ Len(s) + (i - Len(s)) = i
      BY <1>4, <1>5, <2>2
    <3> QED BY <1>4, <2>2, <3>1
  <2> QED BY <1>5, <2>1, <2>2
<1>7. /\ \A i, j \in 1..Len(s) : s[i].oid = s[j].oid => i = j
      /\ \A i \in 1..Len(s) : Group(s[i].oid) = n /\ s[i].oid[k] \in A
      /\ \A i, j \in 1..Len(t) : t[i].oid = t[j].oid => i = j
      /\ \A i \in 1..Len(t) : Group(t[i].oid) = n /\ t[i].oid[k] \in B
  BY DEF Tables
<1>8. \A i \in 1..Len(u) : Group(u[i].oid) = n /\ u[i].oid[k] \in A \cup B
  BY <1>6, <1>7
<1>9. ASSUME NEW i \in 1..Len(u), NEW j \in 1..Len(u), u[i].oid = u[j].oid PROVE i = j
  <2>1. CASE i \in 1..Len(s) /\ u[i] = s[i]
    <3>1. u[j].oid[k] \in A
      BY <1>7, <1>9, <2>1
    <3>2. j \in 1..Len(s) /\ u[j] = s[j]
      BY <1>6, <1>7, <3>1
    <3> QED BY <1>7, <1>9, <2>1, <3>2
  <2>2. CASE i - Len(s) \in 1..Len(t) /\ u[i] = t[i - Len(s)] /\ i > Len(s)
    <3>1. u[j].oid[k] \in B
      BY <1>7, <1>9, <2>2
    <3>2. j - Len(s) \in 1..Len(t) /\ u[j] = t[j - Len(s)]
      BY <1>6, <1>7, <3>1
    <3>3. i - Len(s) = j - Len(s)
      BY <1>7, <1>9, <2>2, <3>2
    <3> QED BY <1>4, <1>5, <3>3
  <2> QED BY <1>6, <2>1, <2>2
<1>10. Tables(u, n, k, A \cup B)
  BY <1>4, <1>8, <1>9 DEF Tables
<1> QED BY <1>10 DEF u

\* A table below mib-2.
LEMMA Mib2Table ==
  ASSUME NEW a \in Seq(Nat), NEW cols \in Seq(Nat), NEW suffix \in Seq(Nat),
         NEW n, NEW k \in 1..Len(a),
         \A i, j \in 1..Len(cols) : cols[i] = cols[j] => i = j,
         \A o : o[1] = 2 /\ (\A j \in 1..Len(a) : o[2 + j] = a[j]) => Group(o) = n
  PROVE  /\ Tables(Recs(mib2 \o a, cols, suffix), n, 2 + k, {a[k]})
         /\ Tables(Recs(mib2 \o a, cols, suffix), n, Len(a) + 3, {cols[i] : i \in 1..Len(cols)})
         /\ Len(Recs(mib2 \o a, cols, suffix)) = Len(cols)
<1> DEFINE prefix == mib2 \o a
<1>1. /\ prefix \in Seq(Nat) /\ Len(prefix) = Len(a) + 2 /\ prefix[1] = 2
      /\ \A j \in 1..Len(a) : prefix[2 + j] = a[j]
  BY Mib2
<1> HIDE DEF prefix
<1>2. prefix \in Seq(Nat)
  BY <1>1
<1>3. Len(a) \in Nat
  OBVIOUS
<1>4. 2 + k \in 1..Len(prefix)
  BY <1>1, <1>3
<1>5. ASSUME NEW o, \A j \in 1..Len(prefix) : o[j] = prefix[j] PROVE Group(o) = n
  <2>1. 1 \in 1..Len(prefix) /\ \A j \in 1..Len(a) : 2 + j \in 1..Len(prefix)
    BY <1>1, <1>3, SMTT(30)
  <2>2. o[1] = 2 /\ \A j \in 1..Len(a) : o[2 + j] = a[j]
    BY <1>1, <1>5, <2>1
  <2> QED BY <2>2
<1>6. /\ Tables(Recs(prefix, cols, suffix), n, 2 + k, {prefix[2 + k]})
      /\ Tables(Recs(prefix, cols, suffix), n, Len(prefix) + 1, {cols[i] : i \in 1..Len(cols)})
  BY <1>2, <1>4, <1>5, OneTable
<1>7. Len(Recs(prefix, cols, suffix)) = Len(cols)
  BY <1>2, RecsProperties
<1>8. prefix[2 + k] = a[k] /\ Len(prefix) + 1 = Len(a) + 3
  BY <1>1, <1>3
<1> QED BY <1>6, <1>7, <1>8 DEF prefix

\* A table below enterprises.
LEMMA EnterprisesTable ==
  ASSUME NEW a \in Seq(Nat), NEW cols \in Seq(Nat), NEW suffix \in Seq(Nat),
         NEW n, NEW k \in 1..Len(a),
         \A i, j \in 1..Len(cols) : cols[i] = cols[j] => i = j,
         \A o : o[1] = 4 /\ (\A j \in 1..Len(a) : o[2 + j] = a[j]) => Group(o) = n
  PROVE  /\ Tables(Recs(enterprises \o a, cols, suffix), n, 2 + k, {a[k]})
         /\ Tables(Recs(enterprises \o a, cols, suffix), n, Len(a) + 3, {cols[i] : i \in 1..Len(cols)})
         /\ Len(Recs(enterprises \o a, cols, suffix)) = Len(cols)
<1> DEFINE prefix == enterprises \o a
<1>1. /\ prefix \in Seq(Nat) /\ Len(prefix) = Len(a) + 2 /\ prefix[1] = 4
      /\ \A j \in 1..Len(a) : prefix[2 + j] = a[j]
  BY Enterprises
<1> HIDE DEF prefix
<1>2. prefix \in Seq(Nat)
  BY <1>1
<1>3. Len(a) \in Nat
  OBVIOUS
<1>4. 2 + k \in 1..Len(prefix)
  BY <1>1, <1>3
<1>5. ASSUME NEW o, \A j \in 1..Len(prefix) : o[j] = prefix[j] PROVE Group(o) = n
  <2>1. 1 \in 1..Len(prefix) /\ \A j \in 1..Len(a) : 2 + j \in 1..Len(prefix)
    BY <1>1, <1>3, SMTT(30)
  <2>2. o[1] = 4 /\ \A j \in 1..Len(a) : o[2 + j] = a[j]
    BY <1>1, <1>5, <2>1
  <2> QED BY <2>2
<1>6. /\ Tables(Recs(prefix, cols, suffix), n, 2 + k, {prefix[2 + k]})
      /\ Tables(Recs(prefix, cols, suffix), n, Len(prefix) + 1, {cols[i] : i \in 1..Len(cols)})
  BY <1>2, <1>4, <1>5, OneTable
<1>7. Len(Recs(prefix, cols, suffix)) = Len(cols)
  BY <1>2, RecsProperties
<1>8. prefix[2 + k] = a[k] /\ Len(prefix) + 1 = Len(a) + 3
  BY <1>1, <1>3
<1> QED BY <1>6, <1>7, <1>8 DEF prefix

\* The records that generate_records() starts with.
SystemRecords ==
  Recs(mib2 \o <<1>>, <<1, 2, 3, 4, 5, 6, 7>>, <<0>>) \o <<Rec(mib2 \o <<2, 1, 0>>)>>

\* The records that generate_records() starts with have OIDs of their own.
LEMMA SystemTables ==
  /\ SystemRecords \in Seq(Record) /\ Len(SystemRecords) = 8
  /\ \A i, j \in 1..Len(SystemRecords) : SystemRecords[i].oid = SystemRecords[j].oid => i = j
  /\ \A i \in 1..Len(SystemRecords) : Group(SystemRecords[i].oid) = 2
<1>1. Tables(Recs(mib2 \o <<1>>, <<1, 2, 3, 4, 5, 6, 7>>, <<0>>), 2, 3, {1})
  <2> DEFINE a == <<1>>
             cols == <<1, 2, 3, 4, 5, 6, 7>>
             suffix == <<0>>
  <2>1. a \in Seq(Nat)
    OBVIOUS
  <2>2. Len(a) = 1 /\ a[1] = 1
    OBVIOUS
  <2>3. cols \in Seq(Nat)
    OBVIOUS
  <2>4. Len(cols) = 7 /\ (\A i, j \in 1..Len(cols) : cols[i] = cols[j] => i = j)
    OBVIOUS
  <2>5. suffix \in Seq(Nat)
    OBVIOUS
  <2> HIDE DEF a, cols, suffix
  <2>7. ASSUME NEW o, o[1] = 2, \A j \in 1..Len(a) : o[2 + j] = a[j] PROVE Group(o) = 2
    BY <2>2, <2>7 DEF Group
  <2>8. 1 \in 1..Len(a)
    BY <2>2
  <2>9. Tables(Recs(mib2 \o a, cols, suffix), 2, 2 + 1, {a[1]})
    BY <2>1, <2>3, <2>4, <2>5, <2>7, <2>8, Mib2Table
  <2>10. 2 + 1 = 3
    OBVIOUS
  <2> QED BY <2>2, <2>9, <2>10 DEF a, cols, suffix
<1> DEFINE s == Recs(mib2 \o <<1>>, <<1, 2, 3, 4, 5, 6, 7>>, <<0>>)
           last == Rec(mib2 \o <<2, 1, 0>>)
           t == <<last>>
<1>2. Len(s) = 7
  <2> DEFINE a == <<1>>
             cols == <<1, 2, 3, 4, 5, 6, 7>>
             suffix == <<0>>
             prefix == mib2 \o a
  <2>1. a \in Seq(Nat)
    OBVIOUS
  <2>2. cols \in Seq(Nat)
    OBVIOUS
  <2>3. Len(cols) = 7
    OBVIOUS
  <2>4. suffix \in Seq(Nat)
    OBVIOUS
  <2>5. s = Recs(prefix, cols, suffix)
    OBVIOUS
  <2> HIDE DEF a, cols, suffix, s
  <2>6. prefix \in Seq(Nat)
    BY <2>1, Mib2
  <2> HIDE DEF prefix
  <2>7. Len(Recs(prefix, cols, suffix)) = Len(cols)
    BY <2>2, <2>4, <2>6, RecsProperties
  <2> QED BY <2>3, <2>5, <2>7
<1>4. Tables(s, 2, 3, {1})
  BY <1>1
<1>5. Tables(t, 2, 3, {2}) /\ Len(t) = 1
  <2> DEFINE o == mib2 \o <<2, 1, 0>>
  <2>1. o \in Seq(Nat) /\ o[1] = 2 /\ o[3] = 2 /\ o[4] = 1
    <3> DEFINE a == <<2, 1, 0>>
    <3>1. a \in Seq(Nat)
      OBVIOUS
    <3>2. Len(a) = 3 /\ a[1] = 2 /\ a[2] = 1
      OBVIOUS
    <3> HIDE DEF a
    <3>3. /\ mib2 \o a \in Seq(Nat) /\ (mib2 \o a)[1] = 2
          /\ \A i \in 1..Len(a) : (mib2 \o a)[2 + i] = a[i]
      BY <3>1, Mib2
    <3> HIDE DEF o
    <3>4. o = mib2 \o a
      BY DEF o, a
    <3>5. 1 \in 1..Len(a) /\ 2 \in 1..Len(a) /\ 2 + 1 = 3 /\ 2 + 2 = 4
      BY <3>2
    <3> QED BY <3>2, <3>3, <3>4, <3>5
  <2> HIDE DEF o
  <2>2. last \in Record /\ last.oid = o
    BY <2>1 DEF Rec, Record, o
  <2> HIDE DEF last
  <2>3. t \in Seq(Record) /\ Len(t) = 1 /\ t[1] = last
    BY <2>2
  <2> HIDE DEF t
  <2>4. Group(o) = 2
    BY <2>1 DEF Group
  <2> QED BY <2>1, <2>2, <2>3, <2>4 DEF Tables
<1> HIDE DEF s, t
<1>6. Tables(s \o t, 2, 3, {1} \cup {2})
  <2>1. {1} \cap {2} = {}
    OBVIOUS
  <2> QED BY <1>4, <1>5, <2>1, TwoTables
<1>7. Len(s \o t) = 8
  <2>1. s \in Seq(Record)
    BY <1>4 DEF Tables
  <2>2. t \in Seq(Record)
    BY <1>5 DEF Tables
  <2>3. Len(s \o t) = Len(s) + Len(t)
    BY <2>1, <2>2, ConcatPair
  <2> QED BY <1>2, <1>5, <2>3
<1>8. SystemRecords = s \o t
  BY DEF SystemRecords, s, t
<1> QED BY <1>6, <1>7, <1>8 DEF Tables

\* The sequences of two groups, one behind the other.
IpRecords ==
  Recs(mib2 \o <<4>>, <<1, 2, 3, 4, 5, 6, 7, 8, 9, 10, 11, 12, 17>>, <<0>>)
    \o Recs(mib2 \o <<4, 20, 1>>, <<1, 2, 3>>, <<Host>>)

TcpUdpRecords ==
  Recs(mib2 \o <<6>>, <<5, 6, 7, 8, 9, 10, 11, 12, 14, 15>>, <<0>>)
    \o Recs(mib2 \o <<7>>, <<1, 2, 3, 4, 5>>, <<0>>)

\* So do those of the IP group,
LEMMA IpTablesOK ==
  \E k, A : Tables(IpRecords, 4, k, A)
<1>1. Tables(Recs(mib2 \o <<4>>, <<1, 2, 3, 4, 5, 6, 7, 8, 9, 10, 11, 12, 17>>, <<0>>), 4, 4, {1, 2, 3, 4, 5, 6, 7, 8, 9, 10, 11, 12, 17})
  <2> DEFINE a == <<4>>
             cols == <<1, 2, 3, 4, 5, 6, 7, 8, 9, 10, 11, 12, 17>>
             suffix == <<0>>
  <2>1. a \in Seq(Nat)
    OBVIOUS
  <2>2. Len(a) = 1 /\ a[1] = 4
    OBVIOUS
  <2>3. cols \in Seq(Nat)
    OBVIOUS
  <2>4. Len(cols) = 13 /\ (\A i, j \in 1..Len(cols) : cols[i] = cols[j] => i = j)
    OBVIOUS
  <2>5. suffix \in Seq(Nat)
    OBVIOUS
  <2>6. {cols[i] : i \in 1..Len(cols)} = {1, 2, 3, 4, 5, 6, 7, 8, 9, 10, 11, 12, 17}
    OBVIOUS
  <2> HIDE DEF a, cols, suffix
  <2>7. ASSUME NEW o, o[1] = 2, \A j \in 1..Len(a) : o[2 + j] = a[j] PROVE Group(o) = 4
    BY <2>2, <2>7 DEF Group
  <2>8. 1 \in 1..Len(a)
    BY <2>2
  <2>9. Tables(Recs(mib2 \o a, cols, suffix), 4, Len(a) + 3, {cols[i] : i \in 1..Len(cols)})
    BY <2>1, <2>3, <2>4, <2>5, <2>7, <2>8, Mib2Table, ZenonT(60)
  <2>10. Len(a) + 3 = 4
    BY <2>2
  <2> QED BY <2>6, <2>9, <2>10 DEF a, cols, suffix
<1>2. Tables(Recs(mib2 \o <<4, 20, 1>>, <<1, 2, 3>>, <<Host>>), 4, 4, {20})
  <2> DEFINE a == <<4, 20, 1>>
             cols == <<1, 2, 3>>
             suffix == <<Host>>
  <2>1. a \in Seq(Nat)
    OBVIOUS
  <2>2. Len(a) = 3 /\ a[1] = 4 /\ a[2] = 20 /\ a[3] = 1
    OBVIOUS
  <2>3. cols \in Seq(Nat)
    OBVIOUS
  <2>4. Len(cols) = 3 /\ (\A i, j \in 1..Len(cols) : cols[i] = cols[j] => i = j)
    OBVIOUS
  <2>5. suffix \in Seq(Nat)
    BY HostAssumption
  <2> HIDE DEF a, cols, suffix
  <2>7. ASSUME NEW o, o[1] = 2, \A j \in 1..Len(a) : o[2 + j] = a[j] PROVE Group(o) = 4
    BY <2>2, <2>7 DEF Group
  <2>8. 2 \in 1..Len(a)
    BY <2>2
  <2>9. Tables(Recs(mib2 \o a, cols, suffix), 4, 2 + 2, {a[2]})
    BY <2>1, <2>3, <2>4, <2>5, <2>7, <2>8, Mib2Table
  <2>10. 2 + 2 = 4
    OBVIOUS
  <2> QED BY <2>2, <2>9, <2>10 DEF a, cols, suffix
<1> DEFINE A == {1, 2, 3, 4, 5, 6, 7, 8, 9, 10, 11, 12, 17}
           B == {20}
           s == Recs(mib2 \o <<4>>, <<1, 2, 3, 4, 5, 6, 7, 8, 9, 10, 11, 12, 17>>, <<0>>)
           t == Recs(mib2 \o <<4, 20, 1>>, <<1, 2, 3>>, <<Host>>)
<1>3. A \cap B = {}
  OBVIOUS
<1>4. IpRecords = s \o t
  BY DEF IpRecords
<1> HIDE DEF A, B, s, t
<1>5. Tables(s, 4, 4, A) /\ Tables(t, 4, 4, B)
  BY <1>1, <1>2 DEF A, B, s, t
<1>6. Tables(s \o t, 4, 4, A \cup B)
  BY <1>3, <1>5, TwoTables
<1> QED BY <1>4, <1>6

\* those of TCP and UDP,
LEMMA TcpUdpTablesOK ==
  \E k, A : Tables(TcpUdpRecords, 5, k, A)
<1>1. Tables(Recs(mib2 \o <<6>>, <<5, 6, 7, 8, 9, 10, 11, 12, 14, 15>>, <<0>>), 5, 3, {6})
  <2> DEFINE a == <<6>>
             cols == <<5, 6, 7, 8, 9, 10, 11, 12, 14, 15>>
             suffix == <<0>>
  <2>1. a \in Seq(Nat)
    OBVIOUS
  <2>2. Len(a) = 1 /\ a[1] = 6
    OBVIOUS
  <2>3. cols \in Seq(Nat)
    OBVIOUS
  <2>4. Len(cols) = 10 /\ (\A i, j \in 1..Len(cols) : cols[i] = cols[j] => i = j)
    OBVIOUS
  <2>5. suffix \in Seq(Nat)
    OBVIOUS
  <2> HIDE DEF a, cols, suffix
  <2>7. ASSUME NEW o, o[1] = 2, \A j \in 1..Len(a) : o[2 + j] = a[j] PROVE Group(o) = 5
    BY <2>2, <2>7 DEF Group
  <2>8. 1 \in 1..Len(a)
    BY <2>2
  <2>9. Tables(Recs(mib2 \o a, cols, suffix), 5, 2 + 1, {a[1]})
    BY <2>1, <2>3, <2>4, <2>5, <2>7, <2>8, Mib2Table
  <2>10. 2 + 1 = 3
    OBVIOUS
  <2> QED BY <2>2, <2>9, <2>10 DEF a, cols, suffix
<1>2. Tables(Recs(mib2 \o <<7>>, <<1, 2, 3, 4, 5>>, <<0>>), 5, 3, {7})
  <2> DEFINE a == <<7>>
             cols == <<1, 2, 3, 4, 5>>
             suffix == <<0>>
  <2>1. a \in Seq(Nat)
    OBVIOUS
  <2>2. Len(a) = 1 /\ a[1] = 7
    OBVIOUS
  <2>3. cols \in Seq(Nat)
    OBVIOUS
  <2>4. Len(cols) = 5 /\ (\A i, j \in 1..Len(cols) : cols[i] = cols[j] => i = j)
    OBVIOUS
  <2>5. suffix \in Seq(Nat)
    OBVIOUS
  <2> HIDE DEF a, cols, suffix
  <2>7. ASSUME NEW o, o[1] = 2, \A j \in 1..Len(a) : o[2 + j] = a[j] PROVE Group(o) = 5
    BY <2>2, <2>7 DEF Group
  <2>8. 1 \in 1..Len(a)
    BY <2>2
  <2>9. Tables(Recs(mib2 \o a, cols, suffix), 5, 2 + 1, {a[1]})
    BY <2>1, <2>3, <2>4, <2>5, <2>7, <2>8, Mib2Table
  <2>10. 2 + 1 = 3
    OBVIOUS
  <2> QED BY <2>2, <2>9, <2>10 DEF a, cols, suffix
<1> DEFINE A == {6}
           B == {7}
           s == Recs(mib2 \o <<6>>, <<5, 6, 7, 8, 9, 10, 11, 12, 14, 15>>, <<0>>)
           t == Recs(mib2 \o <<7>>, <<1, 2, 3, 4, 5>>, <<0>>)
<1>3. A \cap B = {}
  OBVIOUS
<1>4. TcpUdpRecords = s \o t
  BY DEF TcpUdpRecords
<1> HIDE DEF A, B, s, t
<1>5. Tables(s, 5, 3, A) /\ Tables(t, 5, 3, B)
  BY <1>1, <1>2 DEF A, B, s, t
<1>6. Tables(s \o t, 5, 3, A \cup B)
  BY <1>3, <1>5, TwoTables
<1> QED BY <1>4, <1>6

\* those of the processor table,
LEMMA CpuTables ==
  Tables(Pack("cisco_cpu"), 6, 5, {109})
<1>1. Tables(Recs(enterprises \o <<9, 9, 109, 1, 1, 1, 1>>, <<2, 3, 4, 5, 6, 7, 8>>, <<1>>), 6, 5, {109})
  <2> DEFINE a == <<9, 9, 109, 1, 1, 1, 1>>
             cols == <<2, 3, 4, 5, 6, 7, 8>>
             suffix == <<1>>
  <2>1. a \in Seq(Nat)
    OBVIOUS
  <2>2. Len(a) = 7 /\ a[1] = 9 /\ a[2] = 9 /\ a[3] = 109 /\ a[4] = 1 /\ a[5] = 1 /\ a[6] = 1 /\ a[7] = 1
    OBVIOUS
  <2>3. cols \in Seq(Nat)
    OBVIOUS
  <2>4. Len(cols) = 7 /\ (\A i, j \in 1..Len(cols) : cols[i] = cols[j] => i = j)
    OBVIOUS
  <2>5. suffix \in Seq(Nat)
    OBVIOUS
  <2> HIDE DEF a, cols, suffix
  <2>7. ASSUME NEW o, o[1] = 4, \A j \in 1..Len(a) : o[2 + j] = a[j] PROVE Group(o) = 6
    BY <2>2, <2>7 DEF Group
  <2>8. 3 \in 1..Len(a)
    BY <2>2
  <2>9. Tables(Recs(enterprises \o a, cols, suffix), 6, 2 + 3, {a[3]})
    BY <2>1, <2>3, <2>4, <2>5, <2>7, <2>8, EnterprisesTable
  <2>10. 2 + 3 = 5
    OBVIOUS
  <2> QED BY <2>2, <2>9, <2>10 DEF a, cols, suffix
<1> QED BY <1>1 DEF Pack

\* those of the chassis,
LEMMA ChassisTables ==
  Tables(Pack("cisco_chassis"), 8, 4, {3})
<1>1. Tables(Recs(enterprises \o <<9, 3, 6>>, <<3, 1, 6>>, <<0>>), 8, 4, {3})
  <2> DEFINE a == <<9, 3, 6>>
             cols == <<3, 1, 6>>
             suffix == <<0>>
  <2>1. a \in Seq(Nat)
    OBVIOUS
  <2>2. Len(a) = 3 /\ a[1] = 9 /\ a[2] = 3 /\ a[3] = 6
    OBVIOUS
  <2>3. cols \in Seq(Nat)
    OBVIOUS
  <2>4. Len(cols) = 3 /\ (\A i, j \in 1..Len(cols) : cols[i] = cols[j] => i = j)
    OBVIOUS
  <2>5. suffix \in Seq(Nat)
    OBVIOUS
  <2> HIDE DEF a, cols, suffix
  <2>7. ASSUME NEW o, o[1] = 4, \A j \in 1..Len(a) : o[2 + j] = a[j] PROVE Group(o) = 8
    BY <2>2, <2>7 DEF Group
  <2>8. 2 \in 1..Len(a)
    BY <2>2
  <2>9. Tables(Recs(enterprises \o a, cols, suffix), 8, 2 + 2, {a[2]})
    BY <2>1, <2>3, <2>4, <2>5, <2>7, <2>8, EnterprisesTable
  <2>10. 2 + 2 = 4
    OBVIOUS
  <2> QED BY <2>2, <2>9, <2>10 DEF a, cols, suffix
<1> QED BY <1>1 DEF Pack

\* those of the host resources,
LEMMA HostTables ==
  Tables(Pack("host_resources"), 9, 3, {25})
<1>1. Tables(Recs(mib2 \o <<25, 1>>, <<1, 2, 3, 4, 5, 6, 7>>, <<0>>), 9, 3, {25})
  <2> DEFINE a == <<25, 1>>
             cols == <<1, 2, 3, 4, 5, 6, 7>>
             suffix == <<0>>
  <2>1. a \in Seq(Nat)
    OBVIOUS
  <2>2. Len(a) = 2 /\ a[1] = 25 /\ a[2] = 1
    OBVIOUS
  <2>3. cols \in Seq(Nat)
    OBVIOUS
  <2>4. Len(cols) = 7 /\ (\A i, j \in 1..Len(cols) : cols[i] = cols[j] => i = j)
    OBVIOUS
  <2>5. suffix \in Seq(Nat)
    OBVIOUS
  <2> HIDE DEF a, cols, suffix
  <2>7. ASSUME NEW o, o[1] = 2, \A j \in 1..Len(a) : o[2 + j] = a[j] PROVE Group(o) = 9
    BY <2>2, <2>7 DEF Group
  <2>8. 1 \in 1..Len(a)
    BY <2>2
  <2>9. Tables(Recs(mib2 \o a, cols, suffix), 9, 2 + 1, {a[1]})
    BY <2>1, <2>3, <2>4, <2>5, <2>7, <2>8, Mib2Table
  <2>10. 2 + 1 = 3
    OBVIOUS
  <2> QED BY <2>2, <2>9, <2>10 DEF a, cols, suffix
<1> QED BY <1>1 DEF Pack

\* and those of the Linux load and memory tables.
LEMMA UcdTables ==
  Tables(Pack("ucd_snmp"), 10, 4, {4} \cup {11})
<1>1. Tables(Recs(enterprises \o <<2021, 4>>, <<5, 6>>, <<0>>), 10, 4, {4})
  <2> DEFINE a == <<2021, 4>>
             cols == <<5, 6>>
             suffix == <<0>>
  <2>1. a \in Seq(Nat)
    OBVIOUS
  <2>2. Len(a) = 2 /\ a[1] = 2021 /\ a[2] = 4
    OBVIOUS
  <2>3. cols \in Seq(Nat)
    OBVIOUS
  <2>4. Len(cols) = 2 /\ (\A i, j \in 1..Len(cols) : cols[i] = cols[j] => i = j)
    OBVIOUS
  <2>5. suffix \in Seq(Nat)
    OBVIOUS
  <2> HIDE DEF a, cols, suffix
  <2>7. ASSUME NEW o, o[1] = 4, \A j \in 1..Len(a) : o[2 + j] = a[j] PROVE Group(o) = 10
    BY <2>2, <2>7 DEF Group
  <2>8. 2 \in 1..Len(a)
    BY <2>2
  <2>9. Tables(Recs(enterprises \o a, cols, suffix), 10, 2 + 2, {a[2]})
    BY <2>1, <2>3, <2>4, <2>5, <2>7, <2>8, EnterprisesTable
  <2>10. 2 + 2 = 4
    OBVIOUS
  <2> QED BY <2>2, <2>9, <2>10 DEF a, cols, suffix
<1>2. Tables(Recs(enterprises \o <<2021, 11>>, <<9, 10, 11, 50, 52, 53>>, <<0>>), 10, 4, {11})
  <2> DEFINE a == <<2021, 11>>
             cols == <<9, 10, 11, 50, 52, 53>>
             suffix == <<0>>
  <2>1. a \in Seq(Nat)
    OBVIOUS
  <2>2. Len(a) = 2 /\ a[1] = 2021 /\ a[2] = 11
    OBVIOUS
  <2>3. cols \in Seq(Nat)
    OBVIOUS
  <2>4. Len(cols) = 6 /\ (\A i, j \in 1..Len(cols) : cols[i] = cols[j] => i = j)
    OBVIOUS
  <2>5. suffix \in Seq(Nat)
    OBVIOUS
  <2> HIDE DEF a, cols, suffix
  <2>7. ASSUME NEW o, o[1] = 4, \A j \in 1..Len(a) : o[2 + j] = a[j] PROVE Group(o) = 10
    BY <2>2, <2>7 DEF Group
  <2>8. 2 \in 1..Len(a)
    BY <2>2
  <2>9. Tables(Recs(enterprises \o a, cols, suffix), 10, 2 + 2, {a[2]})
    BY <2>1, <2>3, <2>4, <2>5, <2>7, <2>8, EnterprisesTable
  <2>10. 2 + 2 = 4
    OBVIOUS
  <2> QED BY <2>2, <2>9, <2>10 DEF a, cols, suffix
<1> DEFINE A == {4}
           B == {11}
           s == Recs(enterprises \o <<2021, 4>>, <<5, 6>>, <<0>>)
           t == Recs(enterprises \o <<2021, 11>>, <<9, 10, 11, 50, 52, 53>>, <<0>>)
<1>3. A \cap B = {}
  OBVIOUS
<1>4. Pack("ucd_snmp") = s \o t
  BY DEF Pack
<1> HIDE DEF A, B, s, t
<1>5. Tables(s, 10, 4, A) /\ Tables(t, 10, 4, B)
  BY <1>1, <1>2 DEF A, B, s, t
<1>6. Tables(s \o t, 10, 4, A \cup B)
  BY <1>3, <1>5, TwoTables
<1> QED BY <1>4, <1>6 DEF A, B

\* A table of the memory pool.
PoolTable(m) == Recs((enterprises \o <<9, 9, 48, 1, 1, 1>>) \o <<m>>, <<1, 2>>, <<>>)

\* The records of a memory pool have OIDs of their own,
LEMMA PoolTables ==
  ASSUME NEW m \in Nat
  PROVE  Tables(PoolTable(m), 7, 9, {m})
<1> DEFINE a == <<9, 9, 48, 1, 1, 1>>
           one == <<m>>
           cols == <<1, 2>>
           suffix == <<>>
           pool == enterprises \o a
           prefix == pool \o one
<1>1. a \in Seq(Nat)
  OBVIOUS
<1>2. Len(a) = 6 /\ a[1] = 9 /\ a[2] = 9 /\ a[3] = 48
  OBVIOUS
<1>3. one \in Seq(Nat)
  OBVIOUS
<1>4. Len(one) = 1 /\ one[1] = m
  OBVIOUS
<1>5. cols \in Seq(Nat)
  OBVIOUS
<1>6. Len(cols) = 2 /\ (\A i, j \in 1..Len(cols) : cols[i] = cols[j] => i = j)
  OBVIOUS
<1>7. suffix \in Seq(Nat)
  OBVIOUS
<1>8. PoolTable(m) = Recs(prefix, cols, suffix)
  BY DEF PoolTable
<1> HIDE DEF a, one, cols, suffix
<1>9. /\ pool \in Seq(Nat) /\ Len(pool) = Len(a) + 2 /\ pool[1] = 4
      /\ \A i \in 1..Len(a) : pool[2 + i] = a[i]
  BY <1>1, Enterprises
<1> HIDE DEF pool
<1>10. pool \in Seq(Nat)
  BY <1>9
<1>11. Len(pool) = 8 /\ pool[1] = 4 /\ pool[3] = 9 /\ pool[4] = 9 /\ pool[5] = 48
  <2>1. 1 \in 1..Len(a) /\ 2 \in 1..Len(a) /\ 3 \in 1..Len(a)
    BY <1>2
  <2>2. pool[2 + 1] = a[1] /\ pool[2 + 2] = a[2] /\ pool[2 + 3] = a[3]
    BY <1>9, <2>1
  <2> QED BY <1>2, <1>9, <2>2
<1>12. /\ pool \o one \in Seq(Nat) /\ Len(pool \o one) = Len(pool) + Len(one)
       /\ \A i \in 1..Len(pool) : (pool \o one)[i] = pool[i]
       /\ \A i \in 1..Len(one) : (pool \o one)[Len(pool) + i] = one[i]
  BY <1>3, <1>10, ConcatPair
<1> HIDE DEF prefix
<1>13. prefix = pool \o one
  BY DEF prefix
<1>14. prefix \in Seq(Nat)
  BY <1>12, <1>13
<1>15. /\ Len(prefix) = 9 /\ prefix[9] = m /\ prefix[1] = 4
       /\ prefix[3] = 9 /\ prefix[4] = 9 /\ prefix[5] = 48
  <2>1. Len(prefix) = 9
    BY <1>4, <1>11, <1>12, <1>13
  <2>2. prefix[9] = m
    <3>1. 1 \in 1..Len(one) /\ Len(pool) + 1 = 9
      BY <1>4, <1>11
    <3> QED BY <1>4, <1>12, <1>13, <3>1
  <2>3. \A i \in 1..8 : prefix[i] = pool[i]
    BY <1>11, <1>12, <1>13
  <2> QED BY <1>11, <2>1, <2>2, <2>3
<1>16. ASSUME NEW o, \A j \in 1..Len(prefix) : o[j] = prefix[j] PROVE Group(o) = 7
  BY <1>15, <1>16 DEF Group
<1>17. 9 \in 1..Len(prefix)
  BY <1>15
<1>18. Tables(Recs(prefix, cols, suffix), 7, 9, {prefix[9]})
  BY <1>5, <1>6, <1>7, <1>14, <1>16, <1>17, OneTable
<1> QED BY <1>8, <1>15, <1>18

\* and so have both pools.
LEMMA MemoryTables ==
  \E A : Tables(Pack("cisco_memory"), 7, 9, A)
<1> DEFINE t2 == PoolTable(2)
           t3 == PoolTable(3)
           t5 == PoolTable(5)
           t6 == PoolTable(6)
<1>1. Pack("cisco_memory") = ((t2 \o t3) \o t5) \o t6
  BY DEF Pack, PoolTable
<1>2. Tables(t2, 7, 9, {2}) /\ Tables(t3, 7, 9, {3}) /\ Tables(t5, 7, 9, {5}) /\ Tables(t6, 7, 9, {6})
  BY PoolTables
<1> HIDE DEF t2, t3, t5, t6
<1>3. Tables(t2 \o t3, 7, 9, {2} \cup {3})
  <2>1. {2} \cap {3} = {}
    OBVIOUS
  <2> QED BY <1>2, <2>1, TwoTables
<1>4. Tables((t2 \o t3) \o t5, 7, 9, ({2} \cup {3}) \cup {5})
  <2>1. ({2} \cup {3}) \cap {5} = {}
    OBVIOUS
  <2> QED BY <1>2, <1>3, <2>1, TwoTables
<1>5. Tables(((t2 \o t3) \o t5) \o t6, 7, 9, (({2} \cup {3}) \cup {5}) \cup {6})
  <2>1. (({2} \cup {3}) \cup {5}) \cap {6} = {}
    OBVIOUS
  <2> QED BY <1>2, <1>4, <2>1, TwoTables
<1> QED BY <1>1, <1>5

\* Records of group n, each OID once.
GroupOK(s, n) ==
  /\ s \in Seq(Record)
  /\ \A i, j \in 1..Len(s) : s[i].oid = s[j].oid => i = j
  /\ \A i \in 1..Len(s) : Group(s[i].oid) = n

\* What extra_mibs can name.
Mibs == {"cisco_cpu", "cisco_memory", "cisco_chassis", "host_resources", "ucd_snmp"}

\* The records of an extra MIB are of its group, each OID once.
LEMMA PackGroups ==
  ASSUME NEW mib \in Mibs
  PROVE  GroupOK(Pack(mib), No[mib])
<1>1. \E k, A : Tables(Pack(mib), No[mib], k, A)
  BY CpuTables, MemoryTables, ChassisTables, HostTables, UcdTables DEF Mibs, No
<1> QED BY <1>1 DEF Tables, GroupOK

\* The OID of a column of ifTable.
LEMMA IfOid ==
  ASSUME NEW c \in Nat, NEW k \in Nat
  PROVE  LET o == ifEntry \o <<c, k>>
         IN  o \in Seq(Nat) /\ Len(o) = 7 /\ o[1] = 2 /\ o[3] = 2 /\ o[4] = 2 /\ o[6] = c /\ o[7] = k
<1> DEFINE a == <<2, 2, 1>>
           b == <<c, k>>
           o == ifEntry \o b
<1>1. a \in Seq(Nat)
  OBVIOUS
<1>2. Len(a) = 3 /\ a[1] = 2 /\ a[2] = 2
  OBVIOUS
<1>3. b \in Seq(Nat)
  OBVIOUS
<1>4. Len(b) = 2 /\ b[1] = c /\ b[2] = k
  OBVIOUS
<1>5. ifEntry = mib2 \o a
  BY DEF ifEntry
<1> HIDE DEF a, b
<1>6. /\ mib2 \o a \in Seq(Nat) /\ Len(mib2 \o a) = Len(a) + 2 /\ (mib2 \o a)[1] = 2
      /\ \A i \in 1..Len(a) : (mib2 \o a)[2 + i] = a[i]
  BY <1>1, Mib2
<1>7. ifEntry \in Seq(Nat)
  BY <1>5, <1>6
<1>8. Len(ifEntry) = 5 /\ ifEntry[1] = 2 /\ ifEntry[3] = 2 /\ ifEntry[4] = 2
  <2>1. 1 \in 1..Len(a) /\ 2 \in 1..Len(a)
    BY <1>2
  <2>2. ifEntry[2 + 1] = a[1] /\ ifEntry[2 + 2] = a[2]
    BY <1>5, <1>6, <2>1
  <2> QED BY <1>2, <1>5, <1>6, <2>2, SMTT(30)
<1>9. /\ ifEntry \o b \in Seq(Nat) /\ Len(ifEntry \o b) = Len(ifEntry) + Len(b)
      /\ \A i \in 1..Len(ifEntry) : (ifEntry \o b)[i] = ifEntry[i]
      /\ \A i \in 1..Len(b) : (ifEntry \o b)[Len(ifEntry) + i] = b[i]
  BY <1>3, <1>7, ConcatPair
<1> HIDE DEF o
<1>10. o = ifEntry \o b
  BY DEF o
<1>11. o \in Seq(Nat)
  BY <1>9, <1>10
<1>12. Len(o) = 7
  BY <1>4, <1>8, <1>9, <1>10
<1>13. o[1] = 2 /\ o[3] = 2 /\ o[4] = 2
  <2>1. 1 \in 1..Len(ifEntry) /\ 3 \in 1..Len(ifEntry) /\ 4 \in 1..Len(ifEntry)
    BY <1>8
  <2> QED BY <1>8, <1>9, <1>10, <2>1
<1>14. o[6] = c /\ o[7] = k
  <2>1. 1 \in 1..Len(b) /\ 2 \in 1..Len(b) /\ Len(ifEntry) + 1 = 6 /\ Len(ifEntry) + 2 = 7
    BY <1>4, <1>8
  <2>2. o[Len(ifEntry) + 1] = b[1] /\ o[Len(ifEntry) + 2] = b[2]
    BY <1>9, <1>10, <2>1
  <2> QED BY <1>4, <2>1, <2>2
<1> QED BY <1>11, <1>12, <1>13, <1>14 DEF o, b

\* The OID of a column of ifXTable.
LEMMA IfXOid ==
  ASSUME NEW c \in Nat, NEW k \in Nat
  PROVE  LET o == ifXEntry \o <<c, k>>
         IN  o \in Seq(Nat) /\ Len(o) = 8 /\ o[1] = 2 /\ o[3] = 31 /\ o[7] = c /\ o[8] = k
<1> DEFINE a == <<31, 1, 1, 1>>
           b == <<c, k>>
           o == ifXEntry \o b
<1>1. a \in Seq(Nat)
  OBVIOUS
<1>2. Len(a) = 4 /\ a[1] = 31
  OBVIOUS
<1>3. b \in Seq(Nat)
  OBVIOUS
<1>4. Len(b) = 2 /\ b[1] = c /\ b[2] = k
  OBVIOUS
<1>5. ifXEntry = mib2 \o a
  BY DEF ifXEntry
<1> HIDE DEF a, b
<1>6. /\ mib2 \o a \in Seq(Nat) /\ Len(mib2 \o a) = Len(a) + 2 /\ (mib2 \o a)[1] = 2
      /\ \A i \in 1..Len(a) : (mib2 \o a)[2 + i] = a[i]
  BY <1>1, Mib2
<1>7. ifXEntry \in Seq(Nat)
  BY <1>5, <1>6
<1>8. Len(ifXEntry) = 6 /\ ifXEntry[1] = 2 /\ ifXEntry[3] = 31
  <2>1. 1 \in 1..Len(a)
    BY <1>2
  <2>2. ifXEntry[2 + 1] = a[1]
    BY <1>5, <1>6, <2>1
  <2>3. Len(ifXEntry) = Len(a) + 2 /\ ifXEntry[1] = 2
    BY <1>5, <1>6
  <2> HIDE DEF ifXEntry
  <2> QED BY <1>2, <2>2, <2>3
<1>9. /\ ifXEntry \o b \in Seq(Nat) /\ Len(ifXEntry \o b) = Len(ifXEntry) + Len(b)
      /\ \A i \in 1..Len(ifXEntry) : (ifXEntry \o b)[i] = ifXEntry[i]
      /\ \A i \in 1..Len(b) : (ifXEntry \o b)[Len(ifXEntry) + i] = b[i]
  BY <1>3, <1>7, ConcatPair
<1> HIDE DEF o
<1>10. o = ifXEntry \o b
  BY DEF o
<1>11. o \in Seq(Nat)
  BY <1>9, <1>10
<1>12. Len(o) = 8
  BY <1>4, <1>8, <1>9, <1>10
<1>13. o[1] = 2 /\ o[3] = 31
  <2>1. 1 \in 1..Len(ifXEntry) /\ 3 \in 1..Len(ifXEntry)
    BY <1>8
  <2> QED BY <1>8, <1>9, <1>10, <2>1
<1>14. o[7] = c /\ o[8] = k
  <2>1. 1 \in 1..Len(b) /\ 2 \in 1..Len(b) /\ Len(ifXEntry) + 1 = 7 /\ Len(ifXEntry) + 2 = 8
    BY <1>4, <1>8
  <2>2. o[Len(ifXEntry) + 1] = b[1] /\ o[Len(ifXEntry) + 2] = b[2]
    BY <1>9, <1>10, <2>1
  <2> QED BY <1>4, <2>1, <2>2
<1> QED BY <1>11, <1>12, <1>13, <1>14 DEF o, b

\* Columns are told apart by table, column and index.
LEMMA ColumnOids ==
  ASSUME NEW c \in Nat, NEW k \in Nat, NEW d \in Nat, NEW m \in Nat
  PROVE  /\ ifEntry \o <<c, k>> # ifXEntry \o <<d, m>>
         /\ ifEntry \o <<c, k>> = ifEntry \o <<d, m>> => c = d /\ k = m
         /\ ifXEntry \o <<c, k>> = ifXEntry \o <<d, m>> => c = d /\ k = m
         /\ Group(ifEntry \o <<c, k>>) = 3
         /\ Group(ifXEntry \o <<c, k>>) = 3
<1> DEFINE o == ifEntry \o <<c, k>>
           p == ifEntry \o <<d, m>>
           ox == ifXEntry \o <<c, k>>
           px == ifXEntry \o <<d, m>>
<1>1. o[1] = 2 /\ o[3] = 2 /\ o[4] = 2 /\ o[6] = c /\ o[7] = k
  BY IfOid
<1>2. p[6] = d /\ p[7] = m
  BY IfOid
<1>3. ox[1] = 2 /\ ox[3] = 31 /\ ox[7] = c /\ ox[8] = k
  BY IfXOid
<1>4. px[3] = 31 /\ px[7] = d /\ px[8] = m
  BY IfXOid
<1> HIDE DEF o, p, ox, px
<1>5. Group(o) = 3 /\ Group(ox) = 3
  BY <1>1, <1>3 DEF Group
<1>6. o # px
  BY <1>1, <1>4
<1>7. (o = p => c = d /\ k = m) /\ (ox = px => c = d /\ k = m)
  BY <1>1, <1>2, <1>3, <1>4
<1> QED BY <1>5, <1>6, <1>7 DEF o, p, ox, px

\* A column of an interface is a record, and what its OID is.
LEMMA Columns ==
  ASSUME NEW f \in Interface, NEW c \in Nat
  PROVE  /\ IfColumn(f, c) \in Record /\ IfColumn(f, c).oid = ifEntry \o <<c, f.index>>
         /\ IfXColumn(f, c) \in Record /\ IfXColumn(f, c).oid = ifXEntry \o <<c, f.index>>
<1> DEFINE o == ifEntry \o <<c, f.index>>
           ox == ifXEntry \o <<c, f.index>>
<1>1. f.index \in Nat
  BY DEF Interface
<1>2. o \in Seq(Nat) /\ ox \in Seq(Nat)
  BY <1>1, IfOid, IfXOid
<1>3. IfColumn(f, c).oid = o /\ IfXColumn(f, c).oid = ox
  BY DEF IfColumn, IfXColumn, Counter
<1> HIDE DEF o, ox
<1>4. IfColumn(f, c) \in Record
  BY <1>2 DEF IfColumn, Counter, Record, o
<1>5. IfXColumn(f, c) \in Record
  BY <1>2 DEF IfXColumn, Counter, Record, ox
<1> QED BY <1>3, <1>4, <1>5 DEF o, ox

-----------------------------------------------------------------------------
(* The stages, and the interfaces.                                         *)

\* A stage is followed by the next one.
LEMMA AfterStage ==
  ASSUME NEW i \in 1..11
  PROVE  After(Stage[i]) = Stage[i + 1]
<1>1. Len(Stage) - 1 = 11
  BY DEF Stage
<1>2. \A j \in 1..11 : Stage[j] = Stage[i] => j = i
  BY DEF Stage
<1> DEFINE n == CHOOSE j \in 1..11 : Stage[j] = Stage[i]
<1>3. n = i
  BY <1>2
<1>4. After(Stage[i]) = Stage[1 + n]
  BY <1>1 DEF After
<1> HIDE DEF n
<1> QED BY <1>3, <1>4

\* The order in which generate_records() calls the emitters.
LEMMA StageOrder ==
  /\ After("interfaces") = "system"       /\ After("system") = "if_tables"
  /\ After("if_tables") = "ip_tables"     /\ After("ip_tables") = "tcp_udp"
  /\ After("tcp_udp") = "cisco_cpu"       /\ After("cisco_cpu") = "cisco_memory"
  /\ After("cisco_memory") = "cisco_chassis" /\ After("cisco_chassis") = "host_resources"
  /\ After("host_resources") = "ucd_snmp" /\ After("ucd_snmp") = "sort"
  /\ After("sort") = "done"
<1>1. /\ Stage[1] = "interfaces" /\ Stage[2] = "system" /\ Stage[3] = "if_tables"
      /\ Stage[4] = "ip_tables" /\ Stage[5] = "tcp_udp" /\ Stage[6] = "cisco_cpu"
      /\ Stage[7] = "cisco_memory" /\ Stage[8] = "cisco_chassis" /\ Stage[9] = "host_resources"
      /\ Stage[10] = "ucd_snmp" /\ Stage[11] = "sort" /\ Stage[12] = "done"
  BY DEF Stage
<1>2. /\ After(Stage[1]) = Stage[1 + 1] /\ After(Stage[2]) = Stage[2 + 1]
      /\ After(Stage[3]) = Stage[3 + 1] /\ After(Stage[4]) = Stage[4 + 1]
      /\ After(Stage[5]) = Stage[5 + 1] /\ After(Stage[6]) = Stage[6 + 1]
      /\ After(Stage[7]) = Stage[7 + 1] /\ After(Stage[8]) = Stage[8 + 1]
      /\ After(Stage[9]) = Stage[9 + 1] /\ After(Stage[10]) = Stage[10 + 1]
      /\ After(Stage[11]) = Stage[11 + 1]
  <2>1. \A i \in 1..11 : After(Stage[i]) = Stage[i + 1]
    BY AfterStage
  <2> QED BY <2>1
<1> QED BY <1>1, <1>2

\* Which names a device has.
LEMMA NameFacts ==
  ASSUME NEW t \in DeviceType, NEW i \in Nat \ {0}, NEW j \in Nat \ {0}
  PROVE  /\ NameAt(t, i) \in Name
         /\ NameAt(t, i) = NameAt(t, j) => i = j
         /\ IsLoopback(NameAt(t, i)) <=> (i = 1 /\ t \in {"router", "generic"})
         /\ IsMgmt(NameAt(t, i)) => i = 1
<1>1. ASSUME NEW n \in Nat \ {0}
      PROVE  NameAt(t, n) \in Name
  BY <1>1 DEF NameAt, Name, FirstName, PortPrefix, DeviceType
<1>2. NameAt(t, i) = NameAt(t, j) => i = j
  <2>1. CASE i = 1 /\ j # 1
    BY <2>1 DEF NameAt, FirstName, PortPrefix, DeviceType
  <2>2. CASE j = 1 /\ i # 1
    BY <2>2 DEF NameAt, FirstName, PortPrefix, DeviceType
  <2>3. CASE i # 1 /\ j # 1
    BY <2>3 DEF NameAt
  <2> QED BY <2>1, <2>2, <2>3
<1>3. IsLoopback(NameAt(t, i)) <=> (i = 1 /\ t \in {"router", "generic"})
  BY DEF NameAt, FirstName, PortPrefix, DeviceType, IsLoopback
<1>4. IsMgmt(NameAt(t, i)) => i = 1
  BY DEF NameAt, FirstName, PortPrefix, DeviceType, IsMgmt
<1> QED BY <1>1, <1>2, <1>3, <1>4

\* What sorting leaves as it was.
LEMMA SortedProperties ==
  ASSUME NEW s \in Seq(Record)
  PROVE  /\ Sorted(s) \in Seq(Record) /\ Len(Sorted(s)) = Len(s) /\ Ascending(Sorted(s))
         /\ \A i \in 1..Len(s) : \E j \in 1..Len(s) : Sorted(s)[i] = s[j]
         /\ \A j \in 1..Len(s) : \E i \in 1..Len(s) : Sorted(s)[i] = s[j]
         /\ \A i, j \in 1..Len(s) : i # j =>
              \E k, m \in 1..Len(s) : k # m /\ Sorted(s)[i] = s[k] /\ Sorted(s)[j] = s[m]
<1> DEFINE t == Sorted(s)
           n == Len(s)
<1>1. Ascending(t) /\ Rearranges(t, s)
  BY SortedWorks
<1> HIDE DEF t, n
<1>2. t \in Seq(Record) /\ Len(t) = n
  BY <1>1 DEF Rearranges, n
<1>3. PICK p : Bijective(p, n) /\ \A i \in 1..n : t[i] = s[p[i]]
  BY <1>1 DEF Rearranges, n
<1>4. /\ \A i \in 1..n : p[i] \in 1..n
      /\ \A i, j \in 1..n : p[i] = p[j] => i = j
      /\ \A k \in 1..n : \E i \in 1..n : p[i] = k
  BY <1>3 DEF Bijective
<1>5. \A i \in 1..n : \E j \in 1..n : t[i] = s[j]
  BY <1>3, <1>4
<1>6. \A j \in 1..n : \E i \in 1..n : t[i] = s[j]
  BY <1>3, <1>4, SMTT(30)
<1>7. ASSUME NEW i \in 1..n, NEW j \in 1..n, i # j
      PROVE  \E k, m \in 1..n : k # m /\ t[i] = s[k] /\ t[j] = s[m]
  <2>1. p[i] \in 1..n /\ p[j] \in 1..n /\ p[i] # p[j]
    BY <1>4, <1>7
  <2> QED BY <1>3, <2>1
<1> QED BY <1>1, <1>2, <1>5, <1>6, <1>7 DEF t, n

-----------------------------------------------------------------------------
(* GETNEXT: what the order does for the columns of a table.                *)

\* What an OID is.
LEMMA OidFacts ==
  ASSUME NEW o \in Seq(Nat)
  PROVE  Len(o) \in Nat /\ DOMAIN o = 1..Len(o) /\ \A i \in DOMAIN o : o[i] \in Nat
OBVIOUS

\* o has the first n arcs of a, and a and b differ in their last arc at most.
Begins(o, a, n) == \A i \in 1..n : i \in 1..Len(o) /\ o[i] = a[i]
Siblings(a, b, n) == Len(a) = n + 1 /\ Len(b) = n + 1 /\ \A i \in 1..n : a[i] = b[i]

\* What lies between two OIDs that differ in their last arc only begins as they do.
LEMMA Between ==
  ASSUME NEW a \in Seq(Nat), NEW b \in Seq(Nat), NEW o \in Seq(Nat), NEW n \in Nat,
         Siblings(a, b, n), Before(a, o), Before(o, b)
  PROVE  Begins(o, a, n)
<1>0. Len(a) = n + 1 /\ Len(b) = n + 1 /\ \A i \in 1..n : a[i] = b[i]
  BY DEF Siblings
<1>1. /\ Len(o) \in Nat /\ DOMAIN o = 1..Len(o) /\ \A i \in DOMAIN o : o[i] \in Nat
      /\ DOMAIN a = 1..(n + 1) /\ \A i \in DOMAIN a : a[i] \in Nat
      /\ DOMAIN b = 1..(n + 1) /\ \A i \in DOMAIN b : b[i] \in Nat
  <2>1. Len(o) \in Nat /\ DOMAIN o = 1..Len(o) /\ \A i \in DOMAIN o : o[i] \in Nat
    BY OidFacts
  <2>2. DOMAIN a = 1..Len(a) /\ \A i \in DOMAIN a : a[i] \in Nat
    BY OidFacts
  <2>3. DOMAIN b = 1..Len(b) /\ \A i \in DOMAIN b : b[i] \in Nat
    BY OidFacts
  <2> QED BY <1>0, <2>1, <2>2, <2>3
<1>2. PICK i \in DOMAIN o : /\ i \in DOMAIN a => a[i] < o[i]
                            /\ \A j \in 1..(i - 1) : j \in DOMAIN a /\ a[j] = o[j]
  BY DEF Before
<1>3. PICK k \in DOMAIN b : /\ k \in DOMAIN o => o[k] < b[k]
                            /\ \A j \in 1..(k - 1) : j \in DOMAIN o /\ o[j] = b[j]
  BY DEF Before
<1>4. i \in 1..Len(o) /\ Len(o) \in Nat /\ k \in 1..(n + 1)
  BY <1>1
<1>5. i \in Nat /\ k \in Nat
  BY <1>4
<1>6. i > n
  <2> SUFFICES ASSUME i <= n PROVE FALSE
    BY <1>5
  <2>1. i \in 1..n /\ i \in 1..(n + 1)
    BY <1>4, <1>5
  <2>2. o[i] \in Nat /\ b[i] \in Nat
    BY <1>1, <2>1
  <2>3. a[i] < o[i] /\ a[i] = b[i]
    BY <1>0, <1>1, <1>2, <2>1
  <2>4. CASE k < i
    <3>1. k \in 1..(i - 1) /\ k \in 1..n /\ k \in 1..Len(o)
      BY <1>4, <1>5, <2>1, <2>4
    <3>2. k \in DOMAIN o /\ o[k] \in Nat
      BY <1>1, <3>1
    <3>3. a[k] = o[k]
      BY <1>2, <3>1
    <3>4. a[k] = b[k]
      BY <1>0, <3>1
    <3>5. o[k] < b[k]
      BY <1>3, <3>2
    <3> QED BY <3>2, <3>3, <3>4, <3>5
  <2>5. CASE k = i
    <3>1. o[i] < b[i]
      BY <1>3, <2>5
    <3> QED BY <2>2, <2>3, <3>1
  <2>6. CASE i < k
    <3>1. i \in 1..(k - 1)
      BY <1>5, <2>1, <2>6
    <3>2. o[i] = b[i]
      BY <1>3, <3>1
    <3> QED BY <2>2, <2>3, <3>2
  <2> QED BY <1>5, <2>4, <2>5, <2>6
<1>7. ASSUME NEW j \in 1..n PROVE j \in 1..Len(o) /\ o[j] = a[j]
  <2>1. j \in 1..(i - 1)
    BY <1>5, <1>6
  <2>2. j \in 1..Len(o)
    BY <1>4, <1>5, <1>6
  <2> QED BY <1>2, <2>1, <2>2
<1> QED BY <1>7 DEF Begins

\* The OIDs of a column, of length n + 1: they end in the index of the interface.
IsColumn(O, m, n) ==
  /\ \A i \in 1..m : O[i] \in Seq(Nat) /\ Len(O[i]) = n + 1 /\ O[i][n + 1] = i
  /\ \A i, j \in 1..m : \A h \in 1..n : O[i][h] = O[j][h]

\* s has each of them once, and no other OID that begins as they do.
HasColumn(s, O, m, n) ==
  /\ \A i \in 1..m : \E j \in 1..Len(s) : s[j].oid = O[i]
  /\ \A j, k \in 1..Len(s) : \A i \in 1..m : s[j].oid = O[i] /\ s[k].oid = O[i] => j = k
  /\ \A j \in 1..Len(s) :
       Begins(s[j].oid, O[1], n) => \E i \in 1..m : s[j].oid = O[i]

\* The lines that s has of them are one behind the other.
Together(s, O, m) == \E first \in 0..(Len(s) - m) : \A i \in 1..m : s[first + i].oid = O[i]

\* The OIDs of a column are ordered by their index.
LEMMA ColumnOrder ==
  ASSUME NEW O, NEW m \in Nat, NEW n \in Nat, IsColumn(O, m, n),
         NEW i \in 1..m, NEW j \in 1..m, i < j
  PROVE  Before(O[i], O[j]) /\ ~Before(O[j], O[i]) /\ O[i] # O[j]
<1>1. /\ O[i] \in Seq(Nat) /\ Len(O[i]) = n + 1 /\ O[i][n + 1] = i
      /\ O[j] \in Seq(Nat) /\ Len(O[j]) = n + 1 /\ O[j][n + 1] = j
      /\ \A h \in 1..n : O[i][h] = O[j][h]
  BY DEF IsColumn
<1> DEFINE a == O[i]
           b == O[j]
<1>2. /\ a \in Seq(Nat) /\ Len(a) = n + 1 /\ a[n + 1] = i
      /\ b \in Seq(Nat) /\ Len(b) = n + 1 /\ b[n + 1] = j
      /\ \A h \in 1..n : a[h] = b[h]
  BY <1>1
<1> HIDE DEF a, b
<1>3. DOMAIN a = 1..(n + 1) /\ DOMAIN b = 1..(n + 1) /\ n + 1 \in DOMAIN b
  BY <1>2
<1>4. \A h \in 1..((n + 1) - 1) : h \in DOMAIN a /\ a[h] = b[h]
  BY <1>2, <1>3
<1>5. Before(a, b)
  BY <1>2, <1>3, <1>4 DEF Before
<1>6. ~Before(b, a)
  BY <1>2, <1>5, BeforeAsymmetric
<1>7. a # b
  BY <1>2
<1> QED BY <1>5, <1>6, <1>7 DEF a, b

\* In an ascending list the line of an interface is followed by that of the next one.
LEMMA NextLine ==
  ASSUME NEW s \in Seq(Record), Ascending(s), NEW O, NEW m \in Nat, NEW n \in Nat,
         IsColumn(O, m, n), HasColumn(s, O, m, n),
         NEW i \in 1..m, i + 1 \in 1..m,
         NEW x \in 1..Len(s), s[x].oid = O[i]
  PROVE  x + 1 \in 1..Len(s) /\ s[x + 1].oid = O[i + 1]
<1>1. PICK y \in 1..Len(s) : s[y].oid = O[i + 1]
  BY DEF HasColumn
<1>2. Before(O[i], O[i + 1]) /\ ~Before(O[i + 1], O[i]) /\ O[i] # O[i + 1]
  <2>1. i < i + 1
    OBVIOUS
  <2> QED BY <2>1, ColumnOrder
<1>3. Len(s) \in Nat /\ x \in Nat /\ y \in Nat
  OBVIOUS
<1>4. x < y
  <2>1. x # y
    BY <1>1, <1>2
  <2>2. ~(y < x)
    BY <1>1, <1>2 DEF Ascending
  <2> QED BY <1>3, <2>1, <2>2
<1>5. \A k \in 1..m : O[k] \in Seq(Nat) /\ Len(O[k]) = n + 1
  BY DEF IsColumn
<1>6. ASSUME NEW z \in 1..Len(s), x < z, z < y PROVE FALSE
  <2> DEFINE o == s[z].oid
  <2>1. o \in Seq(Nat)
    <3>1. s[z] \in Record
      OBVIOUS
    <3> QED BY <3>1 DEF Record
  <2>2. ~Before(o, O[i]) /\ ~Before(O[i + 1], o)
    BY <1>1, <1>6 DEF Ascending
  <2>3. o # O[i] /\ o # O[i + 1]
    <3>1. x # z /\ y # z
      BY <1>3, <1>6
    <3> QED BY <1>1, <3>1 DEF HasColumn
  <2> HIDE DEF o
  <2>4. Before(O[i], o) /\ Before(o, O[i + 1])
    BY <1>5, <2>1, <2>2, <2>3, BeforeTotal
  <2>5. Begins(o, O[i], n)
    <3>1. O[i] \in Seq(Nat) /\ O[i + 1] \in Seq(Nat)
      BY <1>5
    <3>2. Siblings(O[i], O[i + 1], n)
      BY <1>5 DEF IsColumn, Siblings
    <3> QED BY <2>1, <2>4, <3>1, <3>2, Between
  <2>6. PICK k \in 1..m : o = O[k]
    <3>1. 1 \in 1..m
      OBVIOUS
    <3>2. \A h \in 1..n : O[i][h] = O[1][h]
      BY <3>1 DEF IsColumn
    <3>3. Begins(o, O[1], n)
      BY <2>5, <3>2 DEF Begins
    <3> QED BY <3>3 DEF HasColumn, o
  <2>7. k < i \/ i + 1 < k
    <3>1. k # i /\ k # i + 1 /\ k \in Nat /\ i \in Nat
      BY <2>3, <2>6
    <3> QED BY <3>1
  <2>8. CASE k < i
    <3>1. Before(O[k], O[i])
      BY <2>8, ColumnOrder
    <3> QED BY <2>2, <2>6, <3>1
  <2>9. CASE i + 1 < k
    <3>1. Before(O[i + 1], O[k])
      BY <2>9, ColumnOrder
    <3> QED BY <2>2, <2>6, <3>1
  <2> QED BY <2>7, <2>8, <2>9
<1>7. y = x + 1
  <2> SUFFICES ASSUME y # x + 1 PROVE FALSE
    OBVIOUS
  <2>1. x + 1 \in 1..Len(s) /\ x < x + 1 /\ x + 1 < y
    BY <1>3, <1>4
  <2> QED BY <1>6, <2>1
<1> QED BY <1>1, <1>7

\* So the lines of a column are one behind the other.
LEMMA Walk ==
  ASSUME NEW s \in Seq(Record), Ascending(s), NEW O, NEW m \in Nat \ {0}, NEW n \in Nat,
         IsColumn(O, m, n), HasColumn(s, O, m, n)
  PROVE  Together(s, O, m)
<1>1. PICK x \in 1..Len(s) : s[x].oid = O[1]
  BY DEF HasColumn
<1>2. Len(s) \in Nat /\ x \in Nat /\ m \in Nat
  OBVIOUS
<1> DEFINE S == {i \in Nat : x + i \in 1..Len(s) /\ s[x + i].oid = O[i + 1]}
<1>3. 0 \in S
  BY <1>1, <1>2
<1>4. ASSUME NEW i \in 1..(m - 1), i - 1 \in S PROVE i \in S
  <2>1. x + (i - 1) \in 1..Len(s) /\ s[x + (i - 1)].oid = O[i]
    BY <1>4
  <2>2. i \in 1..m /\ i + 1 \in 1..m /\ x + (i - 1) + 1 = x + i
    BY <1>2
  <2>3. x + (i - 1) + 1 \in 1..Len(s) /\ s[x + (i - 1) + 1].oid = O[i + 1]
    BY <1>2, <2>1, <2>2, NextLine
  <2> QED BY <2>2, <2>3
<1>5. 0..(m - 1) \subseteq S
  <2>1. m - 1 \in Nat
    BY <1>2
  <2> HIDE DEF S
  <2> QED BY <1>3, <1>4, <2>1, Upwards
<1>6. \A i \in 1..m : i - 1 \in S
  <2>1. \A i \in 1..m : i - 1 \in 0..(m - 1)
    BY <1>2
  <2> HIDE DEF S
  <2> QED BY <1>5, <2>1
<1>7. x + (m - 1) \in 1..Len(s)
  <2>1. m \in 1..m
    BY <1>2
  <2>2. m - 1 \in S
    <3> HIDE DEF S
    <3> QED BY <1>6, <2>1
  <2> QED BY <2>2
<1>8. x - 1 \in 0..(Len(s) - m)
  BY <1>2, <1>7
<1>9. ASSUME NEW i \in 1..m PROVE s[(x - 1) + i].oid = O[i]
  <2>1. i - 1 \in S
    <3> HIDE DEF S
    <3> QED BY <1>6
  <2>2. s[x + (i - 1)].oid = O[(i - 1) + 1]
    BY <2>1
  <2>3. x + (i - 1) = (x - 1) + i /\ (i - 1) + 1 = i
    BY <1>2
  <2> QED BY <2>2, <2>3
<1> QED BY <1>8, <1>9 DEF Together

-----------------------------------------------------------------------------
(* What the records are, wherever they stand.                              *)

\* The records of an interface that are served for certain, and all that may be.
Must(k) == {IfColumn(interfaces[k], c) : c \in 1..22}
             \cup {IfXColumn(interfaces[k], c) : c \in (1..19) \ {18}}
May(k)  == {IfColumn(interfaces[k], c) : c \in 1..22}
             \cup {IfXColumn(interfaces[k], c) : c \in 1..19}

\* The one OID of an interface that is served twice.
Connector(k, oid) == interfaces[k].type = 6 /\ oid = ifXEntry \o <<17, k>>

\* The interface tables have their first rows, and no OID is there twice but for that.
Content(ls, rows) ==
  /\ ls \in Seq(Record)
  /\ \A i \in 1..Len(ls) : Group(ls[i].oid) = 3 => \E k \in 1..rows : ls[i] \in May(k)
  /\ \A k \in 1..rows : \A r \in Must(k) : \E i \in 1..Len(ls) : ls[i] = r
  /\ \A i, j \in 1..Len(ls) :
       i # j /\ ls[i].oid = ls[j].oid => \E k \in 1..rows : Connector(k, ls[i].oid)

\* No record is of a group behind the n-th.
Upto(ls, n) == \A i \in 1..Len(ls) : Group(ls[i].oid) <= n

\* A group is added behind those that come before it.
LEMMA EmitContent ==
  ASSUME NEW ls, NEW s, NEW rows \in Nat, NEW n \in Nat, NEW m \in Nat,
         Content(ls, rows), Upto(ls, m), m < n, GroupOK(s, n), n # 3
  PROVE  Content(ls \o s, rows) /\ Upto(ls \o s, n)
<1>1. ls \in Seq(Record)
  BY DEF Content
<1>2. s \in Seq(Record)
  BY DEF GroupOK
<1>3. /\ ls \o s \in Seq(Record) /\ Len(ls \o s) = Len(ls) + Len(s)
      /\ \A i \in 1..Len(ls) : (ls \o s)[i] = ls[i]
      /\ \A i \in 1..Len(s) : (ls \o s)[Len(ls) + i] = s[i]
  BY <1>1, <1>2, ConcatPair
<1> DEFINE u == ls \o s
<1> HIDE DEF u
<1>4. u \in Seq(Record)
  BY <1>3 DEF u
<1>5. /\ Len(u) = Len(ls) + Len(s)
      /\ \A i \in 1..Len(ls) : u[i] = ls[i]
      /\ \A i \in 1..Len(s) : u[Len(ls) + i] = s[i]
  BY <1>3 DEF u
<1>6. Len(ls) \in Nat /\ Len(s) \in Nat
  BY <1>1, <1>2
<1>7. ASSUME NEW i \in 1..Len(u)
      PROVE  \/ i \in 1..Len(ls) /\ u[i] = ls[i] /\ Group(u[i].oid) <= m
             \/ i - Len(ls) \in 1..Len(s) /\ u[i] = s[i - Len(ls)] /\ Group(u[i].oid) = n
  <2>1. CASE i <= Len(ls)
    <3>1. i \in 1..Len(ls)
      BY <1>6, <2>1
    <3> QED BY <1>5, <3>1 DEF Upto
  <2>2. CASE i > Len(ls)
    <3>1. i - Len(ls) \in 1..Len(s) /\ Len(ls) + (i - Len(ls)) = i
      BY <1>5, <1>6, <2>2
    <3>2. u[i] = s[i - Len(ls)]
      BY <1>5, <3>1
    <3> QED BY <3>1, <3>2 DEF GroupOK
  <2> QED BY <1>6, <2>1, <2>2
<1>8. Upto(u, n)
  <2> SUFFICES ASSUME NEW i \in 1..Len(u) PROVE Group(u[i].oid) <= n
    BY DEF Upto
  <2>1. CASE i \in 1..Len(ls) /\ u[i] = ls[i] /\ Group(u[i].oid) <= m
    <3>1. Group(u[i].oid) \in Nat
      BY DEF Group
    <3> QED BY <2>1, <3>1
  <2>2. CASE Group(u[i].oid) = n
    BY <2>2
  <2> QED BY <1>7, <2>1, <2>2
<1>9. ASSUME NEW i \in 1..Len(u), Group(u[i].oid) = 3 PROVE \E k \in 1..rows : u[i] \in May(k)
  BY <1>7, <1>9 DEF Content
<1>10. ASSUME NEW k \in 1..rows, NEW r \in Must(k) PROVE \E i \in 1..Len(u) : u[i] = r
  <2>1. PICK i \in 1..Len(ls) : ls[i] = r
    BY DEF Content
  <2>2. i \in 1..Len(u)
    BY <1>5, <1>6
  <2> QED BY <1>5, <2>1, <2>2
<1>11. ASSUME NEW i \in 1..Len(u), NEW j \in 1..Len(u), i # j, u[i].oid = u[j].oid
       PROVE  \E k \in 1..rows : Connector(k, u[i].oid)
  <2>1. ~(Group(u[i].oid) <= m /\ Group(u[i].oid) = n)
    OBVIOUS
  <2>2. CASE Group(u[i].oid) <= m
    <3>1. i \in 1..Len(ls) /\ u[i] = ls[i] /\ j \in 1..Len(ls) /\ u[j] = ls[j]
      BY <1>7, <1>11, <2>1, <2>2
    <3> QED BY <1>11, <3>1 DEF Content
  <2>3. CASE Group(u[i].oid) = n
    <3>1. /\ i - Len(ls) \in 1..Len(s) /\ u[i] = s[i - Len(ls)]
          /\ j - Len(ls) \in 1..Len(s) /\ u[j] = s[j - Len(ls)]
      BY <1>7, <1>11, <2>1, <2>3
    <3>2. i - Len(ls) = j - Len(ls)
      BY <1>11, <3>1 DEF GroupOK
    <3> QED BY <1>5, <1>6, <1>11, <3>2
  <2> QED BY <1>7, <2>2, <2>3
<1>12. Content(u, rows)
  BY <1>4, <1>9, <1>10, <1>11 DEF Content
<1> QED BY <1>8, <1>12 DEF u

\* Sorting changes only the order.
LEMMA SortContent ==
  ASSUME NEW ls, NEW rows \in Nat, NEW n \in Nat, Content(ls, rows), Upto(ls, n)
  PROVE  Content(Sorted(ls), rows) /\ Upto(Sorted(ls), n)
<1> DEFINE u == Sorted(ls)
<1>1. ls \in Seq(Record)
  BY DEF Content
<1>2. /\ u \in Seq(Record) /\ Len(u) = Len(ls)
      /\ \A i \in 1..Len(ls) : \E j \in 1..Len(ls) : u[i] = ls[j]
      /\ \A j \in 1..Len(ls) : \E i \in 1..Len(ls) : u[i] = ls[j]
      /\ \A i, j \in 1..Len(ls) : i # j =>
           \E k, m \in 1..Len(ls) : k # m /\ u[i] = ls[k] /\ u[j] = ls[m]
  BY <1>1, SortedProperties
<1> HIDE DEF u
<1>3. Upto(u, n)
  BY <1>2 DEF Upto
<1>4. ASSUME NEW i \in 1..Len(u), Group(u[i].oid) = 3 PROVE \E k \in 1..rows : u[i] \in May(k)
  <2>1. PICK j \in 1..Len(ls) : u[i] = ls[j]
    BY <1>2
  <2> QED BY <1>4, <2>1 DEF Content
<1>5. ASSUME NEW k \in 1..rows, NEW r \in Must(k) PROVE \E i \in 1..Len(u) : u[i] = r
  <2>1. PICK j \in 1..Len(ls) : ls[j] = r
    BY DEF Content
  <2> QED BY <1>2, <2>1
<1>6. ASSUME NEW i \in 1..Len(u), NEW j \in 1..Len(u), i # j, u[i].oid = u[j].oid
      PROVE  \E k \in 1..rows : Connector(k, u[i].oid)
  <2>1. PICK k \in 1..Len(ls), m \in 1..Len(ls) : k # m /\ u[i] = ls[k] /\ u[j] = ls[m]
    <3>1. i \in 1..Len(ls) /\ j \in 1..Len(ls)
      BY <1>2
    <3> QED BY <1>2, <1>6, <3>1
  <2> QED BY <1>6, <2>1 DEF Content
<1>7. u \in Seq(Record)
  BY <1>2
<1>8. Content(u, rows)
  BY <1>4, <1>5, <1>6, <1>7 DEF Content
<1> QED BY <1>3, <1>8 DEF u

\* Where the columns of a row are, and what stands in the place of ifAlias.
LEMMA RowRecords ==
  ASSUME NEW ls \in Seq(Record), NEW f \in Interface
  PROVE  LET new == CorrectConnector(ls \o [c \in 1..22 |-> IfColumn(f, c)]
                                        \o [c \in 1..19 |-> IfXColumn(f, c)], f)
         IN  /\ new \in Seq(Record) /\ Len(new) = Len(ls) + 41
             /\ \A i \in 1..Len(ls) : new[i] = ls[i]
             /\ \A c \in 1..22 : new[Len(ls) + c] = IfColumn(f, c)
             /\ \A c \in (1..19) \ {18} : new[Len(ls) + 22 + c] = IfXColumn(f, c)
             /\ \/ new[Len(ls) + 40] = IfXColumn(f, 18)
                \/ new[Len(ls) + 40] = IfXColumn(f, 17) /\ f.type = 6
<1> DEFINE s == [c \in 1..22 |-> IfColumn(f, c)]
           t == [c \in 1..19 |-> IfXColumn(f, c)]
           u == ls \o s
           v == u \o t
           new == CorrectConnector(v, f)
           n == Len(ls)
<1>1. (\A c \in 1..22 : IfColumn(f, c) \in Record) /\ (\A c \in 1..19 : IfXColumn(f, c) \in Record)
  <2>1. \A c \in Nat : IfColumn(f, c) \in Record /\ IfXColumn(f, c) \in Record
    BY Columns
  <2> QED BY <2>1
<1>2. s \in Seq(Record)
  BY <1>1
<1>3. Len(s) = 22 /\ \A c \in 1..22 : s[c] = IfColumn(f, c)
  OBVIOUS
<1>4. t \in Seq(Record)
  BY <1>1
<1>5. Len(t) = 19 /\ \A c \in 1..19 : t[c] = IfXColumn(f, c)
  OBVIOUS
<1>6. n \in Nat
  OBVIOUS
<1> HIDE DEF s, t
<1>7. /\ ls \o s \in Seq(Record) /\ Len(ls \o s) = Len(ls) + Len(s)
      /\ \A i \in 1..Len(ls) : (ls \o s)[i] = ls[i]
      /\ \A i \in 1..Len(s) : (ls \o s)[Len(ls) + i] = s[i]
  BY <1>2, ConcatPair
<1> HIDE DEF u
<1>8. u \in Seq(Record)
  BY <1>7 DEF u
<1>9. /\ Len(u) = n + 22 /\ \A i \in 1..n : u[i] = ls[i]
      /\ \A i \in 1..22 : u[n + i] = s[i]
  BY <1>3, <1>7 DEF u
<1>10. /\ u \o t \in Seq(Record) /\ Len(u \o t) = Len(u) + Len(t)
       /\ \A i \in 1..Len(u) : (u \o t)[i] = u[i]
       /\ \A i \in 1..Len(t) : (u \o t)[Len(u) + i] = t[i]
  BY <1>4, <1>8, ConcatPair
<1> HIDE DEF v, n
<1>11. v \in Seq(Record)
  BY <1>10 DEF v
<1>12. /\ Len(v) = (n + 22) + 19 /\ \A i \in 1..(n + 22) : v[i] = u[i]
       /\ \A i \in 1..19 : v[(n + 22) + i] = t[i]
  BY <1>5, <1>9, <1>10 DEF v
<1>13. Len(v) = n + 41
  BY <1>6, <1>12
<1>14. \A i \in 1..n : v[i] = ls[i]
  <2>1. \A i \in 1..n : i \in 1..(n + 22)
    BY <1>6
  <2> QED BY <1>9, <1>12, <2>1
<1>15. \A c \in 1..22 : v[n + c] = IfColumn(f, c)
  <2>1. \A c \in 1..22 : n + c \in 1..(n + 22)
    BY <1>6
  <2> QED BY <1>3, <1>9, <1>12, <2>1, ZenonT(60)
<1>16. \A c \in 1..19 : v[n + 22 + c] = IfXColumn(f, c)
  BY <1>5, <1>12
<1>17. n + 22 + 18 = n + 40 /\ Len(v) - 1 = n + 40 /\ n + 40 \in 1..Len(v)
  BY <1>6, <1>13
<1>18. /\ \A i \in 1..n : i # n + 40
       /\ \A c \in 1..22 : n + c # n + 40 /\ n + c \in 1..Len(v)
       /\ \A c \in (1..19) \ {18} : n + 22 + c # n + 40 /\ n + 22 + c \in 1..Len(v)
  BY <1>6, <1>13
<1>19. CASE f.type # 6
  <2>1. new = v
    BY <1>19 DEF CorrectConnector
  <2>2. new[n + 40] = IfXColumn(f, 18)
    BY <1>16, <1>17, <2>1
  <2> QED BY <1>11, <1>13, <1>14, <1>15, <1>16, <2>1, <2>2 DEF v, u, s, t, n
<1>20. CASE f.type = 6
  <2>1. new = [v EXCEPT ![n + 40] = Rec(ifXEntry \o <<17, f.index>>)]
    BY <1>17, <1>20 DEF CorrectConnector, ReplaceAt
  <2>2. IfXColumn(f, 17) = Rec(ifXEntry \o <<17, f.index>>)
    BY DEF IfXColumn, Counter, Rec
  <2>3. IfXColumn(f, 17) \in Record
    BY <1>1
  <2> DEFINE w == IfXColumn(f, 17)
  <2> HIDE DEF w, new
  <2>4. w \in Record
    BY <2>3 DEF w
  <2>5. new = [v EXCEPT ![n + 40] = w]
    BY <2>1, <2>2 DEF w
  <2>6. new \in Seq(Record)
    BY <1>11, <1>17, <2>4, <2>5
  <2>7. Len(new) = n + 41
    BY <1>11, <1>13, <2>5
  <2>8. new[n + 40] = w /\ \A i \in 1..Len(v) : i # n + 40 => new[i] = v[i]
    BY <1>11, <1>17, <2>5
  <2>9. \A i \in 1..n : i \in 1..Len(v)
    BY <1>6, <1>13
  <2>10. /\ \A i \in 1..n : new[i] = ls[i]
         /\ \A c \in 1..22 : new[n + c] = IfColumn(f, c)
         /\ \A c \in (1..19) \ {18} : new[n + 22 + c] = IfXColumn(f, c)
    BY <1>14, <1>15, <1>16, <1>18, <2>8, <2>9
  <2> QED BY <1>20, <2>6, <2>7, <2>8, <2>10 DEF v, u, s, t, n, new, w
<1> QED BY <1>19, <1>20

\* ifEntry and ifXEntry share no OID,
LEMMA TablesApart ==
  ASSUME NEW c \in Nat, NEW k \in Nat, NEW d \in Nat, NEW m \in Nat
  PROVE  ifEntry \o <<c, k>> # ifXEntry \o <<d, m>>
BY ColumnOids

\* and an OID of ifEntry tells the column and the interface,
LEMMA IfColumnsApart ==
  ASSUME NEW c \in Nat, NEW k \in Nat, NEW d \in Nat, NEW m \in Nat,
         ifEntry \o <<c, k>> = ifEntry \o <<d, m>>
  PROVE  c = d /\ k = m
<1> DEFINE o == ifEntry \o <<c, k>>
           p == ifEntry \o <<d, m>>
<1>1. o[6] = c /\ o[7] = k
  BY IfOid
<1>2. p[6] = d /\ p[7] = m
  BY IfOid
<1>3. o = p
  OBVIOUS
<1> HIDE DEF o, p
<1> QED BY <1>1, <1>2, <1>3

\* as does one of ifXEntry.
LEMMA IfXColumnsApart ==
  ASSUME NEW c \in Nat, NEW k \in Nat, NEW d \in Nat, NEW m \in Nat,
         ifXEntry \o <<c, k>> = ifXEntry \o <<d, m>>
  PROVE  c = d /\ k = m
<1> DEFINE o == ifXEntry \o <<c, k>>
           p == ifXEntry \o <<d, m>>
<1>1. o[7] = c /\ o[8] = k
  BY IfXOid
<1>2. p[7] = d /\ p[8] = m
  BY IfXOid
<1>3. o = p
  OBVIOUS
<1> HIDE DEF o, p
<1> QED BY <1>1, <1>2, <1>3

\* Both are of the third group.
LEMMA ColumnGroup ==
  ASSUME NEW c \in Nat, NEW k \in Nat
  PROVE  Group(ifEntry \o <<c, k>>) = 3 /\ Group(ifXEntry \o <<c, k>>) = 3
BY ColumnOids

\* A row is added for the next interface.
LEMMA RowContent ==
  ASSUME NEW ls, NEW rows \in Nat, Content(ls, rows), Upto(ls, 3),
         interfaces \in Seq(Interface), rows + 1 \in 1..Len(interfaces),
         \A k \in 1..Len(interfaces) : interfaces[k].index = k
  PROVE  LET f   == interfaces[rows + 1]
             new == CorrectConnector(ls \o [c \in 1..22 |-> IfColumn(f, c)]
                                        \o [c \in 1..19 |-> IfXColumn(f, c)], f)
         IN  Content(new, rows + 1) /\ Upto(new, 3) /\ Len(new) = Len(ls) + 41
<1> DEFINE f   == interfaces[rows + 1]
           new == CorrectConnector(ls \o [c \in 1..22 |-> IfColumn(f, c)]
                                      \o [c \in 1..19 |-> IfXColumn(f, c)], f)
           n   == Len(ls)
           k   == rows + 1
<1>1. ls \in Seq(Record)
  BY DEF Content
<1>2. f \in Interface
  BY ElementOfSeq
<1>3. f.index = k /\ k \in Nat /\ f = interfaces[k]
  OBVIOUS
<1>4. n \in Nat
  BY <1>1
<1>16. k \in Nat
  OBVIOUS
<1>5. /\ new \in Seq(Record) /\ Len(new) = n + 41
      /\ \A i \in 1..n : new[i] = ls[i]
      /\ \A c \in 1..22 : new[n + c] = IfColumn(f, c)
      /\ \A c \in (1..19) \ {18} : new[n + 22 + c] = IfXColumn(f, c)
      /\ \/ new[n + 40] = IfXColumn(f, 18)
         \/ new[n + 40] = IfXColumn(f, 17) /\ f.type = 6
  <2> HIDE DEF f
  <2> QED BY <1>1, <1>2, RowRecords
<1> HIDE DEF f, new, n, k
<1>17. Len(new) = n + 41
  BY <1>5
<1>18. \A c \in 1..22 : n + c \in 1..Len(new)
  BY <1>4, <1>17
<1>19. \A c \in (1..19) \ {18} : n + 22 + c \in 1..Len(new)
  BY <1>4, <1>17
<1>6. \A c \in Nat : /\ IfColumn(f, c).oid = ifEntry \o <<c, k>>
                     /\ IfXColumn(f, c).oid = ifXEntry \o <<c, k>>
  BY <1>2, <1>3, Columns
\* A position is of an earlier record, or of a column.
<1>7. ASSUME NEW i \in 1..Len(new)
      PROVE  \/ i \in 1..n
             \/ \E c \in 1..22 : i = n + c
             \/ \E c \in (1..19) \ {18} : i = n + 22 + c
             \/ i = n + 40
  <2>1. i \in Nat /\ i <= n + 41 /\ i >= 1
    BY <1>4, <1>5
  <2>2. CASE i <= n
    BY <2>1, <2>2
  <2>3. CASE i > n /\ i <= n + 22
    <3>1. i - n \in 1..22 /\ i = n + (i - n)
      BY <1>4, <2>1, <2>3
    <3> QED BY <3>1
  <2>4. CASE i > n + 22 /\ i # n + 40
    <3>1. i - n - 22 \in (1..19) \ {18} /\ i = n + 22 + (i - n - 22)
      BY <1>4, <2>1, <2>4
    <3> QED BY <3>1
  <2> QED BY <1>4, <2>1, <2>2, <2>3, <2>4
\* Which record of the interface stands behind the earlier ones.
<1> DEFINE Column(i, c)  == c \in 1..22 /\ i = n + c /\ new[i] = IfColumn(f, c)
           XColumn(i, c) == c \in 1..19 /\ i = n + 22 + c /\ new[i] = IfXColumn(f, c)
           Twice(i)      == i = n + 40 /\ new[i] = IfXColumn(f, 17) /\ f.type = 6
<1>8. ASSUME NEW i \in 1..Len(new), i \notin 1..n
      PROVE  (\E c : Column(i, c)) \/ (\E c : XColumn(i, c)) \/ Twice(i)
  <2>1. CASE i = n + 40
    <3>1. i = n + 22 + 18 /\ 18 \in 1..19
      BY <1>4, <2>1
    <3> QED BY <1>5, <2>1, <3>1
  <2>2. CASE \E c \in 1..22 : i = n + c
    <3>1. PICK c \in 1..22 : i = n + c
      BY <2>2
    <3>2. new[i] = IfColumn(f, c)
      BY <1>5, <3>1
    <3> QED BY <3>1, <3>2
  <2>3. CASE \E c \in (1..19) \ {18} : i = n + 22 + c
    <3>1. PICK c \in (1..19) \ {18} : i = n + 22 + c
      BY <2>3
    <3>2. new[i] = IfXColumn(f, c)
      BY <1>5, <3>1
    <3> QED BY <3>1, <3>2
  <2> HIDE DEF Column, XColumn, Twice
  <2> QED BY <1>7, <1>8, <2>1, <2>2, <2>3
<1>9. ASSUME NEW i, NEW c
      PROVE  /\ Column(i, c) => c \in Nat /\ new[i].oid = ifEntry \o <<c, k>>
             /\ XColumn(i, c) => c \in Nat /\ new[i].oid = ifXEntry \o <<c, k>>
             /\ Twice(i) => new[i].oid = ifXEntry \o <<17, k>> /\ Connector(k, new[i].oid)
  <2>1. ASSUME Column(i, c) PROVE c \in Nat /\ new[i].oid = ifEntry \o <<c, k>>
    <3>1. c \in Nat /\ new[i] = IfColumn(f, c)
      BY <2>1
    <3> QED BY <1>6, <3>1
  <2>2. ASSUME XColumn(i, c) PROVE c \in Nat /\ new[i].oid = ifXEntry \o <<c, k>>
    <3>1. c \in Nat /\ new[i] = IfXColumn(f, c)
      BY <2>2
    <3> QED BY <1>6, <3>1
  <2>3. ASSUME Twice(i) PROVE new[i].oid = ifXEntry \o <<17, k>> /\ Connector(k, new[i].oid)
    <3>1. 17 \in Nat /\ new[i] = IfXColumn(f, 17) /\ f.type = 6
      BY <2>3
    <3>2. new[i].oid = ifXEntry \o <<17, k>>
      BY <1>6, <3>1
    <3> QED BY <1>3, <3>1, <3>2 DEF Connector
  <2> HIDE DEF Column, XColumn, Twice
  <2> QED BY <2>1, <2>2, <2>3
\* The OID of an earlier record is not one of this interface.
<1>10. ASSUME NEW i \in 1..n, NEW j \in 1..Len(new), j \notin 1..n
       PROVE  new[i].oid # new[j].oid
  <2> SUFFICES ASSUME new[i].oid = new[j].oid PROVE FALSE
    OBVIOUS
  <2>1. PICK c \in Nat : new[j].oid = ifEntry \o <<c, k>> \/ new[j].oid = ifXEntry \o <<c, k>>
    <3> HIDE DEF Column, XColumn, Twice
    <3> QED BY <1>8, <1>9, <1>10
  <2>2. Group(new[j].oid) = 3
    BY <1>16, <2>1, ColumnGroup
  <2>3. Group(ls[i].oid) = 3 /\ ls[i].oid = new[j].oid
    BY <1>5, <2>2
  <2>4. PICK m \in 1..rows : ls[i] \in May(m)
    BY <2>3 DEF Content, n
  <2>5. interfaces[m] \in Interface /\ interfaces[m].index = m /\ m \in Nat /\ m # k
    <3>1. m \in 1..Len(interfaces) /\ m # k
      BY DEF k
    <3> QED BY <3>1, ElementOfSeq
  <2>10. m \in Nat
    BY <2>5
  <2>6. PICK d \in Nat : ls[i].oid = ifEntry \o <<d, m>> \/ ls[i].oid = ifXEntry \o <<d, m>>
    <3>1. PICK d \in Nat : ls[i] = IfColumn(interfaces[m], d) \/ ls[i] = IfXColumn(interfaces[m], d)
      BY <2>4 DEF May
    <3>2. /\ IfColumn(interfaces[m], d).oid = ifEntry \o <<d, m>>
          /\ IfXColumn(interfaces[m], d).oid = ifXEntry \o <<d, m>>
      BY <2>5, Columns
    <3> QED BY <3>1, <3>2
  <2>7. \/ ifEntry \o <<c, k>> = ifEntry \o <<d, m>>
        \/ ifEntry \o <<c, k>> = ifXEntry \o <<d, m>>
        \/ ifXEntry \o <<c, k>> = ifEntry \o <<d, m>>
        \/ ifXEntry \o <<c, k>> = ifXEntry \o <<d, m>>
    BY <2>1, <2>3, <2>6
  <2>8. ifEntry \o <<d, m>> # ifXEntry \o <<c, k>>
    BY <1>16, <2>10, ColumnOids
  <2>9. ifEntry \o <<c, k>> # ifXEntry \o <<d, m>>
    BY <1>16, <2>10, ColumnOids
  <2>11. ifEntry \o <<c, k>> = ifEntry \o <<d, m>> => c = d /\ k = m
    BY <1>16, <2>10, ColumnOids, ZenonT(60)
  <2>12. ifXEntry \o <<c, k>> = ifXEntry \o <<d, m>> => c = d /\ k = m
    BY <1>16, <2>10, ColumnOids, ZenonT(60)
  <2> QED BY <2>5, <2>7, <2>8, <2>9, <2>11, <2>12
<1>11. Upto(new, 3)
  <2> SUFFICES ASSUME NEW i \in 1..Len(new) PROVE Group(new[i].oid) <= 3
    BY DEF Upto
  <2>1. CASE i \in 1..n
    BY <1>5, <2>1 DEF Upto, n
  <2>2. CASE i \notin 1..n
    <3>1. PICK c \in Nat : new[i].oid = ifEntry \o <<c, k>> \/ new[i].oid = ifXEntry \o <<c, k>>
      <4> HIDE DEF Column, XColumn, Twice
      <4> QED BY <1>8, <1>9, <2>2
    <3>2. Group(new[i].oid) = 3
      BY <1>16, <3>1, ColumnGroup
    <3> QED BY <3>2
  <2> QED BY <2>1, <2>2
<1>12. ASSUME NEW i \in 1..Len(new), Group(new[i].oid) = 3
       PROVE  \E m \in 1..k : new[i] \in May(m)
  <2>1. CASE i \in 1..n
    <3>1. PICK m \in 1..rows : ls[i] \in May(m)
      BY <1>5, <1>12, <2>1 DEF Content, n
    <3>2. m \in 1..k
      BY DEF k
    <3> QED BY <1>5, <2>1, <3>1, <3>2
  <2>2. CASE i \notin 1..n
    <3>1. /\ \A c : Column(i, c) => new[i] \in May(k)
          /\ \A c : XColumn(i, c) => new[i] \in May(k)
          /\ Twice(i) => new[i] \in May(k)
      <4>1. \A c \in 1..22 : IfColumn(f, c) \in May(k)
        BY <1>3 DEF May
      <4>2. \A c \in 1..19 : IfXColumn(f, c) \in May(k)
        BY <1>3 DEF May
      <4>3. 17 \in 1..19
        OBVIOUS
      <4> QED BY <4>1, <4>2, <4>3
    <3>3. new[i] \in May(k)
      <4> HIDE DEF Column, XColumn, Twice
      <4> QED BY <1>8, <2>2, <3>1
    <3>2. k \in 1..k
      BY DEF k
    <3> QED BY <3>2, <3>3
  <2> QED BY <2>1, <2>2
<1>13. ASSUME NEW m \in 1..k, NEW r \in Must(m) PROVE \E i \in 1..Len(new) : new[i] = r
  <2>1. CASE m = k
    <3>1. CASE \E c \in 1..22 : r = IfColumn(f, c)
      <4>1. PICK c \in 1..22 : r = IfColumn(f, c)
        BY <3>1
      <4>2. n + c \in 1..Len(new)
        BY <1>18
      <4> QED BY <1>5, <4>1, <4>2
    <3>2. CASE \E c \in (1..19) \ {18} : r = IfXColumn(f, c)
      <4>1. PICK c \in (1..19) \ {18} : r = IfXColumn(f, c)
        BY <3>2
      <4>2. n + 22 + c \in 1..Len(new)
        BY <1>19
      <4> QED BY <1>5, <4>1, <4>2
    <3> QED BY <1>3, <2>1, <3>1, <3>2 DEF Must
  <2>2. CASE m # k
    <3>1. m \in 1..rows
      BY <2>2 DEF k
    <3>2. PICK i \in 1..n : ls[i] = r
      BY <3>1 DEF Content, n
    <3>3. i \in 1..Len(new)
      BY <1>4, <1>17
    <3> QED BY <1>5, <3>2, <3>3
  <2> QED BY <2>1, <2>2
<1>14. ASSUME NEW i \in 1..Len(new), NEW j \in 1..Len(new), i # j, new[i].oid = new[j].oid
       PROVE  \E m \in 1..k : Connector(m, new[i].oid)
  <2>1. CASE i \in 1..n
    <3>1. j \in 1..n
      BY <1>10, <1>14, <2>1
    <3>2. PICK m \in 1..rows : Connector(m, ls[i].oid)
      BY <1>5, <1>14, <2>1, <3>1 DEF Content, n
    <3>3. m \in 1..k
      BY DEF k
    <3> QED BY <1>5, <2>1, <3>2, <3>3
  <2>2. CASE i \notin 1..n
    <3>1. j \notin 1..n
      BY <1>10, <1>14, <2>2
    <3>2. k \in 1..k
      BY DEF k
    <3>3. CASE Twice(i) \/ Twice(j)
      <4> HIDE DEF Column, XColumn, Twice
      <4> QED BY <1>9, <1>14, <3>2, <3>3
    <3>4. CASE ~Twice(i) /\ ~Twice(j)
      <4>1. (\E c : Column(i, c)) \/ (\E c : XColumn(i, c))
        <5> HIDE DEF Column, XColumn, Twice
        <5> QED BY <1>8, <2>2, <3>4
      <4>2. (\E c : Column(j, c)) \/ (\E c : XColumn(j, c))
        <5> HIDE DEF Column, XColumn, Twice
        <5> QED BY <1>8, <3>1, <3>4
      <4>3. ASSUME NEW c, NEW d, Column(i, c) \/ XColumn(i, c), Column(j, d) \/ XColumn(j, d)
            PROVE  FALSE
        <5>1. c \in Nat /\ d \in Nat
          <6> HIDE DEF Column, XColumn, Twice
          <6> QED BY <1>9, <4>3
        <5>2. /\ ifEntry \o <<c, k>> # ifXEntry \o <<d, k>>
              /\ ifEntry \o <<d, k>> # ifXEntry \o <<c, k>>
              /\ ifEntry \o <<c, k>> = ifEntry \o <<d, k>> => c = d
              /\ ifXEntry \o <<c, k>> = ifXEntry \o <<d, k>> => c = d
          <6>1. /\ ifEntry \o <<c, k>> # ifXEntry \o <<d, k>>
                /\ ifEntry \o <<c, k>> = ifEntry \o <<d, k>> => c = d /\ k = k
                /\ ifXEntry \o <<c, k>> = ifXEntry \o <<d, k>> => c = d /\ k = k
            BY <1>16, <5>1, ColumnOids, ZenonT(60)
          <6>2. ifEntry \o <<d, k>> # ifXEntry \o <<c, k>>
            BY <1>16, <5>1, ColumnOids, ZenonT(60)
          <6> QED BY <6>1, <6>2
        <5>3. (Column(i, c) /\ Column(j, d)) \/ (XColumn(i, c) /\ XColumn(j, d))
          <6> HIDE DEF Column, XColumn, Twice
          <6> QED BY <1>9, <1>14, <4>3, <5>2
        <5>4. c = d
          <6> HIDE DEF Column, XColumn, Twice
          <6> QED BY <1>9, <1>14, <5>2, <5>3
        <5> QED BY <1>14, <5>3, <5>4
      <4> HIDE DEF Column, XColumn, Twice
      <4> QED BY <4>1, <4>2, <4>3
    <3> QED BY <3>3, <3>4
  <2> QED BY <2>1, <2>2
<1>15. Content(new, k)
  <2>1. new \in Seq(Record)
    BY <1>5
  <2> QED BY <1>12, <1>13, <1>14, <2>1 DEF Content
<1> QED BY <1>5, <1>11, <1>15 DEF f, new, n, k

-----------------------------------------------------------------------------
(* The inductive invariant.                                                *)

\* The interfaces are the first ones of a list that the type and the count determine.
InterfacesBuiltInv ==
  /\ interfaces \in Seq(Interface)
  /\ Len(interfaces) <= count
  /\ stage # "interfaces" => Len(interfaces) = count
  /\ \A i \in 1..Len(interfaces) :
       /\ interfaces[i].index = i
       /\ interfaces[i].name = NameAt(type, i)
       /\ interfaces[i].type = IF IsLoopback(NameAt(type, i)) THEN 24 ELSE 6
       /\ interfaces[i].oper = ~ForcedDown(i, NameAt(type, i))
       /\ interfaces[i].oper => interfaces[i].admin

\* How many interfaces have their rows, and the last group that was begun.
Rows == IF No[stage] < 3 THEN 0 ELSE IF stage = "if_tables" THEN RowsDone ELSE count
LastGroup == IF stage = "if_tables" THEN 3 ELSE No[stage] - 1

RecordsInv ==
  /\ Content(lines, Rows)
  /\ Upto(lines, LastGroup)
  /\ stage = "if_tables" => \E k \in 0..count : Len(lines) = 8 + 41 * k
  /\ stage = "done" => Ascending(lines)

Typed ==
  type \in DeviceType /\ count \in Counts[type] /\ profile \in Profile /\ stage \in DOMAIN No

Inv == Typed /\ InterfacesBuiltInv /\ RecordsInv

\* How the stages are numbered.
LEMMA NoFacts ==
  ASSUME NEW st \in DOMAIN No
  PROVE  /\ No[st] \in 1..12
         /\ No[st] < 3 <=> st \in {"interfaces", "system"}
         /\ No[st] > 3 <=> st \notin {"interfaces", "system", "if_tables"}
         /\ st # "done" => After(st) \in DOMAIN No /\ No[After(st)] = No[st] + 1
<1>1. DOMAIN No = {"interfaces", "system", "if_tables", "ip_tables", "tcp_udp", "cisco_cpu",
                   "cisco_memory", "cisco_chassis", "host_resources", "ucd_snmp", "sort", "done"}
  BY DEF No
<1>2. /\ No["interfaces"] = 1 /\ No["system"] = 2 /\ No["if_tables"] = 3 /\ No["ip_tables"] = 4
      /\ No["tcp_udp"] = 5 /\ No["cisco_cpu"] = 6 /\ No["cisco_memory"] = 7
      /\ No["cisco_chassis"] = 8 /\ No["host_resources"] = 9 /\ No["ucd_snmp"] = 10
      /\ No["sort"] = 11 /\ No["done"] = 12
  BY DEF No
<1>3. st # "done" => After(st) \in DOMAIN No /\ No[After(st)] = No[st] + 1
  BY <1>1, <1>2, StageOrder
<1> QED BY <1>1, <1>2, <1>3

\* A device has an interface.
LEMMA CountNat ==
  ASSUME Typed
  PROVE  count \in Nat \ {0}
BY CountsAssumption DEF Typed

\* What is said of records stays true while the interfaces stay as they are.
LEMMA ContentFrozen ==
  ASSUME interfaces' = interfaces, profile' = profile
  PROVE  \A ls, rows : Content(ls, rows) => Content(ls, rows)'
<1>1. \A k : May(k)' = May(k) /\ Must(k)' = Must(k)
  BY DEF May, Must, IfColumn, IfXColumn
<1>2. \A k, oid : Connector(k, oid)' <=> Connector(k, oid)
  BY DEF Connector
<1> QED BY <1>1, <1>2 DEF Content

\* The same of the records of the next state.
LEMMA ContentKept ==
  ASSUME NEW CONSTANT ls, NEW CONSTANT rows, Content(ls, rows),
         interfaces' = interfaces, profile' = profile, lines' = ls, Rows' = rows
  PROVE  Content(lines, Rows)'
<1>1. Content(ls, rows)'
  BY ContentFrozen
<1> QED BY <1>1

\* The list of interfaces is fixed once it is built.
LEMMA InterfacesKept ==
  ASSUME InterfacesBuiltInv, type' = type, count' = count, interfaces' = interfaces,
         stage # "interfaces" \/ Len(interfaces) = count
  PROVE  InterfacesBuiltInv'
BY DEF InterfacesBuiltInv, ForcedDown

\* The invariant holds before anything is done.
LEMMA InvInit == Init => Inv
<1> SUFFICES ASSUME Init PROVE Inv
  OBVIOUS
<1>1. Typed /\ stage = "interfaces" /\ Rows = 0 /\ LastGroup = 0
  BY DEF Init, Typed, No, Rows, LastGroup
<1>2. InterfacesBuiltInv
  <2>1. count \in Nat
    BY <1>1, CountNat
  <2> QED BY <2>1 DEF Init, InterfacesBuiltInv
<1>3. Content(lines, 0) /\ Upto(lines, 0)
  BY DEF Init, Content, Upto
<1> QED BY <1>1, <1>2, <1>3 DEF Inv, RecordsInv

\* build_interfaces() adds the next interface.
LEMMA InvAddInterface == Inv /\ AddInterface => Inv'
<1> SUFFICES ASSUME Inv, AddInterface PROVE Inv'
  OBVIOUS
<1> DEFINE names == InterfaceNames(Style[type], count)
           index == Len(interfaces) + 1
<1>1. count \in Nat \ {0} /\ type \in DeviceType
  BY CountNat DEF Inv, Typed
<1>2. Len(names) = count /\ \A i \in 1..count : names[i] = NameAt(type, i)
  BY <1>1, Names
<1>3. interfaces \in Seq(Interface) /\ Len(interfaces) \in Nat
  BY DEF Inv, InterfacesBuiltInv
<1>4. PICK admin \in BOOLEAN :
        /\ ~ForcedDown(index, names[index]) => admin
        /\ interfaces' = Append(interfaces,
             [index |-> index, name |-> names[index],
              type |-> IF IsLoopback(names[index]) THEN 24 ELSE 6,
              oper |-> ~ForcedDown(index, names[index]), admin |-> admin])
  BY DEF AddInterface
<1>5. /\ stage = "interfaces" /\ index <= Len(names)
      /\ type' = type /\ count' = count /\ profile' = profile /\ lines' = lines /\ stage' = stage
  BY DEF AddInterface
<1> HIDE DEF names
<1>6. index \in 1..count /\ names[index] = NameAt(type, index) /\ index \in Nat \ {0}
  BY <1>2, <1>3, <1>5
<1> DEFINE f == [index |-> index, name |-> NameAt(type, index),
                 type |-> IF IsLoopback(NameAt(type, index)) THEN 24 ELSE 6,
                 oper |-> ~ForcedDown(index, NameAt(type, index)), admin |-> admin]
<1>7. interfaces' = Append(interfaces, f)
  BY <1>4, <1>6
<1>8. NameAt(type, index) \in Name
  BY <1>1, <1>6, NameFacts
<1>9. f \in Interface
  <2>1. ForcedDown(index, NameAt(type, index)) \in BOOLEAN
    BY DEF ForcedDown
  <2> HIDE DEF index
  <2> QED BY <1>6, <1>8, <2>1 DEF Interface
<1>10. /\ f.index = index /\ f.name = NameAt(type, index)
       /\ f.type = IF IsLoopback(NameAt(type, index)) THEN 24 ELSE 6
       /\ f.oper = ~ForcedDown(index, NameAt(type, index))
       /\ f.oper => f.admin
  BY <1>4, <1>6
<1> HIDE DEF f
<1>11. /\ interfaces' \in Seq(Interface) /\ Len(interfaces') = index
       /\ interfaces'[index] = f
       /\ \A i \in 1..Len(interfaces) : interfaces'[i] = interfaces[i]
  BY <1>3, <1>7, <1>9, AppendProperties
<1>12. InterfacesBuiltInv'
  <2>1. ASSUME NEW i \in 1..Len(interfaces')
        PROVE  /\ interfaces'[i].index = i
               /\ interfaces'[i].name = NameAt(type, i)
               /\ interfaces'[i].type = IF IsLoopback(NameAt(type, i)) THEN 24 ELSE 6
               /\ interfaces'[i].oper = ~ForcedDown(i, NameAt(type, i))
               /\ interfaces'[i].oper => interfaces'[i].admin
    <3>1. CASE i = index
      BY <1>10, <1>11, <3>1
    <3>2. CASE i # index
      <4>1. i \in 1..Len(interfaces)
        BY <1>3, <1>11, <3>2
      <4> QED BY <1>11, <4>1 DEF Inv, InterfacesBuiltInv
    <3> QED BY <3>1, <3>2
  <2>2. \A i, n : ForcedDown(i, n)' <=> ForcedDown(i, n)
    BY <1>5 DEF ForcedDown
  <2>3. Len(interfaces') <= count
    BY <1>6, <1>11
  <2> QED BY <1>5, <1>11, <2>1, <2>2, <2>3 DEF InterfacesBuiltInv
<1>13. RecordsInv'
  <2>1. Rows = 0 /\ Rows' = 0 /\ LastGroup' = LastGroup
    BY <1>5 DEF Rows, LastGroup, No
  <2>2. Content(lines, 0) /\ Upto(lines, LastGroup)
    BY <2>1 DEF Inv, RecordsInv
  <2>3. Content(lines, 0)'
    BY <1>5, <2>2 DEF Content
  <2>4. Upto(lines, LastGroup)'
    BY <1>5, <2>1, <2>2 DEF Upto
  <2> QED BY <1>5, <2>1, <2>3, <2>4 DEF RecordsInv
<1>14. Typed'
  BY <1>5 DEF Inv, Typed
<1> QED BY <1>12, <1>13, <1>14 DEF Inv

\* All the interfaces are there.
LEMMA InvInterfacesBuilt == Inv /\ InterfacesBuilt => Inv'
<1> SUFFICES ASSUME Inv, InterfacesBuilt PROVE Inv'
  OBVIOUS
<1>1. /\ stage = "interfaces" /\ stage' = "system" /\ Len(interfaces) = count
      /\ type' = type /\ count' = count /\ profile' = profile
      /\ interfaces' = interfaces /\ lines' = lines
  <2>1. count \in Nat \ {0} /\ type \in DeviceType
    BY CountNat DEF Inv, Typed
  <2>2. Len(InterfaceNames(Style[type], count)) = count
    BY <2>1, Names
  <2> QED BY <2>2, StageOrder DEF InterfacesBuilt
<1>2. InterfacesBuiltInv'
  BY <1>1, InterfacesKept DEF Inv
<1>3. RecordsInv'
  <2>1. Rows = 0 /\ Rows' = 0 /\ LastGroup = 0 /\ LastGroup' = 1
    BY <1>1 DEF Rows, LastGroup, No
  <2>2. Content(lines, 0) /\ Upto(lines, 0)
    BY <2>1 DEF Inv, RecordsInv
  <2>3. Content(lines, 0)'
    BY <1>1, <2>2, ContentFrozen
  <2>4. Upto(lines, 1)
    <3>1. ASSUME NEW i \in 1..Len(lines) PROVE Group(lines[i].oid) <= 1
      <4>1. Group(lines[i].oid) <= 0 /\ Group(lines[i].oid) \in Nat
        BY <2>2 DEF Upto, Group
      <4> QED BY <4>1
    <3> QED BY <3>1 DEF Upto
  <2>5. Upto(lines, 1)'
    BY <1>1, <2>4 DEF Upto
  <2> QED BY <1>1, <2>1, <2>3, <2>5 DEF RecordsInv
<1>4. Typed'
  BY <1>1 DEF Inv, Typed, No
<1> QED BY <1>2, <1>3, <1>4 DEF Inv

\* The records of the system group come first.
LEMMA InvSystemGroup == Inv /\ SystemGroup => Inv'
<1> SUFFICES ASSUME Inv, SystemGroup PROVE Inv'
  OBVIOUS
<1>1. /\ stage = "system" /\ stage' = "if_tables" /\ lines' = SystemRecords
      /\ type' = type /\ count' = count /\ profile' = profile /\ interfaces' = interfaces
  BY StageOrder DEF SystemGroup, SystemRecords
<1>2. InterfacesBuiltInv'
  BY <1>1, InterfacesKept DEF Inv
<1>3. RecordsInv'
  <2> DEFINE s == SystemRecords
  <2>1. /\ s \in Seq(Record) /\ Len(s) = 8
        /\ \A i, j \in 1..Len(s) : s[i].oid = s[j].oid => i = j
        /\ \A i \in 1..Len(s) : Group(s[i].oid) = 2
    BY SystemTables
  <2> HIDE DEF s
  <2>2. Content(s, 0) /\ Upto(s, 3)
    BY <2>1 DEF Content, Upto
  <2>3. Content(s, 0)'
    BY <1>1, <2>2, ContentFrozen
  <2>4. lines' = s
    BY <1>1 DEF s
  <2>9. Len(lines') = 8
    BY <2>1, <2>4
  <2>10. RowsDone' = 0
    BY <2>9 DEF RowsDone
  <2>5. Len(lines') = 8 + 41 * 0 /\ Rows' = 0 /\ LastGroup' = 3
    BY <1>1, <2>9, <2>10 DEF Rows, LastGroup, No
  <2>6. Content(lines, 0)'
    BY <2>3, <2>4
  <2>7. Upto(lines, 3)'
    BY <2>2, <2>4 DEF Upto
  <2>8. 0 \in 0..count'
    <3>1. count \in Nat
      BY CountNat DEF Inv
    <3> QED BY <1>1, <3>1
  <2> QED BY <1>1, <2>5, <2>6, <2>7, <2>8 DEF RecordsInv
<1>4. Typed'
  BY <1>1 DEF Inv, Typed, No
<1> QED BY <1>2, <1>3, <1>4 DEF Inv

\* The number of rows, from the length of the list.
LEMMA RowsOfLength ==
  ASSUME NEW k \in Nat, Len(lines) = 8 + 41 * k
  PROVE  RowsDone = k
<1>1. (41 * k) \div 41 = k /\ Len(lines) - 8 = 41 * k
  OBVIOUS
<1> QED BY <1>1 DEF RowsDone

\* The rows of the next interface, in both tables.
LEMMA InvIfRow == Inv /\ IfRow => Inv'
<1> SUFFICES ASSUME Inv, IfRow PROVE Inv'
  OBVIOUS
<1>1. /\ stage = "if_tables" /\ stage' = stage
      /\ type' = type /\ count' = count /\ profile' = profile /\ interfaces' = interfaces
  BY DEF IfRow
<1>2. InterfacesBuiltInv'
  BY <1>1, InterfacesKept DEF Inv
<1>3. PICK k \in 0..count : Len(lines) = 8 + 41 * k
  BY <1>1 DEF Inv, RecordsInv
<1>4. count \in Nat /\ k \in Nat /\ Len(interfaces) = count
  BY <1>1, CountNat DEF Inv, InterfacesBuiltInv
<1>5. RowsDone = k
  BY <1>3, RowsOfLength
<1>6. k < count
  BY <1>4, <1>5 DEF IfRow
<1>7. Rows = k /\ LastGroup = 3 /\ LastGroup' = 3
  BY <1>1, <1>5 DEF Rows, LastGroup, No
<1> DEFINE f   == interfaces[k + 1]
           new == CorrectConnector(lines \o [c \in 1..22 |-> IfColumn(f, c)]
                                         \o [c \in 1..19 |-> IfXColumn(f, c)], f)
<1>8. Content(new, k + 1) /\ Upto(new, 3) /\ Len(new) = Len(lines) + 41
  <2>1. Content(lines, k) /\ Upto(lines, 3)
    BY <1>7 DEF Inv, RecordsInv
  <2>2. interfaces \in Seq(Interface) /\ \A i \in 1..Len(interfaces) : interfaces[i].index = i
    BY DEF Inv, InterfacesBuiltInv
  <2>3. k + 1 \in 1..Len(interfaces)
    BY <1>4, <1>6
  <2>4. interfaces \in Seq(Interface)
    BY <2>2
  <2>5. k \in Nat
    BY <1>4
  <2> QED BY <2>1, <2>2, <2>3, <2>4, <2>5, RowContent
<1>9. lines' = new
  BY <1>5 DEF IfRow
<1> HIDE DEF new
<1>10. Len(lines') = 8 + 41 * (k + 1) /\ k + 1 \in 0..count
  BY <1>3, <1>4, <1>6, <1>8, <1>9
<1>11. Rows' = k + 1
  <2>1. (41 * (k + 1)) \div 41 = k + 1 /\ Len(lines') - 8 = 41 * (k + 1)
    BY <1>4, <1>10
  <2> QED BY <1>1, <2>1 DEF Rows, RowsDone, No
<1>12. Content(lines, Rows)'
  BY <1>1, <1>8, <1>9, <1>11, ContentKept
<1>13. Upto(lines, LastGroup)'
  BY <1>7, <1>8, <1>9 DEF Upto
<1>14. RecordsInv'
  BY <1>1, <1>10, <1>12, <1>13 DEF RecordsInv
<1>15. Typed'
  BY <1>1 DEF Inv, Typed
<1> QED BY <1>2, <1>14, <1>15 DEF Inv

\* Every interface has its rows.
LEMMA InvIfRowsDone == Inv /\ IfRowsDone => Inv'
<1> SUFFICES ASSUME Inv, IfRowsDone PROVE Inv'
  OBVIOUS
<1>1. /\ stage = "if_tables" /\ stage' = "ip_tables" /\ RowsDone = Len(interfaces)
      /\ type' = type /\ count' = count /\ profile' = profile
      /\ interfaces' = interfaces /\ lines' = lines
  BY StageOrder DEF IfRowsDone
<1>2. InterfacesBuiltInv'
  BY <1>1, InterfacesKept DEF Inv
<1>3. Rows = count /\ Rows' = count /\ LastGroup = 3 /\ LastGroup' = 3
  BY <1>1 DEF Inv, InterfacesBuiltInv, Rows, LastGroup, No
<1>4. Content(lines, count) /\ Upto(lines, 3)
  BY <1>3 DEF Inv, RecordsInv
<1>5. Content(lines, count)'
  BY <1>1, <1>4, ContentFrozen
<1>6. Upto(lines, 3)'
  BY <1>1, <1>4 DEF Upto
<1>7. RecordsInv'
  BY <1>1, <1>3, <1>5, <1>6 DEF RecordsInv
<1>8. Typed'
  BY <1>1 DEF Inv, Typed, No
<1> QED BY <1>2, <1>7, <1>8 DEF Inv

\* A group is emitted behind the interface tables.
LEMMA InvEmit ==
  ASSUME Inv, stage \in DOMAIN No, No[stage] > 3, stage # "done", stage # "sort",
         NEW CONSTANT s, s = <<>> \/ GroupOK(s, No[stage]), Emit(s),
         UNCHANGED <<type, count, profile, interfaces>>
  PROVE  Inv'
<1>1. /\ stage' = After(stage) /\ lines' = lines \o s
      /\ type' = type /\ count' = count /\ profile' = profile /\ interfaces' = interfaces
  BY DEF Emit
<1>2. stage' \in DOMAIN No /\ No[stage'] = No[stage] + 1 /\ No[stage] \in 4..12
  BY <1>1, NoFacts
<1>3. stage \notin {"interfaces", "system", "if_tables"}
      /\ stage' \notin {"interfaces", "system", "if_tables", "done"}
  <2>1. stage' \notin {"interfaces", "system", "if_tables"}
    BY <1>2, NoFacts
  <2>2. stage' # "done"
    BY <1>1, StageOrder DEF No
  <2> QED BY <2>1, <2>2, NoFacts
<1>4. InterfacesBuiltInv'
  BY <1>1, <1>3, InterfacesKept DEF Inv
<1>5. Rows = count /\ Rows' = count /\ LastGroup = No[stage] - 1 /\ LastGroup' = No[stage]
  BY <1>1, <1>2, <1>3 DEF Rows, LastGroup
<1>6. count \in Nat
  BY CountNat DEF Inv
<1>7. Content(lines, count) /\ Upto(lines, No[stage] - 1)
  BY <1>5 DEF Inv, RecordsInv
<1>8. Content(lines \o s, count) /\ Upto(lines \o s, No[stage])
  <2>1. CASE s = <<>>
    <3>1. lines \o s = lines
      <4>1. lines \in Seq(Record)
        BY <1>7 DEF Content
      <4> QED BY <2>1, <4>1, ConcatEmptySeq
    <3>2. Upto(lines, No[stage])
      <4>1. ASSUME NEW i \in 1..Len(lines) PROVE Group(lines[i].oid) <= No[stage]
        <5>1. Group(lines[i].oid) <= No[stage] - 1 /\ Group(lines[i].oid) \in Nat
          BY <1>7 DEF Upto, Group
        <5> QED BY <1>2, <5>1
      <4> QED BY <4>1 DEF Upto
    <3> QED BY <1>7, <3>1, <3>2
  <2>2. CASE GroupOK(s, No[stage])
    <3>1. No[stage] - 1 \in Nat
      BY <1>2
    <3>2. No[stage] \in Nat /\ No[stage] # 3 /\ No[stage] - 1 < No[stage]
      BY <1>2
    <3> QED BY <1>6, <1>7, <2>2, <3>1, <3>2, EmitContent
  <2> QED BY <2>1, <2>2
<1>9. Content(lines, Rows)'
  BY <1>1, <1>5, <1>8, ContentKept
<1>10. Upto(lines, LastGroup)'
  BY <1>1, <1>5, <1>8 DEF Upto
<1>11. RecordsInv'
  BY <1>3, <1>9, <1>10 DEF RecordsInv
<1>12. Typed'
  BY <1>1, <1>2 DEF Inv, Typed
<1> QED BY <1>4, <1>11, <1>12 DEF Inv

\* The records are sorted.
LEMMA InvSort == Inv /\ Sort => Inv'
<1> SUFFICES ASSUME Inv, Sort PROVE Inv'
  OBVIOUS
<1>1. /\ stage = "sort" /\ stage' = "done" /\ lines' = Sorted(lines)
      /\ type' = type /\ count' = count /\ profile' = profile /\ interfaces' = interfaces
  BY StageOrder DEF Sort
<1>2. InterfacesBuiltInv'
  BY <1>1, InterfacesKept DEF Inv
<1>3. Rows = count /\ Rows' = count /\ LastGroup = 10 /\ LastGroup' = 11
  BY <1>1 DEF Rows, LastGroup, No
<1>4. Content(lines, count) /\ Upto(lines, 10) /\ count \in Nat
  BY <1>3, CountNat DEF Inv, RecordsInv
<1>5. lines \in Seq(Record)
  BY <1>4 DEF Content
<1>6. Content(Sorted(lines), count) /\ Upto(Sorted(lines), 10) /\ Ascending(Sorted(lines))
  BY <1>4, <1>5, SortContent, SortedProperties
<1>7. Content(lines, Rows)'
  BY <1>1, <1>3, <1>6, ContentKept
<1>8. Upto(lines, LastGroup)'
  <2> DEFINE s == Sorted(lines)
  <2> HIDE DEF s
  <2>1. ASSUME NEW i \in 1..Len(s) PROVE Group(s[i].oid) <= 11
    <3>1. Group(s[i].oid) <= 10 /\ Group(s[i].oid) \in Nat
      BY <1>6 DEF Upto, Group, s
    <3> QED BY <3>1
  <2>2. lines' = s
    BY <1>1 DEF s
  <2> QED BY <1>3, <2>1, <2>2 DEF Upto
<1>9. Ascending(lines)'
  BY <1>1, <1>6 DEF Ascending
<1>10. RecordsInv'
  BY <1>1, <1>7, <1>8, <1>9 DEF RecordsInv
<1>11. Typed'
  BY <1>1 DEF Inv, Typed, No
<1> QED BY <1>2, <1>10, <1>11 DEF Inv

\* Every step keeps the invariant.
LEMMA InvStep == Inv /\ [Next]_vars => Inv'
<1> SUFFICES ASSUME Inv, [Next]_vars PROVE Inv'
  OBVIOUS
<1>1. CASE AddInterface
  BY <1>1, InvAddInterface
<1>2. CASE InterfacesBuilt
  BY <1>2, InvInterfacesBuilt
<1>3. CASE SystemGroup
  BY <1>3, InvSystemGroup
<1>4. CASE IfRow
  BY <1>4, InvIfRow
<1>5. CASE IfRowsDone
  BY <1>5, InvIfRowsDone
<1>6. CASE IpTables
  <2>1. stage = "ip_tables" /\ Emit(IpRecords) /\ UNCHANGED <<type, count, profile, interfaces>>
    BY <1>6 DEF IpTables, IpRecords
  <2>2. GroupOK(IpRecords, 4)
    BY IpTablesOK DEF Tables, GroupOK
  <2>3. stage \in DOMAIN No /\ No[stage] = 4 /\ stage # "done" /\ stage # "sort"
    BY <2>1 DEF No
  <2> QED BY <2>1, <2>2, <2>3, InvEmit
<1>7. CASE TcpUdp
  <2>1. stage = "tcp_udp" /\ Emit(TcpUdpRecords) /\ UNCHANGED <<type, count, profile, interfaces>>
    BY <1>7 DEF TcpUdp, TcpUdpRecords
  <2>2. GroupOK(TcpUdpRecords, 5)
    BY TcpUdpTablesOK DEF Tables, GroupOK
  <2>3. stage \in DOMAIN No /\ No[stage] = 5 /\ stage # "done" /\ stage # "sort"
    BY <2>1 DEF No
  <2> QED BY <2>1, <2>2, <2>3, InvEmit
<1>8. CASE \E mib \in Mibs : ExtraMib(mib)
  <2>1. PICK mib \in Mibs : ExtraMib(mib)
    BY <1>8
  <2>2. stage = mib /\ UNCHANGED <<type, count, profile, interfaces>>
        /\ (Emit(Pack(mib)) \/ Emit(<<>>))
    BY <2>1 DEF ExtraMib
  <2>3. GroupOK(Pack(mib), No[stage])
    BY <2>2, PackGroups
  <2>4. stage \in DOMAIN No /\ No[stage] > 3 /\ stage # "done" /\ stage # "sort"
    BY <2>2 DEF No, Mibs
  <2>5. CASE Emit(Pack(mib))
    BY <2>2, <2>3, <2>4, <2>5, InvEmit
  <2>6. CASE Emit(<<>>)
    BY <2>2, <2>4, <2>6, InvEmit
  <2> QED BY <2>2, <2>5, <2>6
<1>9. CASE Sort
  BY <1>9, InvSort
<1>10. CASE UNCHANGED vars
  <2>1. /\ stage' = stage /\ type' = type /\ count' = count /\ profile' = profile
        /\ interfaces' = interfaces /\ lines' = lines
    BY <1>10 DEF vars
  <2>2. Rows' = Rows /\ LastGroup' = LastGroup
    BY <2>1 DEF Rows, RowsDone, LastGroup
  <2>3. RecordsInv'
    <3>1. Content(lines, Rows)'
      BY <2>1, <2>2, ContentFrozen DEF Inv, RecordsInv
    <3>2. Upto(lines, LastGroup)' /\ (stage = "done" => Ascending(lines))'
      BY <2>1, <2>2 DEF Inv, RecordsInv, Upto, Ascending
    <3> QED BY <2>1, <3>1, <3>2 DEF Inv, RecordsInv
  <2>4. InterfacesBuiltInv'
    BY <2>1 DEF Inv, InterfacesBuiltInv, ForcedDown
  <2>5. Typed'
    BY <2>1 DEF Inv, Typed
  <2> QED BY <2>3, <2>4, <2>5 DEF Inv
<1> QED BY <1>1, <1>2, <1>3, <1>4, <1>5, <1>6, <1>7, <1>8, <1>9, <1>10 DEF Next, Mibs

\* The invariant holds always.
LEMMA SpecInv == Spec => []Inv
BY InvInit, InvStep, PTL DEF Spec

-----------------------------------------------------------------------------
(* What follows from it.                                                   *)

\* The invariant gives the types.
LEMMA InvTypeOK == Inv => TypeOK
<1> SUFFICES ASSUME Inv PROVE TypeOK
  OBVIOUS
<1>1. interfaces \in Seq(Interface) /\ lines \in Seq(Record)
  BY DEF Inv, InterfacesBuiltInv, RecordsInv, Content
<1>2. DOMAIN interfaces = 1..Len(interfaces) /\ DOMAIN lines = 1..Len(lines)
  BY <1>1
<1>3. ASSUME NEW i \in 1..Len(interfaces)
      PROVE  /\ interfaces[i].index = i /\ interfaces[i].type \in {6, 24}
             /\ interfaces[i].oper \in BOOLEAN /\ interfaces[i].admin \in BOOLEAN
  <2>1. interfaces[i] \in Interface
    BY <1>1
  <2>2. interfaces[i].index = i
    BY DEF Inv, InterfacesBuiltInv
  <2> QED BY <2>1, <2>2 DEF Interface
<1>4. ASSUME NEW i \in 1..Len(lines)
      PROVE  lines[i].oid \in Seq(Nat) /\ lines[i].grows \in BOOLEAN
  <2>1. lines[i] \in Record
    BY <1>1
  <2> QED BY <2>1 DEF Record
<1>5. \E i \in DOMAIN Stage : stage = Stage[i]
  <2>1. DOMAIN Stage = 1..12
    BY DEF Stage
  <2>2. /\ Stage[1] = "interfaces" /\ Stage[2] = "system" /\ Stage[3] = "if_tables"
        /\ Stage[4] = "ip_tables" /\ Stage[5] = "tcp_udp" /\ Stage[6] = "cisco_cpu"
        /\ Stage[7] = "cisco_memory" /\ Stage[8] = "cisco_chassis" /\ Stage[9] = "host_resources"
        /\ Stage[10] = "ucd_snmp" /\ Stage[11] = "sort" /\ Stage[12] = "done"
    BY DEF Stage
  <2>3. stage \in {"interfaces", "system", "if_tables", "ip_tables", "tcp_udp", "cisco_cpu",
                   "cisco_memory", "cisco_chassis", "host_resources", "ucd_snmp", "sort", "done"}
    BY DEF Inv, Typed, No
  <2> QED BY <2>1, <2>2, <2>3
<1> QED BY <1>2, <1>3, <1>4, <1>5 DEF Inv, Typed, TypeOK

\* What _interface_names() and build_interfaces() make is plausible.
LEMMA InvPlausible == Inv => PlausibleInterfaces
<1> SUFFICES ASSUME Inv, stage # "interfaces" 
             PROVE  /\ Len(interfaces) = count
                    /\ \A i, j \in DOMAIN interfaces :
                         i # j => /\ interfaces[i].name # interfaces[j].name
                                  /\ interfaces[i].oper \/ interfaces[j].oper
                    /\ \A i \in DOMAIN interfaces :
                         LET f == interfaces[i]
                         IN  (~f.oper => ~IsLoopback(f.name) /\ ~IsMgmt(f.name))
                             /\ (f.oper => f.admin)
  BY DEF PlausibleInterfaces
<1>1. interfaces \in Seq(Interface)
  BY DEF Inv, InterfacesBuiltInv
<1>2. DOMAIN interfaces = 1..Len(interfaces) /\ Len(interfaces) = count
  BY <1>1 DEF Inv, InterfacesBuiltInv
<1>3. ASSUME NEW i \in DOMAIN interfaces
      PROVE  /\ i \in Nat \ {0}
             /\ interfaces[i].name = NameAt(type, i)
             /\ interfaces[i].oper = ~ForcedDown(i, NameAt(type, i))
             /\ interfaces[i].oper => interfaces[i].admin
  BY <1>2, CountNat DEF Inv, InterfacesBuiltInv
<1>4. type \in DeviceType
  BY DEF Inv, Typed
<1>5. ASSUME NEW i \in DOMAIN interfaces, NEW j \in DOMAIN interfaces, i # j
      PROVE  /\ interfaces[i].name # interfaces[j].name
             /\ interfaces[i].oper \/ interfaces[j].oper
  <2>1. i \in Nat \ {0}
    BY <1>3
  <2>2. j \in Nat \ {0}
    BY <1>3
  <2>3. NameAt(type, i) # NameAt(type, j)
    BY <1>4, <1>5, <2>1, <2>2, NameFacts
  <2>4. ForcedDown(i, NameAt(type, i)) => i = count
    BY DEF ForcedDown
  <2>5. ForcedDown(j, NameAt(type, j)) => j = count
    BY DEF ForcedDown
  <2> QED BY <1>3, <1>5, <2>3, <2>4, <2>5
<1>6. ASSUME NEW i \in DOMAIN interfaces
      PROVE  /\ ~interfaces[i].oper => ~IsLoopback(interfaces[i].name) /\ ~IsMgmt(interfaces[i].name)
             /\ interfaces[i].oper => interfaces[i].admin
  BY <1>3 DEF ForcedDown
<1> QED BY <1>2, <1>5, <1>6

\* What is there when the records are done.
LEMMA Done ==
  ASSUME Inv, stage = "done"
  PROVE  /\ Content(lines, count) /\ count \in Nat /\ lines \in Seq(Record)
         /\ interfaces \in Seq(Interface) /\ Len(interfaces) = count
         /\ \A i \in 1..count : interfaces[i] \in Interface /\ interfaces[i].index = i
         /\ DOMAIN lines = 1..Len(lines) /\ DOMAIN interfaces = 1..count
<1>1. Rows = count
  BY DEF Rows, No
<1>2. Content(lines, count) /\ count \in Nat
  BY <1>1, CountNat DEF Inv, RecordsInv
<1>3. lines \in Seq(Record)
  BY <1>2 DEF Content
<1>4. interfaces \in Seq(Interface)
  BY DEF Inv, InterfacesBuiltInv
<1>5. Len(interfaces) = count /\ \A i \in 1..count : interfaces[i].index = i
  BY DEF Inv, InterfacesBuiltInv
<1>6. \A i \in 1..count : interfaces[i] \in Interface
  BY <1>4, <1>5
<1>7. DOMAIN lines = 1..Len(lines)
  BY <1>3
<1>8. DOMAIN interfaces = 1..count
  BY <1>4, <1>5
<1> QED BY <1>2, <1>3, <1>4, <1>5, <1>6, <1>7, <1>8

\* A column that must be there is served.
LEMMA MustBeServed ==
  ASSUME Inv, stage = "done", NEW k \in 1..count
  PROVE  /\ \A c \in 1..22 : \E j \in 1..Len(lines) :
              lines[j] = IfColumn(interfaces[k], c) /\ lines[j].oid = ifEntry \o <<c, k>>
         /\ \A c \in (1..19) \ {18} : \E j \in 1..Len(lines) :
              lines[j] = IfXColumn(interfaces[k], c) /\ lines[j].oid = ifXEntry \o <<c, k>>
<1>1. Content(lines, count)
  BY Done
<1>2. interfaces[k] \in Interface
  BY Done
<1>3. interfaces[k].index = k
  BY Done
<1>4. ASSUME NEW c \in 1..22
      PROVE  \E j \in 1..Len(lines) :
               lines[j] = IfColumn(interfaces[k], c) /\ lines[j].oid = ifEntry \o <<c, k>>
  <2>1. c \in Nat
    OBVIOUS
  <2>2. IfColumn(interfaces[k], c) \in Must(k)
    BY DEF Must
  <2>3. PICK j \in 1..Len(lines) : lines[j] = IfColumn(interfaces[k], c)
    BY <1>1, <2>2 DEF Content
  <2>4. IfColumn(interfaces[k], c).oid = ifEntry \o <<c, k>>
    BY <1>2, <1>3, <2>1, Columns
  <2> QED BY <2>3, <2>4
<1>5. ASSUME NEW c \in (1..19) \ {18}
      PROVE  \E j \in 1..Len(lines) :
               lines[j] = IfXColumn(interfaces[k], c) /\ lines[j].oid = ifXEntry \o <<c, k>>
  <2>1. c \in Nat
    OBVIOUS
  <2>2. IfXColumn(interfaces[k], c) \in Must(k)
    BY DEF Must
  <2>3. PICK j \in 1..Len(lines) : lines[j] = IfXColumn(interfaces[k], c)
    BY <1>1, <2>2 DEF Content
  <2>4. IfXColumn(interfaces[k], c).oid = ifXEntry \o <<c, k>>
    BY <1>2, <1>3, <2>1, Columns
  <2> QED BY <2>3, <2>4
<1> QED BY <1>4, <1>5

\* The rows that Content tells of are complete.
LEMMA InvTablesComplete == Inv => TablesComplete
<1> SUFFICES ASSUME Inv, stage = "done"
             PROVE  /\ \A i \in 1..count :
                         /\ \A c \in 1..22 : ifEntry \o <<c, i>> \in Served
                         /\ \A c \in (1..19) \ {18} : ifXEntry \o <<c, i>> \in Served
                    /\ \A i \in 1..(Len(lines) - 1) :
                         lines[i].oid = lines[i + 1].oid =>
                           \E k \in DOMAIN interfaces :
                             interfaces[k].type = 6 /\ lines[i].oid = ifXEntry \o <<17, k>>
  BY DEF TablesComplete
<1>1. \A j \in 1..Len(lines) : lines[j].oid \in Served
  BY Done DEF Served
<1>2. ASSUME NEW i \in 1..count
      PROVE  /\ \A c \in 1..22 : ifEntry \o <<c, i>> \in Served
             /\ \A c \in (1..19) \ {18} : ifXEntry \o <<c, i>> \in Served
  BY <1>1, MustBeServed
<1>3. ASSUME NEW i \in 1..(Len(lines) - 1), lines[i].oid = lines[i + 1].oid
      PROVE  \E k \in DOMAIN interfaces :
               interfaces[k].type = 6 /\ lines[i].oid = ifXEntry \o <<17, k>>
  <2>1. Content(lines, count) /\ lines \in Seq(Record) /\ DOMAIN interfaces = 1..count
    BY Done
  <2>2. Len(lines) \in Nat
    BY <2>1
  <2>3. i \in 1..Len(lines) /\ i + 1 \in 1..Len(lines) /\ i # i + 1
    BY <2>2
  <2>4. \E k \in 1..count : Connector(k, lines[i].oid)
    BY <1>3, <2>1, <2>3 DEF Content
  <2> QED BY <2>1, <2>4 DEF Connector
<1> QED BY <1>2, <1>3

\* The OIDs of a column of an interface table begin alike.
LEMMA ColumnPrefix ==
  ASSUME NEW c \in Nat, NEW k \in Nat, NEW m \in Nat
  PROVE  /\ \A h \in 1..6 : (ifEntry \o <<c, k>>)[h] = (ifEntry \o <<c, m>>)[h]
         /\ \A h \in 1..7 : (ifXEntry \o <<c, k>>)[h] = (ifXEntry \o <<c, m>>)[h]
<1>1. ifEntry \in Seq(Nat) /\ Len(ifEntry) = 5 /\ ifXEntry \in Seq(Nat) /\ Len(ifXEntry) = 6
  <2> DEFINE a == <<2, 2, 1>>
             b == <<31, 1, 1, 1>>
  <2>1. a \in Seq(Nat) /\ Len(a) = 3 /\ b \in Seq(Nat) /\ Len(b) = 4
    OBVIOUS
  <2>2. ifEntry = mib2 \o a /\ ifXEntry = mib2 \o b
    BY DEF ifEntry, ifXEntry
  <2> HIDE DEF a, b
  <2>3. mib2 \o a \in Seq(Nat) /\ Len(mib2 \o a) = Len(a) + 2
    BY <2>1, Mib2
  <2>4. mib2 \o b \in Seq(Nat) /\ Len(mib2 \o b) = Len(b) + 2
    BY <2>1, Mib2
  <2> QED BY <2>1, <2>2, <2>3, <2>4
<1>2. ASSUME NEW j \in Nat
      PROVE  /\ \A h \in 1..5 : (ifEntry \o <<c, j>>)[h] = ifEntry[h]
             /\ \A h \in 1..6 : (ifXEntry \o <<c, j>>)[h] = ifXEntry[h]
  <2> DEFINE b == <<c, j>>
  <2>1. b \in Seq(Nat)
    OBVIOUS
  <2> HIDE DEF b
  <2>2. \A i \in 1..Len(ifEntry) : (ifEntry \o b)[i] = ifEntry[i]
    <3> DEFINE a == ifEntry
    <3>1. a \in Seq(Nat)
      BY <1>1
    <3> HIDE DEF a
    <3>2. \A i \in 1..Len(a) : (a \o b)[i] = a[i]
      BY <2>1, <3>1, ConcatPair
    <3> QED BY <3>2 DEF a
  <2>3. \A i \in 1..Len(ifXEntry) : (ifXEntry \o b)[i] = ifXEntry[i]
    <3> DEFINE a == ifXEntry
    <3>1. a \in Seq(Nat)
      BY <1>1
    <3> HIDE DEF a
    <3>2. \A i \in 1..Len(a) : (a \o b)[i] = a[i]
      BY <2>1, <3>1, ConcatPair
    <3> QED BY <3>2 DEF a
  <2>4. \A i \in 1..5 : (ifEntry \o b)[i] = ifEntry[i]
    BY <1>1, <2>2
  <2>5. \A i \in 1..6 : (ifXEntry \o b)[i] = ifXEntry[i]
    BY <1>1, <2>3
  <2> QED BY <2>4, <2>5 DEF b
<1> DEFINE o(j) == ifEntry \o <<c, j>>
           ox(j) == ifXEntry \o <<c, j>>
<1>3. o(k)[6] = c /\ o(m)[6] = c
  BY IfOid
<1>4. ox(k)[7] = c /\ ox(m)[7] = c
  BY IfXOid
<1>5. (\A h \in 1..5 : o(k)[h] = o(m)[h]) /\ (\A h \in 1..6 : ox(k)[h] = ox(m)[h])
  BY <1>2
<1> HIDE DEF o, ox
<1>6. \A h \in 1..6 : o(k)[h] = o(m)[h]
  <2>1. \A h \in 1..6 : h = 6 \/ h \in 1..5
    OBVIOUS
  <2> QED BY <1>3, <1>5, <2>1
<1>7. \A h \in 1..7 : ox(k)[h] = ox(m)[h]
  <2>1. \A h \in 1..7 : h = 7 \/ h \in 1..6
    OBVIOUS
  <2> QED BY <1>4, <1>5, <2>1
<1> QED BY <1>6, <1>7 DEF o, ox

\* What there is in the interface tables when the records are done.
LEMMA TableLines ==
  ASSUME Inv, stage = "done", NEW j \in 1..Len(lines), Group(lines[j].oid) = 3
  PROVE  \E k \in 1..count : \/ \E c \in 1..22 : lines[j].oid = ifEntry \o <<c, k>>
                             \/ \E c \in 1..19 : lines[j].oid = ifXEntry \o <<c, k>>
<1>1. Content(lines, count)
  BY Done
<1>2. PICK k \in 1..count : lines[j] \in May(k)
  BY <1>1 DEF Content
<1>3. interfaces[k] \in Interface
  BY Done
<1>4. interfaces[k].index = k
  BY Done
<1>5. ASSUME NEW c \in Nat
      PROVE  /\ IfColumn(interfaces[k], c).oid = ifEntry \o <<c, k>>
             /\ IfXColumn(interfaces[k], c).oid = ifXEntry \o <<c, k>>
  BY <1>3, <1>4, Columns
<1>6. CASE \E c \in 1..22 : lines[j] = IfColumn(interfaces[k], c)
  <2>1. PICK c \in 1..22 : lines[j] = IfColumn(interfaces[k], c)
    BY <1>6
  <2>2. c \in Nat
    OBVIOUS
  <2>3. IfColumn(interfaces[k], c).oid = ifEntry \o <<c, k>>
    BY <1>5, <2>2, Zenon
  <2> QED BY <2>1, <2>3
<1>7. CASE \E c \in 1..19 : lines[j] = IfXColumn(interfaces[k], c)
  <2>1. PICK c \in 1..19 : lines[j] = IfXColumn(interfaces[k], c)
    BY <1>7
  <2>2. c \in Nat
    OBVIOUS
  <2>3. IfXColumn(interfaces[k], c).oid = ifXEntry \o <<c, k>>
    BY <1>5, <2>2, Zenon
  <2> QED BY <2>1, <2>3
<1> QED BY <1>2, <1>6, <1>7 DEF May

\* A column of ifTable stands together, by ifIndex.
LEMMA IfWalk ==
  ASSUME Inv, stage = "done", NEW c \in 1..22
  PROVE  \E first \in 0..(Len(lines) - count) :
           \A i \in 1..count : lines[first + i].oid = ifEntry \o <<c, i>>
<1> DEFINE O == [i \in 1..count |-> ifEntry \o <<c, i>>]
<1>1. c \in Nat /\ count \in Nat \ {0}
  BY CountNat DEF Inv
<1>2. \A i \in 1..count : O[i] = ifEntry \o <<c, i>>
  OBVIOUS
<1>3. ASSUME NEW i \in 1..count
      PROVE  /\ O[i] \in Seq(Nat) /\ Len(O[i]) = 7 /\ O[i][7] = i
             /\ O[i][1] = 2 /\ O[i][3] = 2 /\ O[i][4] = 2 /\ O[i][6] = c
  BY <1>1, IfOid
<1>4. ASSUME NEW i \in 1..count, NEW j \in 1..count, NEW h \in 1..6
      PROVE  O[i][h] = O[j][h]
  <2>1. i \in Nat /\ j \in Nat
    BY <1>1
  <2>2. \A g \in 1..6 : (ifEntry \o <<c, i>>)[g] = (ifEntry \o <<c, j>>)[g]
    BY <1>1, <2>1, ColumnPrefix, ZenonT(30)
  <2> QED BY <1>2, <2>2
<1> HIDE DEF O
<1>5. IsColumn(O, count, 6)
  BY <1>3, <1>4 DEF IsColumn
<1>6. Content(lines, count) /\ lines \in Seq(Record)
  BY Done
<1>7. ASSUME NEW i \in 1..count PROVE \E j \in 1..Len(lines) : lines[j].oid = O[i]
  <2>1. PICK j \in 1..Len(lines) : lines[j].oid = ifEntry \o <<c, i>>
    BY MustBeServed
  <2>2. lines[j].oid = O[i]
    BY <1>2, <2>1, Zenon
  <2> QED BY <2>2
<1>8. ASSUME NEW j \in 1..Len(lines), NEW k \in 1..Len(lines), NEW i \in 1..count,
             lines[j].oid = O[i], lines[k].oid = O[i], j # k
      PROVE  FALSE
  <2>1. PICK x \in 1..count : lines[j].oid = ifXEntry \o <<17, x>>
    <3>1. lines[j].oid = lines[k].oid
      BY <1>8
    <3>2. PICK x \in 1..count : Connector(x, lines[j].oid)
      BY <1>6, <1>8, <3>1 DEF Content
    <3> QED BY <3>2 DEF Connector
  <2>2. ifEntry \o <<c, i>> # ifXEntry \o <<17, x>>
    <3>1. i \in Nat /\ x \in Nat /\ 17 \in Nat
      BY <1>1
    <3> QED BY <1>1, <3>1, TablesApart
  <2> QED BY <1>2, <1>8, <2>1, <2>2
<1>9. ASSUME NEW j \in 1..Len(lines), Begins(lines[j].oid, O[1], 6)
      PROVE  \E i \in 1..count : lines[j].oid = O[i]
  <2>1. 1 \in 1..count
    BY <1>1
  <2>2. 1 \in 1..6 /\ 3 \in 1..6 /\ 4 \in 1..6 /\ 6 \in 1..6
    OBVIOUS
  <2>3. \A h \in 1..6 : lines[j].oid[h] = O[1][h]
    BY <1>9 DEF Begins
  <2>4. /\ lines[j].oid[1] = 2 /\ lines[j].oid[3] = 2 /\ lines[j].oid[4] = 2
        /\ lines[j].oid[6] = c
    <3>1. O[1][1] = 2 /\ O[1][3] = 2 /\ O[1][4] = 2 /\ O[1][6] = c
      BY <1>3, <2>1
    <3> QED BY <2>2, <2>3, <3>1
  <2>5. Group(lines[j].oid) = 3
    BY <2>4 DEF Group
  <2>6. PICK k \in 1..count : \/ \E d \in 1..22 : lines[j].oid = ifEntry \o <<d, k>>
                              \/ \E d \in 1..19 : lines[j].oid = ifXEntry \o <<d, k>>
    BY <2>5, TableLines
  <2>7. CASE \E d \in 1..22 : lines[j].oid = ifEntry \o <<d, k>>
    <3>1. PICK d \in 1..22 : lines[j].oid = ifEntry \o <<d, k>>
      BY <2>7
    <3>2. (ifEntry \o <<d, k>>)[6] = d
      <4>1. d \in Nat /\ k \in Nat
        BY <1>1
      <4> QED BY <4>1, IfOid
    <3>3. lines[j].oid[6] = d
      BY <3>1, <3>2, Zenon
    <3>4. d = c
      BY <2>4, <3>3, Zenon
    <3>5. lines[j].oid = O[k]
      BY <1>2, <3>1, <3>4, Zenon
    <3> QED BY <3>5, Zenon
  <2>8. CASE \E d \in 1..19 : lines[j].oid = ifXEntry \o <<d, k>>
    <3>1. PICK d \in 1..19 : lines[j].oid = ifXEntry \o <<d, k>>
      BY <2>8
    <3>2. (ifXEntry \o <<d, k>>)[3] = 31
      <4>1. d \in Nat /\ k \in Nat
        BY <1>1
      <4> QED BY <4>1, IfXOid
    <3>3. lines[j].oid[3] = 31
      BY <3>1, <3>2, Zenon
    <3> QED BY <2>4, <3>3
  <2> QED BY <2>6, <2>7, <2>8
<1>10. HasColumn(lines, O, count, 6)
  BY <1>7, <1>8, <1>9 DEF HasColumn
<1>11. Ascending(lines)
  BY DEF Inv, RecordsInv
<1>12. Together(lines, O, count)
  <2>1. 6 \in Nat /\ count \in Nat \ {0}
    BY <1>1
  <2>2. lines \in Seq(Record)
    BY <1>6
  <2> QED BY <1>5, <1>10, <1>11, <2>1, <2>2, Walk, Zenon
<1>13. PICK first \in 0..(Len(lines) - count) : \A i \in 1..count : lines[first + i].oid = O[i]
  BY <1>12 DEF Together
<1>14. \A i \in 1..count : lines[first + i].oid = ifEntry \o <<c, i>>
  BY <1>2, <1>13, Zenon
<1> QED BY <1>14

\* So does one of ifXTable, but for ifConnectorPresent and ifAlias.
LEMMA IfXWalk ==
  ASSUME Inv, stage = "done", NEW c \in (1..19) \ {17, 18}
  PROVE  \E first \in 0..(Len(lines) - count) :
           \A i \in 1..count : lines[first + i].oid = ifXEntry \o <<c, i>>
<1> DEFINE O == [i \in 1..count |-> ifXEntry \o <<c, i>>]
<1>1. c \in Nat /\ count \in Nat \ {0}
  BY CountNat DEF Inv
<1>2. \A i \in 1..count : O[i] = ifXEntry \o <<c, i>>
  OBVIOUS
<1>3. ASSUME NEW i \in 1..count
      PROVE  /\ O[i] \in Seq(Nat) /\ Len(O[i]) = 8 /\ O[i][8] = i
             /\ O[i][1] = 2 /\ O[i][3] = 31 /\ O[i][7] = c
  BY <1>1, IfXOid
<1>4. ASSUME NEW i \in 1..count, NEW j \in 1..count, NEW h \in 1..7
      PROVE  O[i][h] = O[j][h]
  <2>1. i \in Nat /\ j \in Nat
    BY <1>1
  <2>2. \A g \in 1..7 : (ifXEntry \o <<c, i>>)[g] = (ifXEntry \o <<c, j>>)[g]
    BY <1>1, <2>1, ColumnPrefix, ZenonT(30)
  <2> QED BY <1>2, <2>2
<1> HIDE DEF O
<1>5. IsColumn(O, count, 7)
  BY <1>3, <1>4 DEF IsColumn
<1>6. Content(lines, count) /\ lines \in Seq(Record)
  BY Done
<1>7. ASSUME NEW i \in 1..count PROVE \E j \in 1..Len(lines) : lines[j].oid = O[i]
  <2>1. PICK j \in 1..Len(lines) : lines[j].oid = ifXEntry \o <<c, i>>
    BY MustBeServed
  <2>2. lines[j].oid = O[i]
    BY <1>2, <2>1, Zenon
  <2> QED BY <2>2
<1>8. ASSUME NEW j \in 1..Len(lines), NEW k \in 1..Len(lines), NEW i \in 1..count,
             lines[j].oid = O[i], lines[k].oid = O[i], j # k
      PROVE  FALSE
  <2>1. PICK x \in 1..count : lines[j].oid = ifXEntry \o <<17, x>>
    <3>1. lines[j].oid = lines[k].oid
      BY <1>8
    <3>2. PICK x \in 1..count : Connector(x, lines[j].oid)
      BY <1>6, <1>8, <3>1 DEF Content
    <3> QED BY <3>2 DEF Connector
  <2>2. ifXEntry \o <<c, i>> = ifXEntry \o <<17, x>>
    BY <1>2, <1>8, <2>1
  <2>3. c = 17
    <3>1. i \in Nat /\ x \in Nat /\ 17 \in Nat
      BY <1>1
    <3> QED BY <1>1, <2>2, <3>1, IfXColumnsApart
  <2> QED BY <2>3
<1>9. ASSUME NEW j \in 1..Len(lines), Begins(lines[j].oid, O[1], 7)
      PROVE  \E i \in 1..count : lines[j].oid = O[i]
  <2>1. 1 \in 1..count
    BY <1>1
  <2>2. 1 \in 1..7 /\ 3 \in 1..7 /\ 7 \in 1..7
    OBVIOUS
  <2>3. \A h \in 1..7 : lines[j].oid[h] = O[1][h]
    BY <1>9 DEF Begins
  <2>4. lines[j].oid[1] = 2 /\ lines[j].oid[3] = 31 /\ lines[j].oid[7] = c
    <3>1. O[1][1] = 2 /\ O[1][3] = 31 /\ O[1][7] = c
      BY <1>3, <2>1
    <3> QED BY <2>2, <2>3, <3>1
  <2>5. Group(lines[j].oid) = 3
    BY <2>4 DEF Group
  <2>6. PICK k \in 1..count : \/ \E d \in 1..22 : lines[j].oid = ifEntry \o <<d, k>>
                              \/ \E d \in 1..19 : lines[j].oid = ifXEntry \o <<d, k>>
    BY <2>5, TableLines
  <2>7. CASE \E d \in 1..22 : lines[j].oid = ifEntry \o <<d, k>>
    <3>1. PICK d \in 1..22 : lines[j].oid = ifEntry \o <<d, k>>
      BY <2>7
    <3>2. (ifEntry \o <<d, k>>)[3] = 2
      <4>1. d \in Nat /\ k \in Nat
        BY <1>1
      <4> QED BY <4>1, IfOid
    <3>3. lines[j].oid[3] = 2
      BY <3>1, <3>2, Zenon
    <3> QED BY <2>4, <3>3
  <2>8. CASE \E d \in 1..19 : lines[j].oid = ifXEntry \o <<d, k>>
    <3>1. PICK d \in 1..19 : lines[j].oid = ifXEntry \o <<d, k>>
      BY <2>8
    <3>2. (ifXEntry \o <<d, k>>)[7] = d
      <4>1. d \in Nat /\ k \in Nat
        BY <1>1
      <4> QED BY <4>1, IfXOid
    <3>3. lines[j].oid[7] = d
      BY <3>1, <3>2, Zenon
    <3>4. d = c
      BY <2>4, <3>3, Zenon
    <3>5. lines[j].oid = O[k]
      BY <1>2, <3>1, <3>4, Zenon
    <3> QED BY <3>5, Zenon
  <2> QED BY <2>6, <2>7, <2>8
<1>10. HasColumn(lines, O, count, 7)
  BY <1>7, <1>8, <1>9 DEF HasColumn
<1>11. Ascending(lines)
  BY DEF Inv, RecordsInv
<1>12. Together(lines, O, count)
  <2>1. 7 \in Nat /\ count \in Nat \ {0}
    BY <1>1
  <2>2. lines \in Seq(Record)
    BY <1>6
  <2> QED BY <1>5, <1>10, <1>11, <2>1, <2>2, Walk, Zenon
<1>13. PICK first \in 0..(Len(lines) - count) : \A i \in 1..count : lines[first + i].oid = O[i]
  BY <1>12 DEF Together
<1>14. \A i \in 1..count : lines[first + i].oid = ifXEntry \o <<c, i>>
  BY <1>2, <1>13, Zenon
<1> QED BY <1>14

\* A column has no line of another table or interface in it.
LEMMA InvWalks == Inv => WalksInterfaces
BY IfWalk, IfXWalk DEF WalksInterfaces

\* A column grows as its one record says.
LEMMA GrowsAsSaid ==
  ASSUME Inv, stage = "done", NEW i \in 1..count
  PROVE  /\ \A c \in 1..22 : Grows(ifEntry \o <<c, i>>) <=> IfColumn(interfaces[i], c).grows
         /\ \A c \in (1..19) \ {18} :
              Grows(ifXEntry \o <<c, i>>) <=> IfXColumn(interfaces[i], c).grows
<1>1. Content(lines, count) /\ DOMAIN lines = 1..Len(lines) /\ count \in Nat
      /\ \A k \in 1..count : interfaces[k] \in Interface /\ interfaces[k].index = k
  BY Done
<1>2. i \in Nat
  BY <1>1
\* A record with such an OID is a column of an interface.
<1>3. ASSUME NEW j \in 1..Len(lines), Group(lines[j].oid) = 3
      PROVE  \E k \in 1..count, d \in Nat :
               \/ lines[j] = IfColumn(interfaces[k], d) /\ lines[j].oid = ifEntry \o <<d, k>>
               \/ lines[j] = IfXColumn(interfaces[k], d) /\ lines[j].oid = ifXEntry \o <<d, k>>
  <2>1. PICK k \in 1..count : lines[j] \in May(k)
    BY <1>1, <1>3 DEF Content
  <2>2. PICK d \in Nat : lines[j] = IfColumn(interfaces[k], d) \/ lines[j] = IfXColumn(interfaces[k], d)
    BY <2>1 DEF May
  <2>3. interfaces[k] \in Interface
    BY <1>1
  <2>4. interfaces[k].index = k
    BY <1>1
  <2>5. /\ IfColumn(interfaces[k], d).oid = ifEntry \o <<d, k>>
        /\ IfXColumn(interfaces[k], d).oid = ifXEntry \o <<d, k>>
    BY <2>3, <2>4, Columns
  <2> QED BY <2>2, <2>5
<1>4. ASSUME NEW c \in 1..22, NEW j \in 1..Len(lines), lines[j].oid = ifEntry \o <<c, i>>
      PROVE  lines[j] = IfColumn(interfaces[i], c)
  <2>1. c \in Nat
    OBVIOUS
  <2>2. Group(lines[j].oid) = 3
    BY <1>2, <1>4, <2>1, ColumnGroup
  <2>3. PICK k \in 1..count, d \in Nat :
          \/ lines[j] = IfColumn(interfaces[k], d) /\ lines[j].oid = ifEntry \o <<d, k>>
          \/ lines[j] = IfXColumn(interfaces[k], d) /\ lines[j].oid = ifXEntry \o <<d, k>>
    BY <1>3, <2>2
  <2>4. k \in Nat
    BY <1>1
  <2>5. ifEntry \o <<c, i>> # ifXEntry \o <<d, k>>
    BY <1>2, <2>1, <2>4, TablesApart
  <2>6. ASSUME ifEntry \o <<c, i>> = ifEntry \o <<d, k>> PROVE c = d /\ i = k
    BY <1>2, <2>1, <2>4, <2>6, IfColumnsApart, SMTT(30)
  <2> QED BY <1>4, <2>3, <2>5, <2>6
<1>5. ASSUME NEW c \in (1..19) \ {18}, NEW j \in 1..Len(lines), lines[j].oid = ifXEntry \o <<c, i>>
      PROVE  lines[j] = IfXColumn(interfaces[i], c)
  <2>1. c \in Nat
    OBVIOUS
  <2>2. Group(lines[j].oid) = 3
    BY <1>2, <1>5, <2>1, ColumnGroup
  <2>3. PICK k \in 1..count, d \in Nat :
          \/ lines[j] = IfColumn(interfaces[k], d) /\ lines[j].oid = ifEntry \o <<d, k>>
          \/ lines[j] = IfXColumn(interfaces[k], d) /\ lines[j].oid = ifXEntry \o <<d, k>>
    BY <1>3, <2>2
  <2>4. k \in Nat
    BY <1>1
  <2>5. ifEntry \o <<d, k>> # ifXEntry \o <<c, i>>
    BY <1>2, <2>1, <2>4, TablesApart
  <2>6. ASSUME ifXEntry \o <<c, i>> = ifXEntry \o <<d, k>> PROVE c = d /\ i = k
    BY <1>2, <2>1, <2>4, <2>6, IfXColumnsApart
  <2> QED BY <1>5, <2>3, <2>5, <2>6
<1>6. ASSUME NEW c \in 1..22
      PROVE  Grows(ifEntry \o <<c, i>>) <=> IfColumn(interfaces[i], c).grows
  <2>1. PICK j \in 1..Len(lines) :
          lines[j] = IfColumn(interfaces[i], c) /\ lines[j].oid = ifEntry \o <<c, i>>
    BY MustBeServed
  <2> DEFINE o == ifEntry \o <<c, i>>
             r == IfColumn(interfaces[i], c)
  <2>2. \A m \in 1..Len(lines) : lines[m].oid = o => lines[m] = r
    BY <1>4
  <2>3. lines[j] = r /\ lines[j].oid = o
    BY <2>1
  <2> HIDE DEF o, r
  <2>4. Grows(o) <=> r.grows
    BY <1>1, <2>2, <2>3 DEF Grows
  <2> QED BY <2>4 DEF o, r
<1>7. ASSUME NEW c \in (1..19) \ {18}
      PROVE  Grows(ifXEntry \o <<c, i>>) <=> IfXColumn(interfaces[i], c).grows
  <2>1. PICK j \in 1..Len(lines) :
          lines[j] = IfXColumn(interfaces[i], c) /\ lines[j].oid = ifXEntry \o <<c, i>>
    BY MustBeServed
  <2> DEFINE o == ifXEntry \o <<c, i>>
             r == IfXColumn(interfaces[i], c)
  <2>2. \A m \in 1..Len(lines) : lines[m].oid = o => lines[m] = r
    BY <1>5
  <2>3. lines[j] = r /\ lines[j].oid = o
    BY <2>1
  <2> HIDE DEF o, r
  <2>4. Grows(o) <=> r.grows
    BY <1>1, <2>2, <2>3 DEF Grows
  <2> QED BY <2>4 DEF o, r
<1> QED BY <1>6, <1>7

\* Which columns grow.
LEMMA CountersOfPort ==
  ASSUME Inv, stage = "done", NEW i \in 1..count
  PROVE  /\ Grows(ifEntry \o <<10, i>>) <=> interfaces[i].oper
         /\ Grows(ifEntry \o <<16, i>>) <=> interfaces[i].oper
         /\ Grows(ifEntry \o <<11, i>>) /\ Grows(ifEntry \o <<17, i>>)
         /\ Grows(ifXEntry \o <<6, i>>) <=> interfaces[i].oper
         /\ Grows(ifXEntry \o <<10, i>>) <=> interfaces[i].oper
         /\ Grows(ifXEntry \o <<7, i>>) /\ Grows(ifXEntry \o <<11, i>>)
<1> DEFINE f == interfaces[i]
<1>1. /\ \A c \in 1..22 : Grows(ifEntry \o <<c, i>>) <=> IfColumn(f, c).grows
      /\ \A c \in (1..19) \ {18} : Grows(ifXEntry \o <<c, i>>) <=> IfXColumn(f, c).grows
  BY GrowsAsSaid
<1>2. f.oper \in BOOLEAN
  <2>1. interfaces[i] \in Interface
    BY Done
  <2> QED BY <2>1 DEF Interface
<1> HIDE DEF f
<1>3. /\ IfColumn(f, 10).grows <=> f.oper
      /\ IfColumn(f, 16).grows <=> f.oper
      /\ IfColumn(f, 11).grows /\ IfColumn(f, 17).grows
  BY <1>2 DEF IfColumn, Counter
<1>4. /\ IfXColumn(f, 6).grows <=> f.oper
      /\ IfXColumn(f, 10).grows <=> f.oper
      /\ IfXColumn(f, 7).grows /\ IfXColumn(f, 11).grows
  BY <1>2 DEF IfXColumn, Counter
<1>5. /\ Grows(ifEntry \o <<10, i>>) <=> IfColumn(f, 10).grows
      /\ Grows(ifEntry \o <<16, i>>) <=> IfColumn(f, 16).grows
      /\ Grows(ifEntry \o <<11, i>>) <=> IfColumn(f, 11).grows
      /\ Grows(ifEntry \o <<17, i>>) <=> IfColumn(f, 17).grows
  BY <1>1
<1>6. /\ Grows(ifXEntry \o <<6, i>>) <=> IfXColumn(f, 6).grows
      /\ Grows(ifXEntry \o <<10, i>>) <=> IfXColumn(f, 10).grows
      /\ Grows(ifXEntry \o <<7, i>>) <=> IfXColumn(f, 7).grows
      /\ Grows(ifXEntry \o <<11, i>>) <=> IfXColumn(f, 11).grows
  BY <1>1
<1> QED BY <1>3, <1>4, <1>5, <1>6 DEF f

\* A counter of an interface is in both tables, and grows in both or in neither.
LEMMA InvCountersAgree == Inv => CountersAgree
<1> SUFFICES ASSUME Inv, stage = "done", NEW i \in 1..count
             PROVE  /\ Grows(ifEntry \o <<10, i>>) = interfaces[i].oper
                    /\ Grows(ifEntry \o <<16, i>>) = interfaces[i].oper
                    /\ Grows(ifEntry \o <<10, i>>) = Grows(ifXEntry \o <<6, i>>)
                    /\ Grows(ifEntry \o <<11, i>>) = Grows(ifXEntry \o <<7, i>>)
                    /\ Grows(ifEntry \o <<16, i>>) = Grows(ifXEntry \o <<10, i>>)
                    /\ Grows(ifEntry \o <<17, i>>) = Grows(ifXEntry \o <<11, i>>)
  BY DEF CountersAgree
<1>1. interfaces[i].oper \in BOOLEAN
  <2>1. interfaces[i] \in Interface
    BY Done
  <2> QED BY <2>1 DEF Interface
<1>2. \A oid : Grows(oid) \in BOOLEAN
  BY DEF Grows
<1> QED BY <1>1, <1>2, CountersOfPort

-----------------------------------------------------------------------------
(* The flows.                                                              *)

\* A port that is up, and not the loopback.
InUse(port) == interfaces[port].oper /\ interfaces[port].type # 24

\* The ports of generate_flows() are in use if a port is.
LEMMA ActivePorts ==
  ASSUME interfaces \in Seq(Interface), \A i \in 1..Len(interfaces) : interfaces[i].index = i,
         \E i \in 1..Len(interfaces) : InUse(i)
  PROVE  /\ ActiveInterfaces \in Seq(1..Len(interfaces)) /\ Len(ActiveInterfaces) > 0
         /\ \A n \in 1..Len(ActiveInterfaces) : InUse(ActiveInterfaces[n])
<1> DEFINE N == Len(interfaces)
           S == Seq(1..N)
           Step(n, s) == IF interfaces[n].oper /\ interfaces[n].type # 24
                         THEN Append(s, interfaces[n].index) ELSE s
           G == [n \in 1..N |-> [s \in S |-> Step(n, s)]]
           up == CHOOSE f : f = [n \in 0..N |-> IF n = 0 THEN <<>> ELSE Step(n, f[n - 1])]
           base == <<>>
           Good(n) == /\ up[n] \in S
                      /\ \A i \in 1..Len(up[n]) : InUse(up[n][i])
                      /\ (\E i \in 1..n : InUse(i)) => Len(up[n]) > 0
           Right == {n \in 0..N : Good(n)}
<1>1. N \in Nat
  OBVIOUS
<1>2. ASSUME NEW n \in 1..N, NEW s \in S
      PROVE  /\ Step(n, s) \in S
             /\ InUse(n) => /\ Len(Step(n, s)) = Len(s) + 1 /\ Step(n, s)[Len(s) + 1] = n
                            /\ \A i \in 1..Len(s) : Step(n, s)[i] = s[i]
             /\ ~InUse(n) => Step(n, s) = s
  <2>1. interfaces[n].index = n
    OBVIOUS
  <2>2. s \in Seq(1..N)
    OBVIOUS
  <2>3. CASE InUse(n)
    <3>1. Step(n, s) = Append(s, n)
      BY <2>1, <2>3 DEF InUse
    <3>2. /\ Append(s, n) \in Seq(1..N) /\ Len(Append(s, n)) = Len(s) + 1
          /\ Append(s, n)[Len(s) + 1] = n /\ \A i \in 1..Len(s) : Append(s, n)[i] = s[i]
      BY <2>2, AppendProperties
    <3> HIDE DEF Step
    <3> QED BY <2>3, <3>1, <3>2
  <2>4. CASE ~InUse(n)
    <3>1. Step(n, s) = s
      BY <2>4 DEF InUse
    <3> HIDE DEF Step
    <3> QED BY <2>4, <3>1
  <2> QED BY <2>3, <2>4
<1>3. G \in [1..N -> [S -> S]]
  <2> HIDE DEF S, Step, N
  <2> QED BY <1>2
<1>4. base \in S
  OBVIOUS
<1>5. \E f : Follows(f, N, S, base, G)
  <2> HIDE DEF N, S, G, base
  <2> QED BY <1>1, <1>3, <1>4, Recursion
<1>6. PICK f : f \in [0..N -> S] /\ f[0] = <<>> /\ \A n \in 1..N : f[n] = G[n][f[n - 1]]
  BY <1>5 DEF Follows
<1>7. f = [n \in 0..N |-> IF n = 0 THEN <<>> ELSE Step(n, f[n - 1])]
  <2>1. \A n \in 1..N : n - 1 \in 0..N /\ f[n - 1] \in S
    <3> HIDE DEF N, G, S
    <3>1. \A n \in 1..N : n - 1 \in 0..N
      BY <1>1
    <3> QED BY <1>6, <3>1
  <2> HIDE DEF N, S, Step
  <2>2. \A n \in 1..N : f[n] = Step(n, f[n - 1])
    BY <1>6, <2>1
  <2> HIDE DEF G
  <2> QED BY <1>1, <1>6, <2>2
<1>8. up = [n \in 0..N |-> IF n = 0 THEN <<>> ELSE Step(n, up[n - 1])]
  <2> HIDE DEF N, Step
  <2> QED BY <1>7
<1>9. ActiveInterfaces = IF up[N] = <<>> THEN <<1>> ELSE up[N]
  BY DEF ActiveInterfaces
<1> HIDE DEF up, G, N, S, Step
<1>10. up[0] = <<>> /\ \A n \in 1..N : up[n] = Step(n, up[n - 1])
  <2>1. 0 \in 0..N
    BY <1>1
  <2>2. up[0] = <<>>
    BY <1>8, <2>1
  <2>3. ASSUME NEW n \in 1..N PROVE up[n] = Step(n, up[n - 1])
    <3>1. n \in 0..N /\ n # 0
      BY <1>1
    <3> QED BY <1>8, <3>1
  <2> QED BY <2>2, <2>3
<1>11. 0 \in Right
  <2>1. Len(up[0]) = 0 /\ up[0] \in S
    BY <1>4, <1>10
  <2> QED BY <1>1, <2>1
<1>12. ASSUME NEW n \in 1..N, n - 1 \in Right PROVE n \in Right
  <2> DEFINE s == up[n - 1]
             t == up[n]
  <2>1. s \in S
    BY <1>12
  <2>2. /\ \A i \in 1..Len(s) : InUse(s[i])
        /\ (\E i \in 1..(n - 1) : InUse(i)) => Len(s) > 0
    BY <1>12
  <2>3. t = Step(n, s)
    BY <1>10
  <2> HIDE DEF s, t
  <2>4. Len(s) \in Nat
    BY <2>1 DEF S
  <2>5. CASE InUse(n)
    <3>1. /\ t \in S /\ Len(t) = Len(s) + 1 /\ t[Len(s) + 1] = n
          /\ \A i \in 1..Len(s) : t[i] = s[i]
      BY <1>2, <2>1, <2>3, <2>5
    <3>2. ASSUME NEW i \in 1..Len(t) PROVE InUse(t[i])
      <4>1. i \in 1..Len(s) \/ i = Len(s) + 1
        BY <2>4, <3>1
      <4> QED BY <2>2, <2>5, <3>1, <4>1
    <3>3. Len(t) > 0
      BY <2>4, <3>1
    <3> QED BY <1>1, <3>1, <3>2, <3>3 DEF t
  <2>6. CASE ~InUse(n)
    <3>1. t = s
      BY <1>2, <2>1, <2>3, <2>6
    <3>2. (\E i \in 1..n : InUse(i)) => (\E i \in 1..(n - 1) : InUse(i))
      BY <1>1, <2>6
    <3>3. Good(n)
      BY <2>1, <2>2, <3>1, <3>2 DEF t
    <3> HIDE DEF Good
    <3> QED BY <1>1, <3>3
  <2> QED BY <2>5, <2>6
<1>13. N \in Right
  <2> HIDE DEF Right
  <2>1. 0..N \subseteq Right
    BY <1>1, <1>11, <1>12, Upwards
  <2> QED BY <1>1, <2>1
<1> DEFINE u == up[N]
<1>14. u \in S /\ Len(u) > 0 /\ \A i \in 1..Len(u) : InUse(u[i])
  BY <1>13 DEF N
<1> HIDE DEF u
<1>15. u # <<>>
  BY <1>14
<1>16. ActiveInterfaces = u
  BY <1>9, <1>15 DEF u
<1> QED BY <1>14, <1>16 DEF S, N

\* A device that has more than its loopback has a port in use.
LEMMA SomePortInUse ==
  ASSUME Inv, stage = "done"
  PROVE  \E i \in 1..Len(interfaces) : InUse(i)
<1>1. /\ count \in Nat \ {0} /\ Len(interfaces) = count
      /\ \A i \in 1..count : /\ interfaces[i].type = IF IsLoopback(NameAt(type, i)) THEN 24 ELSE 6
                             /\ interfaces[i].oper = ~ForcedDown(i, NameAt(type, i))
  BY CountNat, Done DEF Inv, InterfacesBuiltInv
<1>2. type \in DeviceType /\ count \in Counts[type]
  BY DEF Inv, Typed
<1>3. CASE type \in {"router", "generic"}
  <2>1. count # 1
    BY <1>2, <1>3, PortAssumption
  <2>2. 2 \in 1..count /\ ~(2 = count /\ count > 3)
    BY <1>1, <2>1
  <2>3. ~IsLoopback(NameAt(type, 2))
    BY <1>2, NameFacts
  <2>4. interfaces[2].type = 6 /\ interfaces[2].oper = ~ForcedDown(2, NameAt(type, 2))
    BY <1>1, <2>2, <2>3
  <2>5. ~ForcedDown(2, NameAt(type, 2))
    BY <1>1, <2>2, <2>3 DEF ForcedDown
  <2>6. interfaces[2].oper
    BY <2>4, <2>5, Zenon
  <2>7. interfaces[2].type # 24
    BY <2>4
  <2>8. InUse(2)
    BY <2>6, <2>7, Zenon DEF InUse
  <2> QED BY <1>1, <2>2, <2>8
<1>4. CASE type \notin {"router", "generic"}
  <2>1. 1 \in 1..count /\ ~(1 = count /\ count > 3)
    BY <1>1
  <2>2. ~IsLoopback(NameAt(type, 1))
    BY <1>2, <1>4, NameFacts
  <2>3. interfaces[1].type = 6 /\ interfaces[1].oper = ~ForcedDown(1, NameAt(type, 1))
    BY <1>1, <2>1, <2>2
  <2>4. ~ForcedDown(1, NameAt(type, 1))
    BY <1>1, <2>1, <2>2 DEF ForcedDown
  <2>5. interfaces[1].oper
    BY <2>3, <2>4, Zenon
  <2>6. interfaces[1].type # 24
    BY <2>3
  <2>7. InUse(1)
    BY <2>5, <2>6, Zenon DEF InUse
  <2> QED BY <1>1, <2>1, <2>7
<1> QED BY <1>3, <1>4

\* The ports of a flow are among them, and their counters grow.
LEMMA InvPortsInUse == Inv => PortsInUse
<1> SUFFICES ASSUME Inv, stage = "done", NEW i \in 0..(FlowCount[profile] - 1), NEW k \in 1..2
             PROVE  LET port == FlowPorts(i)[k]
                    IN  /\ interfaces[port].oper /\ interfaces[port].type = 6
                        /\ Grows(ifEntry \o <<10, port>>) /\ Grows(ifEntry \o <<16, port>>)
  BY DEF PortsInUse
<1> DEFINE a == ActiveInterfaces
           port == FlowPorts(i)[k]
<1>1. /\ interfaces \in Seq(Interface) /\ Len(interfaces) = count
      /\ \A j \in 1..count : interfaces[j] \in Interface /\ interfaces[j].index = j
  BY Done
<1>2. a \in Seq(1..count) /\ Len(a) > 0 /\ \A n \in 1..Len(a) : InUse(a[n])
  <2>1. interfaces \in Seq(Interface) /\ \A j \in 1..Len(interfaces) : interfaces[j].index = j
    BY <1>1
  <2>2. \E j \in 1..Len(interfaces) : InUse(j)
    BY SomePortInUse
  <2>3. /\ a \in Seq(1..Len(interfaces)) /\ Len(a) > 0
        /\ \A n \in 1..Len(a) : InUse(a[n])
    BY <2>1, <2>2, ActivePorts
  <2> HIDE DEF a
  <2> QED BY <1>1, <2>3
<1>3. \E n \in 1..Len(a) : port = a[n]
  <2>1. profile \in Profile
    BY DEF Inv, Typed
  <2>2. FlowCount[profile] \in Nat
    BY <2>1 DEF Profile, FlowCount
  <2>3. i \in Nat
    BY <2>2
  <2> DEFINE m == Len(a)
             n == i % m
  <2>4. m \in Nat /\ m > 0
    BY <1>2
  <2>5. FlowPorts(i) = IF i % 3 # 0 THEN <<a[1], a[1 + n]>> ELSE <<a[1 + n], a[1]>>
    BY DEF FlowPorts
  <2> HIDE DEF m, a
  <2>6. n \in 0..(m - 1)
    BY <2>3, <2>4
  <2> HIDE DEF n
  <2>7. 1 \in 1..m /\ 1 + n \in 1..m
    BY <2>4, <2>6
  <2>8. port = a[1] \/ port = a[1 + n]
    BY <2>5
  <2> QED BY <2>7, <2>8 DEF m
<1> HIDE DEF port
<1>4. port \in 1..count /\ InUse(port)
  <2>1. PICK n \in 1..Len(a) : port = a[n]
    BY <1>3
  <2> HIDE DEF a
  <2>2. a[n] \in 1..count
    BY <1>2, ElementOfSeq
  <2> QED BY <1>2, <2>1, <2>2
<1>5. interfaces[port].oper /\ interfaces[port].type = 6
  <2>1. interfaces[port] \in Interface
    BY <1>1, <1>4
  <2> QED BY <1>4, <2>1 DEF Interface, InUse
<1>6. Grows(ifEntry \o <<10, port>>) /\ Grows(ifEntry \o <<16, port>>)
  BY <1>4, <1>5, CountersOfPort
<1> QED BY <1>5, <1>6 DEF port

\* A product with a greater factor is no less.
LEMMA TimesMonotone ==
  ASSUME NEW a \in Nat, NEW b \in Nat, NEW c \in Nat, a <= b
  PROVE  a * c <= b * c
OBVIOUS

\* All the flows of a tick together report less than a port counts.
LEMMA AllFlows ==
  ASSUME profile \in Profile
  PROVE  /\ FlowCount[profile] \in Nat /\ Max(Octets) \in Nat
         /\ FlowCount[profile] * Max(Octets) <= (Rates[profile].in \div 100) * 55 * Interval
         /\ FlowCount[profile] * Max(Octets) <= (Rates[profile].out \div 100) * 55 * Interval
<1> DEFINE n == FlowCount[profile]
           x == TotalBytes
           a == AtLeast(x \div (2 * n), 64)
           b == AtLeast((x - 1) \div n, 64)
<1>1. Interval \in Nat /\ Interval >= 1
  BY IntervalAssumption
<1>2. /\ n \in {4, 12, 24} /\ x \in Nat /\ x >= n * 800
      /\ x <= (Rates[profile].in \div 100) * 55 * Interval
      /\ x <= (Rates[profile].out \div 100) * 55 * Interval
  <2>1. CASE profile = "high"
    <3>1. n = 24 /\ Rates[profile].in = 75000000 /\ Rates[profile].out = 55000000
      BY <2>1 DEF FlowCount, Rates
    <3>2. x = AtLeast(19500000 * Interval, 19200)
      BY <3>1 DEF TotalBytes
    <3>3. x = 19500000 * Interval
      BY <1>1, <3>2 DEF AtLeast
    <3> HIDE DEF n, x
    <3> QED BY <1>1, <3>1, <3>3
  <2>2. CASE profile = "medium"
    <3>1. n = 12 /\ Rates[profile].in = 12000000 /\ Rates[profile].out = 9000000
      BY <2>2 DEF FlowCount, Rates
    <3>2. x = AtLeast(3150000 * Interval, 9600)
      BY <3>1 DEF TotalBytes
    <3>3. x = 3150000 * Interval
      BY <1>1, <3>2 DEF AtLeast
    <3> HIDE DEF n, x
    <3> QED BY <1>1, <3>1, <3>3
  <2>3. CASE profile = "low"
    <3>1. n = 4 /\ Rates[profile].in = 700000 /\ Rates[profile].out = 450000
      BY <2>3 DEF FlowCount, Rates
    <3>2. x = AtLeast(172500 * Interval, 3200)
      BY <3>1 DEF TotalBytes
    <3>3. x = 172500 * Interval
      BY <1>1, <3>2 DEF AtLeast
    <3> HIDE DEF n, x
    <3> QED BY <1>1, <3>1, <3>3
  <2> QED BY <2>1, <2>2, <2>3 DEF Profile
<1>3. a \in Nat /\ b \in Nat /\ n * a <= x /\ n * b <= x
  <2> HIDE DEF n, x
  <2>1. CASE n = 4
    BY <1>2, <2>1 DEF AtLeast
  <2>2. CASE n = 12
    BY <1>2, <2>2 DEF AtLeast
  <2>3. CASE n = 24
    BY <1>2, <2>3 DEF AtLeast
  <2> QED BY <1>2, <2>1, <2>2, <2>3
<1>4. Octets = {a, b}
  BY DEF Octets
<1> HIDE DEF a, b, n, x
<1>5. Max(Octets) \in {a, b}
  <2>1. \E y \in {a, b} : \A z \in {a, b} : y >= z
    BY <1>3
  <2> QED BY <1>4, <2>1 DEF Max
<1>6. Max(Octets) \in Nat /\ n * Max(Octets) <= x /\ n * Max(Octets) \in Nat
  BY <1>2, <1>3, <1>5
<1>7. (Rates[profile].in \div 100) * 55 * Interval \in Nat
      /\ (Rates[profile].out \div 100) * 55 * Interval \in Nat
  BY <1>1 DEF Rates, Profile
<1> QED BY <1>2, <1>6, <1>7 DEF n

\* No port has more flows than there are.
LEMMA InvWithinCounters == Inv => WithinCounters
<1> SUFFICES ASSUME Inv PROVE WithinCounters
  OBVIOUS
<1>1. profile \in Profile
  BY DEF Inv, Typed
<1> DEFINE n == FlowCount[profile]
           x == Max(Octets)
<1>2. n \in Nat /\ x \in Nat
  BY <1>1, AllFlows
<1>3. n * x \in Nat
  BY <1>2
<1>4. /\ n * x <= (Rates[profile].in \div 100) * 55 * Interval
      /\ n * x <= (Rates[profile].out \div 100) * 55 * Interval
  BY <1>1, AllFlows
<1>5. ASSUME NEW port, NEW k
      PROVE  Reported(port, k) \in Nat /\ Reported(port, k) <= n * x
  <2> DEFINE T == {i \in 0..(n - 1) : FlowPorts(i)[k] = port}
  <2>1. Reported(port, k) = Cardinality(T) * x
    BY DEF Reported
  <2> HIDE DEF n, x
  <2>2. IsFiniteSet(0..(n - 1)) /\ Cardinality(0..(n - 1)) = n
    <3>1. /\ IsFiniteSet(0..(n - 1))
          /\ Cardinality(0..(n - 1)) = IF 0 > n - 1 THEN 0 ELSE (n - 1) - 0 + 1
      BY <1>2, FS_Interval
    <3> QED BY <1>2, <3>1
  <2>3. T \subseteq 0..(n - 1)
    OBVIOUS
  <2> HIDE DEF T
  <2>4. Cardinality(T) <= n /\ Cardinality(T) \in Nat
    BY <2>2, <2>3, FS_Subset, FS_CardinalityType
  <2>5. Cardinality(T) * x <= n * x /\ Cardinality(T) * x \in Nat
    BY <1>2, <2>4, TimesMonotone
  <2> QED BY <2>1, <2>5
<1>6. /\ (Rates[profile].in \div 100) * 55 * Interval \in Nat
      /\ (Rates[profile].out \div 100) * 55 * Interval \in Nat
  BY <1>1, IntervalAssumption DEF Rates, Profile
<1> HIDE DEF n, x
<1>7. ASSUME NEW port
      PROVE  /\ Reported(port, 1) <= (Rates[profile].in \div 100) * 55 * Interval
             /\ Reported(port, 2) <= (Rates[profile].out \div 100) * 55 * Interval
  <2>1. Reported(port, 1) \in Nat /\ Reported(port, 1) <= n * x
    BY <1>5
  <2>2. Reported(port, 2) \in Nat /\ Reported(port, 2) <= n * x
    BY <1>5
  <2> HIDE DEF Reported
  <2> DEFINE p == (Rates[profile].in \div 100) * 55 * Interval
             q == (Rates[profile].out \div 100) * 55 * Interval
  <2>3. p \in Nat /\ q \in Nat /\ n * x <= p /\ n * x <= q
    BY <1>4, <1>6
  <2> HIDE DEF p, q
  <2>4. Reported(port, 1) <= p /\ Reported(port, 2) <= q
    BY <1>3, <2>1, <2>2, <2>3
  <2> QED BY <2>4 DEF p, q
<1> QED BY <1>7 DEF WithinCounters

-----------------------------------------------------------------------------
(* The properties, for every device type and count.                        *)

\* Every state of generate_records() has the types that its variables are declared with:
\* whatever is emitted is a record, and the emitters run in the order of Stage.
THEOREM RecordsTypeOK == Spec => []TypeOK
<1>1. Inv => TypeOK
  BY InvTypeOK
<1> QED BY SpecInv, <1>1, PTL

\* build_interfaces() gives as many interfaces as the device has, no name twice, at most one
\* port down, never the loopback or the management port, and none up that is not enabled.
THEOREM InterfacesPlausible == Spec => []PlausibleInterfaces
<1>1. Inv => PlausibleInterfaces
  BY InvPlausible
<1> QED BY SpecInv, <1>1, PTL

\* lines.sort(key=oid_sort_key) puts the lines of every column of the interface tables one
\* behind the other, by ifIndex, so that a walk of it visits each interface once and nothing
\* else, whatever the number of interfaces: port 10 comes behind port 9 and not behind port 1.
THEOREM InterfacesWalk == Spec => []WalksInterfaces
<1>1. Inv => WalksInterfaces
  BY InvWalks
<1> QED BY SpecInv, <1>1, PTL

\* Every interface has every column in both interface tables, but for ifAlias, which the
\* correction at the end of a row may take out, and no OID is served twice but for the
\* ifConnectorPresent that it leaves.
THEOREM TablesAreComplete == Spec => []TablesComplete
<1>1. Inv => TablesComplete
  BY InvTablesComplete
<1> QED BY SpecInv, <1>1, PTL

\* The 32-bit and the 64-bit counters of an interface, which two functions emit, grow together
\* or not at all, and its octet counters grow exactly if it is up.
THEOREM CountersAlwaysAgree == Spec => []CountersAgree
<1>1. Inv => CountersAgree
  BY InvCountersAgree
<1> QED BY SpecInv, <1>1, PTL

\* generate_flows() sends a flow through a port only if the tables show it up and counting.
THEOREM FlowPortsInUse == Spec => []PortsInUse
<1>1. Inv => PortsInUse
  BY InvPortsInUse
<1> QED BY SpecInv, <1>1, PTL

\* The flows of a tick never report more octets for a port than its SNMP counters grow by,
\* however long the tick.
THEOREM FlowsWithinCounters == Spec => []WithinCounters
<1>1. Inv => WithinCounters
  BY InvWithinCounters
<1> QED BY SpecInv, <1>1, PTL

-----------------------------------------------------------------------------
(* The layout of the records of a packet.                                  *)

\* The fields follow each other without a gap.
LEMMA FieldsFollow ==
  ASSUME NEW layout, NEW N \in Nat, Len(layout) = N, \A n \in 1..N : layout[n][2] \in Nat
  PROVE  /\ Ends(layout) \in [0..N -> Nat] /\ Ends(layout)[0] = 0
         /\ \A n \in 1..N : Ends(layout)[n] = Ends(layout)[n - 1] + layout[n][2]
<1> DEFINE G == [n \in 1..N |-> [x \in Nat |-> x + layout[n][2]]]
           Is(f) == f = [n \in 0..N |-> IF n = 0 THEN 0 ELSE f[n - 1] + layout[n][2]]
<1>1. G \in [1..N -> [Nat -> Nat]]
  OBVIOUS
<1>2. \A n \in 1..N, x \in Nat : G[n][x] = x + layout[n][2]
  OBVIOUS
<1>3. PICK f : Follows(f, N, Nat, 0, G)
  <2> HIDE DEF G
  <2> QED BY <1>1, Recursion
<1> HIDE DEF G
<1>4. f \in [0..N -> Nat] /\ f[0] = 0 /\ \A n \in 1..N : f[n] = f[n - 1] + layout[n][2]
  <2>1. \A n \in 1..N : f[n - 1] \in Nat
    BY <1>3 DEF Follows
  <2> QED BY <1>2, <1>3, <2>1 DEF Follows
<1>5. Is(f)
  BY <1>4
<1>6. Is(Ends(layout))
  <2>1. Ends(layout) = CHOOSE g : Is(g)
    BY DEF Ends
  <2> HIDE DEF Is
  <2> QED BY <1>5, <2>1
<1> DEFINE e == Ends(layout)
<1>7. e = [n \in 0..N |-> IF n = 0 THEN 0 ELSE e[n - 1] + layout[n][2]]
  BY <1>6
<1> HIDE DEF e
<1>8. DOMAIN e = 0..N /\ e[0] = 0 /\ \A n \in 1..N : e[n] = e[n - 1] + layout[n][2]
  BY <1>7
<1>9. 0..N \subseteq {n \in 0..N : e[n] \in Nat}
  <2> DEFINE S == {n \in 0..N : e[n] \in Nat}
  <2>1. 0 \in S
    BY <1>8
  <2>2. ASSUME NEW n \in 1..N, n - 1 \in S PROVE n \in S
    <3>1. e[n - 1] \in Nat /\ e[n] = e[n - 1] + layout[n][2]
      BY <1>8, <2>2
    <3> QED BY <3>1
  <2> HIDE DEF S
  <2>3. 0..N \subseteq S
    BY <2>1, <2>2, Upwards
  <2> QED BY <2>3 DEF S
<1>10. e \in [0..N -> Nat]
  BY <1>7, <1>8, <1>9
<1> QED BY <1>8, <1>10 DEF e

\* The fields of a record and of the template are of the same size and meaning, one by one.
LEMMA V9Fields ==
  /\ Len(V9Record) = 15 /\ Len(V9Template) = 15
  /\ DOMAIN V9Record = 1..15 /\ DOMAIN V9Template = 1..15
  /\ \A t \in 1..15 : /\ V9Record[t][2] \in Nat /\ V9Template[t][2] = V9Record[t][2]
                      /\ V9Record[t][1] = V9Meaning[V9Template[t][1]]
<1>1. /\ Len(V9Record) = 15 /\ Len(V9Template) = 15
      /\ DOMAIN V9Record = 1..15 /\ DOMAIN V9Template = 1..15
  BY DEF V9Record, V9Template, Leading
<1>2. ASSUME NEW t \in 1..15 PROVE V9Record[t][2] \in Nat /\ V9Template[t][2] = V9Record[t][2]
  BY DEF V9Record, V9Template, Leading
<1>3. ASSUME NEW t \in 1..15 PROVE V9Record[t][1] = V9Meaning[V9Template[t][1]]
  <2>1. /\ V9Meaning[8] = "src" /\ V9Meaning[12] = "dst" /\ V9Meaning[15] = "nexthop"
        /\ V9Meaning[10] = "input_if" /\ V9Meaning[14] = "output_if" /\ V9Meaning[2] = "packets"
        /\ V9Meaning[1] = "octets" /\ V9Meaning[22] = "first_ms" /\ V9Meaning[21] = "last_ms"
        /\ V9Meaning[7] = "src_port" /\ V9Meaning[11] = "dst_port" /\ V9Meaning[4] = "protocol"
        /\ V9Meaning[5] = "tos" /\ V9Meaning[6] = "tcp_flags" /\ V9Meaning[61] = "direction"
    BY DEF V9Meaning
  <2>2. /\ V9Template[1][1] = 8 /\ V9Template[2][1] = 12 /\ V9Template[3][1] = 15
        /\ V9Template[4][1] = 10 /\ V9Template[5][1] = 14 /\ V9Template[6][1] = 2
        /\ V9Template[7][1] = 1 /\ V9Template[8][1] = 22 /\ V9Template[9][1] = 21
        /\ V9Template[10][1] = 7 /\ V9Template[11][1] = 11 /\ V9Template[12][1] = 4
        /\ V9Template[13][1] = 5 /\ V9Template[14][1] = 6 /\ V9Template[15][1] = 61
    BY DEF V9Template
  <2>3. /\ V9Record[1][1] = "src" /\ V9Record[2][1] = "dst" /\ V9Record[3][1] = "nexthop"
        /\ V9Record[4][1] = "input_if" /\ V9Record[5][1] = "output_if" /\ V9Record[6][1] = "packets"
        /\ V9Record[7][1] = "octets" /\ V9Record[8][1] = "first_ms" /\ V9Record[9][1] = "last_ms"
        /\ V9Record[10][1] = "src_port" /\ V9Record[11][1] = "dst_port" /\ V9Record[12][1] = "protocol"
        /\ V9Record[13][1] = "tos" /\ V9Record[14][1] = "tcp_flags" /\ V9Record[15][1] = "direction"
    BY DEF V9Record, Leading
  <2>4. \/ t = 1 \/ t = 2 \/ t = 3 \/ t = 4 \/ t = 5 \/ t = 6 \/ t = 7 \/ t = 8
        \/ t = 9 \/ t = 10 \/ t = 11 \/ t = 12 \/ t = 13 \/ t = 14 \/ t = 15
    OBVIOUS
  <2> QED BY <2>1, <2>2, <2>3, <2>4
<1> QED BY <1>1, <1>2, <1>3

\* Where the template and a record have fields of the same size, each field is at the same place.
LEMMA V9Places == \A t \in 0..15 : Ends(V9Template)[t] = Ends(V9Record)[t]
<1> DEFINE a == Ends(V9Template)
           b == Ends(V9Record)
           S == {t \in 0..15 : a[t] = b[t]}
<1>1. /\ a[0] = 0 /\ \A n \in 1..15 : a[n] = a[n - 1] + V9Template[n][2]
      /\ b[0] = 0 /\ \A n \in 1..15 : b[n] = b[n - 1] + V9Record[n][2]
  <2>1. /\ Len(V9Template) = 15 /\ Len(V9Record) = 15
        /\ \A n \in 1..15 : V9Record[n][2] \in Nat
    BY V9Fields
  <2>2. \A n \in 1..15 : V9Template[n][2] \in Nat
    BY V9Fields
  <2>3. a[0] = 0 /\ \A n \in 1..15 : a[n] = a[n - 1] + V9Template[n][2]
    BY <2>1, <2>2, FieldsFollow
  <2>4. b[0] = 0 /\ \A n \in 1..15 : b[n] = b[n - 1] + V9Record[n][2]
    BY <2>1, FieldsFollow
  <2> QED BY <2>3, <2>4
<1>2. 0 \in S
  BY <1>1
<1>3. ASSUME NEW n \in 1..15, n - 1 \in S PROVE n \in S
  BY <1>1, <1>3, V9Fields
<1> HIDE DEF S
<1>4. 0..15 \subseteq S
  BY <1>2, <1>3, Upwards
<1> QED BY <1>4 DEF S

\* Each field of the template is found, and is the one that it is taken for.
LEMMA V9FieldsFound ==
  ASSUME NEW t \in 1..15
  PROVE  V9Meaning[V9Template[t][1]] \in Found(t, V9Template, V9Record)
<1>1. V9Template[t][2] = V9Record[t][2] /\ V9Record[t][1] = V9Meaning[V9Template[t][1]]
      /\ t \in DOMAIN V9Record
  BY V9Fields
<1>2. Offset(V9Template, t) = Offset(V9Record, t)
  BY V9Places DEF Offset
<1> QED BY <1>1, <1>2 DEF Found

\* The sizes of the records of both versions.
LEMMA RecordSizes == Bytes(V5Record) = 48 /\ Bytes(V9Record) = 40
<1>1. Bytes(V9Record) = 40
  <2>1. Len(V9Record) = 15
    BY DEF V9Record, Leading
  <2>2. /\ V9Record[1][2] = 4 /\ V9Record[2][2] = 4 /\ V9Record[3][2] = 4
        /\ V9Record[4][2] = 2 /\ V9Record[5][2] = 2 /\ V9Record[6][2] = 4
    BY DEF V9Record, Leading
  <2>3. /\ V9Record[7][2] = 4 /\ V9Record[8][2] = 4 /\ V9Record[9][2] = 4
        /\ V9Record[10][2] = 2 /\ V9Record[11][2] = 2
    BY DEF V9Record, Leading
  <2>4. /\ V9Record[12][2] = 1 /\ V9Record[13][2] = 1 /\ V9Record[14][2] = 1
        /\ V9Record[15][2] = 1
    BY DEF V9Record, Leading
  <2> DEFINE e == Ends(V9Record)
  <2>5. e[0] = 0 /\ \A n \in 1..15 : e[n] = e[n - 1] + V9Record[n][2]
    <3>1. \A n \in 1..15 : V9Record[n][2] \in Nat
      BY V9Fields
    <3> QED BY <2>1, <3>1, FieldsFollow
  <2> HIDE DEF e
  <2>6. e[1] = 4 /\ e[2] = 8 /\ e[3] = 12 /\ e[4] = 14 /\ e[5] = 16
    BY <2>5, <2>2
  <2>7. e[6] = 20 /\ e[7] = 24 /\ e[8] = 28 /\ e[9] = 32 /\ e[10] = 34 /\ e[11] = 36
    BY <2>5, <2>6, <2>2, <2>3
  <2>8. e[12] = 37 /\ e[13] = 38 /\ e[14] = 39 /\ e[15] = 40
    BY <2>5, <2>7, <2>4
  <2> QED BY <2>1, <2>8 DEF Bytes, e
<1>2. Bytes(V5Record) = 48
  <2>1. Len(V5Record) = 19
    BY DEF V5Record, Leading
  <2>2. /\ V5Record[1][2] = 4 /\ V5Record[2][2] = 4 /\ V5Record[3][2] = 4
        /\ V5Record[4][2] = 2 /\ V5Record[5][2] = 2 /\ V5Record[6][2] = 4
    BY DEF V5Record, Leading
  <2>3. /\ V5Record[7][2] = 4 /\ V5Record[8][2] = 4 /\ V5Record[9][2] = 4
        /\ V5Record[10][2] = 2 /\ V5Record[11][2] = 2
    BY DEF V5Record, Leading
  <2>4. /\ V5Record[12][2] = 1 /\ V5Record[13][2] = 1 /\ V5Record[14][2] = 1
        /\ V5Record[15][2] = 1 /\ V5Record[16][2] = 2 /\ V5Record[17][2] = 2
        /\ V5Record[18][2] = 2 /\ V5Record[19][2] = 2
    BY DEF V5Record, Leading
  <2> DEFINE e == Ends(V5Record)
  <2>5. e[0] = 0 /\ \A n \in 1..19 : e[n] = e[n - 1] + V5Record[n][2]
    <3>1. \A n \in 1..19 : V5Record[n][2] \in Nat
      BY <2>2, <2>3, <2>4
    <3> QED BY <2>1, <3>1, FieldsFollow
  <2> HIDE DEF e
  <2>6. e[1] = 4 /\ e[2] = 8 /\ e[3] = 12 /\ e[4] = 14 /\ e[5] = 16
    BY <2>5, <2>2
  <2>7. e[6] = 20 /\ e[7] = 24 /\ e[8] = 28 /\ e[9] = 32 /\ e[10] = 34 /\ e[11] = 36
    BY <2>5, <2>6, <2>2, <2>3
  <2>8. e[12] = 37 /\ e[13] = 38 /\ e[14] = 39 /\ e[15] = 40
    BY <2>5, <2>7, <2>4
  <2>9. e[16] = 42 /\ e[17] = 44 /\ e[18] = 46 /\ e[19] = 48
    BY <2>5, <2>8, <2>4
  <2> QED BY <2>1, <2>9 DEF Bytes, e
<1> QED BY <1>1, <1>2

\* TEMPLATE_FIELDS and _data_flowset() list the same fields in the same order:
\* whoever decodes by the template reads every flow as it was meant, for any
\* number of interfaces and any length of a tick.
THEOREM FlowsAreReadable == Spec => []V9Readable
<1>1. V9Readable
  <2>1. Bytes(V9Template) = Bytes(V9Record)
    BY V9Fields, V9Places DEF Bytes
  <2>2. ASSUME NEW t \in DOMAIN V9Template, NEW flow \in FlowsOfTick
        PROVE  \E name \in Found(t, V9Template, V9Record) :
                 flow[name] = flow[V9Meaning[V9Template[t][1]]]
    BY V9Fields, V9FieldsFound
  <2> QED BY <2>1, <2>2 DEF V9Readable
<1> QED BY <1>1, PTL

\* export_device(): no tick of a device needs a second packet, and none a second fragment.
THEOREM TickIsOnePacket == Spec => []OnePacket
<1>1. TypeOK => OnePacket
  <2> SUFFICES ASSUME NEW n \in {4, 12, 24}
               PROVE  Chunks(n) = 1 /\ n <= 30 /\ V5Length(n) <= 1472 /\ V9Length(n) <= 1472
    BY DEF OnePacket, FlowCount, TypeOK, Profile
  <2>1. Chunks(n) = 1 /\ n <= 30
    BY DEF Chunks
  <2>2. V5Length(n) <= 1472
    BY RecordSizes DEF V5Length
  <2>3. V9Length(n) <= 1472
    BY RecordSizes, V9Fields DEF V9Length, FlowsetLength
  <2> QED BY <2>1, <2>2, <2>3
<1> QED BY <1>1, RecordsTypeOK, PTL
=============================================================================
