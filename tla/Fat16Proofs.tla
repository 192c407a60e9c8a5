----------------------------- MODULE Fat16Proofs -----------------------------
(***************************************************************************)
(* For every size of the volume, its clusters and its root directory, and  *)
(* with the power cut between any two disk writes: no cluster is part of   *)
(* two files, and none that is in use is free in the table.                *)
(***************************************************************************)
EXTENDS Fat16, SequenceTheorems, WellFoundedInduction, TLAPS

-----------------------------------------------------------------------------
(* Following a chain.  Induction over the numbers is taken from the fact   *)
(* that a set of numbers which is not empty has a least element.           *)

\* A set of numbers with 0 and every successor is all of them.
LEMMA Induction ==
  ASSUME NEW S \in SUBSET Nat, 0 \in S, \A n \in S : n + 1 \in S
  PROVE  \A n \in Nat : n \in S
<1> DEFINE R == {ss \in Nat \X Nat : ss[1] < ss[2]}
<1> DEFINE T == Nat \ S
<1>1. IsWellFoundedOn(R, Nat)
  BY NatLessThanWellFounded DEF OpToRel
<1>2. SUFFICES ASSUME T # {} PROVE FALSE
  OBVIOUS
<1>3. PICK x \in T : \A y \in T : <<y, x>> \notin R
  <2> HIDE DEF R
  <2> QED BY <1>1, <1>2, WFMin
<1>4. x \in Nat \ {0}
  BY <1>3
<1>5. x - 1 \in Nat /\ x - 1 < x /\ (x - 1) + 1 = x
  BY <1>4
<1>6. x - 1 \notin T
  <2>1. <<x - 1, x>> \in Nat \X Nat /\ <<x - 1, x>>[1] = x - 1 /\ <<x - 1, x>>[2] = x
    BY <1>4, <1>5
  <2> QED BY <1>3, <1>5, <2>1
<1> QED BY <1>3, <1>5, <1>6

\* One link of a chain; 0 past its end.
Link(x) == IF is_invalid_cluster_num(x) THEN 0 ELSE fat[x]

\* The first clusters of the chain at c, as many as are asked for.
IsChain(f, c, n) == f = [k \in 0..n |-> IF k = 0 THEN c ELSE Link(f[k - 1])]

\* Every chain can be followed as far as one likes.
LEMMA ChainExists ==
  ASSUME NEW c, NEW n \in Nat
  PROVE  \E f : IsChain(f, c, n)
<1> DEFINE S == {m \in Nat : \E f : IsChain(f, c, m)}
<1>1. 0 \in S
  <2>1. IsChain([k \in 0..0 |-> c], c, 0)
    BY DEF IsChain
  <2> QED BY <2>1
<1>2. ASSUME NEW m \in S PROVE m + 1 \in S
  <2>1. PICK f : IsChain(f, c, m)
    OBVIOUS
  <2> DEFINE g == [k \in 0..(m + 1) |-> IF k <= m THEN f[k] ELSE Link(f[m])]
  <2>2. \A k \in 0..m : f[k] = IF k = 0 THEN c ELSE Link(f[k - 1])
    BY <2>1 DEF IsChain
  <2>3. \A k \in 0..(m + 1) : g[k] = IF k = 0 THEN c ELSE Link(g[k - 1])
    <3> SUFFICES ASSUME NEW k \in 0..(m + 1) PROVE g[k] = IF k = 0 THEN c ELSE Link(g[k - 1])
      OBVIOUS
    <3>1. CASE k = 0
      BY <2>2, <3>1
    <3>2. CASE k # 0
      <4>1. k - 1 \in 0..m /\ k - 1 \in 0..(m + 1) /\ g[k - 1] = f[k - 1]
        BY <3>2
      <4>2. CASE k <= m
        BY <2>2, <3>2, <4>1, <4>2
      <4>3. CASE k = m + 1
        BY <3>2, <4>1, <4>3
      <4> QED BY <4>2, <4>3
    <3> QED BY <3>1, <3>2
  <2>4. IsChain(g, c, m + 1)
    <3>1. g = [k \in 0..(m + 1) |-> g[k]]
      OBVIOUS
    <3> HIDE DEF g
    <3> QED BY <2>3, <3>1 DEF IsChain
  <2> HIDE DEF g
  <2> QED BY <2>4
<1> HIDE DEF S
<1>3. S \in SUBSET Nat
  BY DEF S
<1>4. n \in S
  BY <1>1, <1>2, <1>3, Induction
<1> QED BY <1>4 DEF S

\* Nth is the last cluster of such a chain.
LEMMA NthChain ==
  ASSUME NEW c, NEW n \in Nat
  PROVE  \E f : IsChain(f, c, n) /\ Nth(c, n) = IF is_invalid_cluster_num(f[n]) THEN 0 ELSE f[n]
<1> DEFINE follow[k \in 0..n] ==
            IF k = 0 THEN c
            ELSE IF is_invalid_cluster_num(follow[k - 1]) THEN 0 ELSE fat[follow[k - 1]]
<1>1. follow = CHOOSE f : IsChain(f, c, n)
  BY DEF IsChain, Link
<1>2. IsChain(follow, c, n)
  BY <1>1, ChainExists
<1>3. Nth(c, n) = IF is_invalid_cluster_num(follow[n]) THEN 0 ELSE follow[n]
  BY DEF Nth
<1> QED BY <1>2, <1>3

\* Where Nth is not past the end, it is reached along links of the table.
LEMMA NthPath ==
  ASSUME TypeOK, NEW c, NEW n \in Nat, Nth(c, n) # 0
  PROVE  /\ c \in Clusters
         /\ \E w \in [0..n -> Clusters] :
              /\ w[0] = c
              /\ \A k \in 0..(n - 1) : fat[w[k]] = w[k + 1]
              /\ w[n] = Nth(c, n)
<1>1. PICK f : IsChain(f, c, n) /\ Nth(c, n) = IF is_invalid_cluster_num(f[n]) THEN 0 ELSE f[n]
  BY NthChain
<1>2. \A k \in 0..n : f[k] = IF k = 0 THEN c ELSE Link(f[k - 1])
  BY <1>1 DEF IsChain
<1>3. f[n] \in Clusters /\ Nth(c, n) = f[n]
  BY <1>1 DEF is_invalid_cluster_num
<1>4. ASSUME NEW k \in 0..(n - 1), f[k + 1] \in Clusters PROVE f[k] \in Clusters /\ fat[f[k]] = f[k + 1]
  <2>1. f[k + 1] = Link(f[k])
    <3>1. k + 1 \in 0..n /\ k + 1 # 0 /\ (k + 1) - 1 = k
      OBVIOUS
    <3> QED BY <1>2, <3>1
  <2>2. 0 \notin Clusters
    BY DEF Clusters
  <2> QED BY <1>4, <2>1, <2>2 DEF Link, is_invalid_cluster_num
<1> DEFINE S == {m \in Nat : m <= n => f[n - m] \in Clusters}
<1>5. S \in SUBSET Nat /\ 0 \in S
  BY <1>3
<1>6. ASSUME NEW m \in S PROVE m + 1 \in S
  <2> SUFFICES ASSUME m + 1 <= n PROVE f[n - (m + 1)] \in Clusters
    OBVIOUS
  <2>1. n - (m + 1) \in 0..(n - 1) /\ (n - (m + 1)) + 1 = n - m /\ f[n - m] \in Clusters
    OBVIOUS
  <2> QED BY <1>4, <2>1
<1> HIDE DEF S
<1>7. \A m \in Nat : m \in S
  BY <1>5, <1>6, Induction
<1>8. ASSUME NEW k \in 0..n PROVE f[k] \in Clusters
  <2>1. n - k \in Nat /\ n - k <= n /\ n - (n - k) = k
    OBVIOUS
  <2>2. n - k \in S
    BY <1>7, <2>1
  <2> QED BY <2>1, <2>2 DEF S
<1>9. f \in [0..n -> Clusters]
  <2>1. f = [k \in 0..n |-> f[k]]
    BY <1>1 DEF IsChain
  <2> QED BY <1>8, <2>1
<1>10. \A k \in 0..(n - 1) : fat[f[k]] = f[k + 1]
  <2> SUFFICES ASSUME NEW k \in 0..(n - 1) PROVE fat[f[k]] = f[k + 1]
    OBVIOUS
  <2>1. k + 1 \in 0..n
    OBVIOUS
  <2> QED BY <1>4, <1>8, <2>1
<1>11. f[0] = c /\ 0 \in 0..n
  BY <1>2
<1> QED BY <1>3, <1>8, <1>9, <1>10, <1>11

-----------------------------------------------------------------------------
(* What points to a cluster, on any disk.                                  *)

\* The table, root directory and clusters of a volume.
IsDisk(f, r, d) ==
    /\ f \in [Clusters -> {0, EndOfChain} \cup Clusters]
    /\ r \in [0..(RootSize - 1) -> Unit]
    /\ d \in [Clusters -> [0..(ClusterSize - 1) -> Unit]]

\* Place l of the disk points to c.
PointsTo(f, r, d, l, c) ==
    \/ \E x \in Clusters : f[x] = c /\ l = <<"fat", x, 0>>
    \/ \E i \in 0..(RootSize - 1) : Leads(r[i], c) /\ l = <<"root", 0, i>>
    \/ \E x \in Clusters, i \in 0..(ClusterSize - 1) : Leads(d[x][i], c) /\ l = <<"data", x, i>>

\* Pointers collects the places that point to a cluster.
LEMMA PointersAre ==
  ASSUME TypeOK
  PROVE  \A c, l : l \in Pointers(c) <=> PointsTo(fat, root, data, l, c)
<1>1. DOMAIN root = 0..(RootSize - 1) /\ \A x \in Clusters : DOMAIN data[x] = 0..(ClusterSize - 1)
  BY DEF TypeOK
<1> SUFFICES ASSUME NEW c, NEW l PROVE l \in Pointers(c) <=> PointsTo(fat, root, data, l, c)
  OBVIOUS
<1> DEFINE A == {<<"fat", x, 0>> : x \in {y \in Clusters : fat[y] = c}}
<1> DEFINE B == {<<"root", 0, i>> : i \in {y \in DOMAIN root : Leads(root[y], c)}}
<1> DEFINE C(x) == {<<"data", x, i>> : i \in {y \in DOMAIN data[x] : Leads(data[x][y], c)}}
<1>2. l \in Pointers(c) <=> l \in A \/ l \in B \/ \E x \in Clusters : l \in C(x)
  BY DEF Pointers
<1>3. l \in A <=> \E x \in Clusters : fat[x] = c /\ l = <<"fat", x, 0>>
  OBVIOUS
<1>4. l \in B <=> \E i \in 0..(RootSize - 1) : Leads(root[i], c) /\ l = <<"root", 0, i>>
  BY <1>1
<1>5. ASSUME NEW x \in Clusters
      PROVE  l \in C(x) <=> \E i \in 0..(ClusterSize - 1) : Leads(data[x][i], c) /\ l = <<"data", x, i>>
  BY <1>1
<1> HIDE DEF A, B, C
<1> QED BY <1>2, <1>3, <1>4, <1>5 DEF PointsTo

\* The same after a step.
LEMMA PointersAreAfter ==
  ASSUME TypeOK'
  PROVE  \A c, l : (l \in Pointers(c))' <=> PointsTo(fat', root', data', l, c)
<1>1. DOMAIN root' = 0..(RootSize - 1) /\ \A x \in Clusters : DOMAIN data'[x] = 0..(ClusterSize - 1)
  BY DEF TypeOK
<1> SUFFICES ASSUME NEW c, NEW l PROVE (l \in Pointers(c))' <=> PointsTo(fat', root', data', l, c)
  OBVIOUS
<1> DEFINE A == {<<"fat", x, 0>> : x \in {y \in Clusters : fat'[y] = c}}
<1> DEFINE B == {<<"root", 0, i>> : i \in {y \in DOMAIN root' : Leads(root'[y], c)}}
<1> DEFINE C(x) == {<<"data", x, i>> : i \in {y \in DOMAIN data'[x] : Leads(data'[x][y], c)}}
<1>2. (l \in Pointers(c))' <=> l \in A \/ l \in B \/ \E x \in Clusters : l \in C(x)
  BY DEF Pointers
<1>3. l \in A <=> \E x \in Clusters : fat'[x] = c /\ l = <<"fat", x, 0>>
  OBVIOUS
<1>4. l \in B <=> \E i \in 0..(RootSize - 1) : Leads(root'[i], c) /\ l = <<"root", 0, i>>
  BY <1>1
<1>5. ASSUME NEW x \in Clusters
      PROVE  l \in C(x) <=> \E i \in 0..(ClusterSize - 1) : Leads(data'[x][i], c) /\ l = <<"data", x, i>>
  BY <1>1
<1> HIDE DEF A, B, C
<1> QED BY <1>2, <1>3, <1>4, <1>5 DEF PointsTo

\* Numbers that are no cluster: the mark of a free cluster and of a chain's end.
LEMMA MarksAreNoClusters ==
  /\ 0 \notin Clusters /\ EndOfChain \notin Clusters
  /\ is_free_cluster_num(0) /\ ~is_free_cluster_num(EndOfChain)
  /\ is_end_of_ll_num(EndOfChain) /\ ~is_end_of_ll_num(0)
  /\ \A c \in Clusters : ~is_free_cluster_num(c) /\ ~is_end_of_ll_num(c)
BY Fat16Assumption DEF Clusters, EndOfChain, is_free_cluster_num, is_end_of_ll_num

\* A free cluster that is entered in the table, or an end that is linked, changes
\* only what points to the cluster it is linked to.
LEMMA TableWrite ==
  ASSUME NEW f, NEW r, NEW d, IsDisk(f, r, d), NEW x \in Clusters, f[x] \notin Clusters, NEW v,
         NEW c \in Clusters, NEW l
  PROVE  PointsTo([f EXCEPT ![x] = v], r, d, l, c)
           <=> PointsTo(f, r, d, l, c) \/ (v = c /\ l = <<"fat", x, 0>>)
<1>1. \A y \in Clusters : [f EXCEPT ![x] = v][y] = IF y = x THEN v ELSE f[y]
  BY DEF IsDisk
<1> QED BY <1>1 DEF PointsTo

-----------------------------------------------------------------------------
(* The writes an operation has left.                                       *)

\* The fields of a task.
LEMMA TaskFields ==
  ASSUME NEW t \in Tasks
  PROVE  /\ t.task \in {"mark", "root", "write", "next", "link"}
         /\ t.task = "mark" => t.cluster \in Clusters
         /\ t.task # "mark" => t.at \in Nat /\ t.units \in Seq(Unit)
         /\ t.task \in {"write", "next", "link"} => t.cluster \in Clusters /\ t.index \in Nat
         /\ t.task = "link" => t.new \in Clusters
BY DEF Tasks

\* The task at hand and the ones after it.
LEMMA HeadAndTail ==
  ASSUME TypeOK, todo # <<>>
  PROVE  /\ Task \in Tasks /\ Task = todo[1] /\ 1 \in DOMAIN todo
         /\ Len(todo) \in Nat \ {0} /\ DOMAIN todo = 1..Len(todo)
         /\ \A i \in DOMAIN todo : todo[i] \in Tasks
         /\ Tail(todo) \in Seq(Tasks) /\ Len(Tail(todo)) = Len(todo) - 1
         /\ \A i \in 1..(Len(todo) - 1) : Tail(todo)[i] = todo[i + 1]
BY DEF TypeOK, Task

\* A walk along links is not disturbed while links stay.
LEMMA LandsKept ==
  ASSUME NEW t, NEW l, Lands(t, l), \A x \in Clusters : fat[x] \in Clusters => fat'[x] = fat[x],
         t \in Tasks
  PROVE  Lands(t, l)'
<1>1. CASE t.task = "root"
  BY <1>1 DEF Lands
<1>2. CASE t.task # "root"
  <2> DEFINE m == t.at \div ClusterSize
  <2>1. t.at \in Nat /\ t.index \in Nat /\ t.task \in {"write", "next"} /\ Len(t.units) = 1
    BY <1>2, TaskFields DEF Lands
  <2>2. m \in Nat
    BY <2>1, Fat16Assumption
  <2>3. /\ t.index <= m /\ (t.task = "write" <=> t.index = m)
        /\ \E w \in [t.index..m -> Clusters] :
              /\ w[t.index] = t.cluster
              /\ \A k \in t.index..(m - 1) : fat[w[k]] = w[k + 1]
              /\ l = <<"data", w[m], t.at % ClusterSize>>
    BY <1>2 DEF Lands
  <2>4. PICK w \in [t.index..m -> Clusters] :
              /\ w[t.index] = t.cluster
              /\ \A k \in t.index..(m - 1) : fat[w[k]] = w[k + 1]
              /\ l = <<"data", w[m], t.at % ClusterSize>>
    BY <2>3
  <2> HIDE DEF m
  <2>5. \A k \in t.index..(m - 1) : fat'[w[k]] = w[k + 1]
    <3> SUFFICES ASSUME NEW k \in t.index..(m - 1) PROVE fat'[w[k]] = w[k + 1]
      OBVIOUS
    <3>1. w[k] \in Clusters /\ w[k + 1] \in Clusters /\ fat[w[k]] = w[k + 1]
      BY <2>1, <2>2, <2>4
    <3> QED BY <3>1
  <2> QED BY <1>2, <2>1, <2>3, <2>4, <2>5 DEF Lands, m
<1> QED BY <1>1, <1>2

\* A task stays safe while links stay and nothing new points to what it claims.
LEMMA ClaimsKept ==
  ASSUME NEW t \in Tasks, ClaimsSafe(t),
         \A x \in Clusters : fat[x] \in Clusters => fat'[x] = fat[x],
         \A c \in Claimed(t) : \A l : (l \in Pointers(c))' => l \in Pointers(c)
  PROVE  ClaimsSafe(t)'
<1>1. \A j, k \in DOMAIN Units(t) :
          (\E c \in Clusters : Leads(Units(t)[j], c)) /\ (\E c \in Clusters : Leads(Units(t)[k], c))
          => j = k
  BY DEF ClaimsSafe
<1>2. ASSUME NEW c \in Claimed(t), NEW l, (l \in Pointers(c))' PROVE Lands(t, l)'
  <2>1. Lands(t, l)
    BY <1>2 DEF ClaimsSafe
  <2> QED BY <2>1, LandsKept
<1> QED BY <1>1, <1>2 DEF ClaimsSafe

\* A list of tasks with its head replaced.
LEMMA ReplacedHead ==
  ASSUME NEW S, NEW s \in Seq(S), s # <<>>, NEW h \in Seq(S), Len(h) = 1
  PROVE  /\ h \o Tail(s) \in Seq(S) /\ Len(h \o Tail(s)) = Len(s)
         /\ (h \o Tail(s))[1] = h[1]
         /\ \A i \in 2..Len(s) : (h \o Tail(s))[i] = s[i]
<1>1. Tail(s) \in Seq(S) /\ Len(Tail(s)) = Len(s) - 1 /\ Len(s) \in Nat
      /\ \A i \in 1..Len(Tail(s)) : Tail(s)[i] = s[i + 1]
  BY HeadTailProperties, LenProperties
<1>2. PICK r \in Seq(S) : r = Tail(s)
  BY <1>1
<1>3. PICK n \in Nat : n = Len(s)
  BY <1>1
<1>4. /\ h \o r \in Seq(S) /\ Len(h \o r) = Len(h) + Len(r)
      /\ \A i \in 1..(Len(h) + Len(r)) : (h \o r)[i] = IF i <= Len(h) THEN h[i] ELSE r[i - Len(h)]
  BY ConcatProperties
<1>5. Len(r) = n - 1 /\ \A i \in 1..(n - 1) : r[i] = s[i + 1]
  BY <1>1, <1>2, <1>3
<1>6. ASSUME NEW i \in 2..n PROVE (h \o r)[i] = s[i]
  <2>1. i - 1 \in 1..(n - 1) /\ (i - 1) + 1 = i /\ i \in 1..(1 + (n - 1)) /\ ~(i <= 1)
    OBVIOUS
  <2> QED BY <1>4, <1>5, <2>1
<1>7. n # 0
  BY <1>3
<1>8. Len(h \o r) = n /\ (h \o r)[1] = h[1]
  BY <1>4, <1>5, <1>7
<1> QED BY <1>2, <1>3, <1>4, <1>6, <1>8

\* Some later task of the running operation will write a pointer to c.
ClaimedLater(c) == \E i \in DOMAIN todo : i # 1 /\ c \in Claimed(todo[i])

\* A link task that is about to be carried out is safe.
LinkSafe(t) ==
    /\ fat[t.cluster] = EndOfChain /\ fat[t.new] = EndOfChain
    /\ Pointers(t.new) = {} /\ t.new \notin Claimed(t)

\* The task at hand is carried out, and h is what is left of it.
LEMMA ReplaceHead ==
  ASSUME TypeOK, TypeOK', WritesSafe, todo # <<>>,
         NEW h \in Seq(Tasks), Len(h) \in {0, 1}, todo' = h \o Tail(todo),
         \A x \in Clusters : fat[x] \in Clusters => fat'[x] = fat[x],
         \A x \in Clusters : is_free_cluster_num(fat'[x]) => is_free_cluster_num(fat[x]),
         Task.task = "mark" => ~is_free_cluster_num(fat'[Task.cluster]),
         \A c \in Clusters : ClaimedLater(c) => \A l : (l \in Pointers(c))' => l \in Pointers(c),
         Len(h) = 1 =>
            /\ Task.task # "mark" /\ h[1].task # "mark"
            /\ Claimed(h[1]) \subseteq Claimed(Task) /\ ClaimsSafe(h[1])'
            /\ h[1].task = "link" => LinkSafe(h[1])' /\ ~ClaimedLater(h[1].new)
  PROVE  WritesSafe'
<1>1. /\ Task \in Tasks /\ Task = todo[1] /\ 1 \in DOMAIN todo
      /\ Len(todo) \in Nat \ {0} /\ DOMAIN todo = 1..Len(todo)
      /\ \A i \in DOMAIN todo : todo[i] \in Tasks
      /\ Tail(todo) \in Seq(Tasks) /\ Len(Tail(todo)) = Len(todo) - 1
      /\ \A i \in 1..(Len(todo) - 1) : Tail(todo)[i] = todo[i + 1]
  BY HeadAndTail
<1>2. ASSUME NEW i \in DOMAIN todo, i # 1
      PROVE  /\ \A t : t = todo[i] => ClaimsSafe(t)'
             /\ todo[i].task \notin {"mark", "link"}
             /\ \A c \in Claimed(todo[i]) : ~is_free_cluster_num(fat'[c])
             /\ \A j \in DOMAIN todo : i # j => Claimed(todo[i]) \cap Claimed(todo[j]) = {}
  <2>1. /\ ClaimsSafe(todo[i]) /\ todo[i].task \notin {"mark", "link"}
        /\ \A c \in Claimed(todo[i]) :
                is_free_cluster_num(fat[c]) => Task.task = "mark" /\ Task.cluster = c
        /\ \A j \in DOMAIN todo : i # j => Claimed(todo[i]) \cap Claimed(todo[j]) = {}
    BY <1>2 DEF WritesSafe
  <2>2. \A c \in Claimed(todo[i]) : c \in Clusters /\ ClaimedLater(c)
    BY <1>2 DEF ClaimedLater, Claimed
  <2>3. \A c \in Claimed(todo[i]) : ~is_free_cluster_num(fat'[c])
    BY <2>1, <2>2
  <2>4. ASSUME NEW t, t = todo[i] PROVE ClaimsSafe(t)'
    <3>1. t \in Tasks /\ ClaimsSafe(t) /\ \A c \in Claimed(t) : c \in Clusters /\ ClaimedLater(c)
      BY <1>1, <2>1, <2>2, <2>4
    <3>2. \A c \in Claimed(t) : \A l : (l \in Pointers(c))' => l \in Pointers(c)
      BY <3>1
    <3> QED BY <3>1, <3>2, ClaimsKept
  <2> QED BY <2>1, <2>3, <2>4
<1>3. CASE Len(h) = 0
  <2>1. /\ DOMAIN todo' = 1..(Len(todo) - 1)
        /\ \A i \in DOMAIN todo' : i + 1 \in DOMAIN todo /\ i + 1 # 1 /\ todo'[i] = todo[i + 1]
    BY <1>1, <1>3
  <2>2. ASSUME NEW i \in DOMAIN todo'
        PROVE  /\ ClaimsSafe(todo[i])' /\ todo'[i].task \notin {"mark", "link"}
               /\ \A c \in Claimed(todo'[i]) : ~is_free_cluster_num(fat'[c])
               /\ \A j \in DOMAIN todo' : i # j => Claimed(todo'[i]) \cap Claimed(todo'[j]) = {}
    <3>1. PICK t : t = todo'[i]
      OBVIOUS
    <3>2. i + 1 \in DOMAIN todo /\ i + 1 # 1 /\ t = todo[i + 1]
      BY <2>1, <3>1
    <3>3. ClaimsSafe(t)'
      BY <1>2, <3>2
    <3>4. ASSUME NEW j \in DOMAIN todo', i # j PROVE Claimed(t) \cap Claimed(todo'[j]) = {}
      <4>1. j + 1 \in DOMAIN todo /\ todo'[j] = todo[j + 1] /\ i + 1 # j + 1
        <5>1. i \in Int /\ j \in Int
          BY <2>1
        <5> QED BY <2>1, <3>4, <5>1
      <4> QED BY <1>2, <3>2, <4>1
    <3>5. t.task \notin {"mark", "link"} /\ \A c \in Claimed(t) : ~is_free_cluster_num(fat'[c])
      BY <1>2, <3>2
    <3> QED BY <3>1, <3>3, <3>4, <3>5
  <2>3. todo' # <<>> => Task' = todo'[1] /\ 1 \in DOMAIN todo'
    <3>1. todo' \in Seq(Tasks)
      BY DEF TypeOK
    <3> QED BY <3>1 DEF Task
  <2> QED BY <2>2, <2>3 DEF WritesSafe
<1>4. CASE Len(h) = 1
  <2>1. /\ DOMAIN todo' = DOMAIN todo /\ todo'[1] = h[1] /\ todo' # <<>> /\ Task' = h[1]
        /\ \A i \in DOMAIN todo : i # 1 => todo'[i] = todo[i]
    <3>1. /\ todo' \in Seq(Tasks) /\ Len(todo') = Len(todo) /\ todo'[1] = h[1]
          /\ \A i \in 2..Len(todo) : todo'[i] = todo[i]
      BY <1>4, ReplacedHead DEF TypeOK
    <3>2. PICK s \in Seq(Tasks) : s = todo'
      BY <3>1
    <3>3. DOMAIN s = 1..Len(todo) /\ s # <<>> /\ Head(s) = s[1]
      BY <1>1, <3>1, <3>2
    <3> QED BY <1>1, <3>1, <3>2, <3>3 DEF Task
  <2>2. ASSUME NEW c \in Claimed(h[1])
        PROVE  c \in Claimed(todo[1]) /\ ~is_free_cluster_num(fat'[c])
    <3>1. c \in Claimed(todo[1]) /\ c \in Clusters
      BY <1>1, <1>4, <2>2 DEF Claimed
    <3>2. ~is_free_cluster_num(fat[c])
      BY <1>1, <1>4, <3>1 DEF WritesSafe
    <3> QED BY <3>1, <3>2
  <2>3. ASSUME NEW i \in DOMAIN todo'
        PROVE  /\ ClaimsSafe(todo[i])'
               /\ todo'[i].task \in {"mark", "link"} => i = 1
               /\ \A c \in Claimed(todo'[i]) : ~is_free_cluster_num(fat'[c])
               /\ \A j \in DOMAIN todo' : i # j => Claimed(todo'[i]) \cap Claimed(todo'[j]) = {}
    <3>1. PICK t : t = todo'[i]
      OBVIOUS
    <3>2. CASE i = 1
      <4>1. t = h[1]
        BY <2>1, <3>1, <3>2
      <4>2. ASSUME NEW j \in DOMAIN todo', i # j PROVE Claimed(t) \cap Claimed(todo'[j]) = {}
        <5>1. j \in DOMAIN todo /\ j # 1 /\ todo'[j] = todo[j]
          BY <2>1, <3>2, <4>2
        <5>2. Claimed(todo[j]) \cap Claimed(todo[1]) = {}
          BY <1>1, <1>2, <5>1
        <5> QED BY <2>2, <4>1, <5>1, <5>2
      <4> QED BY <1>4, <2>2, <3>1, <3>2, <4>1, <4>2
    <3>3. CASE i # 1
      <4>1. i \in DOMAIN todo /\ t = todo[i]
        BY <2>1, <3>1, <3>3
      <4>2. ASSUME NEW j \in DOMAIN todo', i # j PROVE Claimed(t) \cap Claimed(todo'[j]) = {}
        <5>1. j \in DOMAIN todo /\ Claimed(t) \cap Claimed(todo[j]) = {}
          BY <1>2, <2>1, <3>3, <4>1, <4>2
        <5>2. CASE j = 1
          BY <2>1, <2>2, <5>1, <5>2
        <5>3. CASE j # 1
          BY <2>1, <5>1, <5>3
        <5> QED BY <5>2, <5>3
      <4>3. ClaimsSafe(t)' /\ t.task \notin {"mark", "link"}
             /\ \A c \in Claimed(t) : ~is_free_cluster_num(fat'[c])
        BY <1>2, <3>3, <4>1
      <4> QED BY <3>1, <4>2, <4>3
    <3> QED BY <3>2, <3>3
  <2>4. ASSUME h[1].task = "link"
        PROVE  /\ fat'[h[1].cluster] = EndOfChain /\ fat'[h[1].new] = EndOfChain
               /\ Pointers(h[1].new)' = {}
               /\ \A i \in DOMAIN todo' : h[1].new \notin Claimed(todo'[i])
    BY <1>4, <2>1, <2>4 DEF LinkSafe, ClaimedLater
  <2> QED BY <1>4, <2>1, <2>3, <2>4 DEF WritesSafe
<1> QED BY <1>3, <1>4

\* Units are written to consecutive places, and no other place of the disk
\* changes: no cluster gets a second pointer, and a cluster that the rest of
\* the operation claims gets none.
LEMMA UnitsWritten ==
  ASSUME TypeOK, TypeOK', NoCrossLinks, WritesSafe, todo # <<>>, Task.task \in {"root", "write"},
         fat' = fat, NEW n \in Nat, n <= Len(Task.units), NEW place,
         \A c \in Clusters : \A l : (l \in Pointers(c))' =>
            l \in Pointers(c) \/ \E k \in 1..n : Leads(Task.units[k], c) /\ l = place[k],
         \A l : Lands(Task, l) => n = 1 /\ l = place[1]
  PROVE  /\ NoCrossLinks'
         /\ \A c \in Clusters : ClaimedLater(c) => \A l : (l \in Pointers(c))' => l \in Pointers(c)
         /\ \A k \in (n + 1)..Len(Task.units), c \in Clusters : Leads(Task.units[k], c) => Pointers(c)' = {}
<1>1. /\ Task \in Tasks /\ Task = todo[1] /\ 1 \in DOMAIN todo
      /\ Units(Task) = Task.units /\ Task.units \in Seq(Unit)
  BY HeadAndTail, TaskFields DEF Units
<1>2. Len(Task.units) \in Nat /\ DOMAIN Task.units = 1..Len(Task.units) /\ 1..n \subseteq DOMAIN Task.units
  BY <1>1
<1>3. \A c \in Clusters : c \in Claimed(Task) <=> \E k \in DOMAIN Task.units : Leads(Task.units[k], c)
  BY <1>1 DEF Claimed
<1>4. ClaimsSafe(Task) /\ \A c \in Claimed(Task) : ~is_free_cluster_num(fat[c])
  BY <1>1 DEF WritesSafe
<1>5. ASSUME NEW c \in Clusters, NEW j \in DOMAIN Task.units, NEW k \in DOMAIN Task.units,
             Leads(Task.units[j], c), Leads(Task.units[k], c)
      PROVE  j = k
  BY <1>1, <1>4, <1>5 DEF ClaimsSafe
<1>6. ASSUME NEW c \in Clusters, NEW l, l \in Pointers(c), c \in Claimed(Task)
      PROVE  n = 1 /\ l = place[1] /\ Len(Task.units) = 1
  <2>1. Lands(Task, l)
    BY <1>4, <1>6 DEF ClaimsSafe
  <2> QED BY <2>1 DEF Lands
<1>7. ASSUME NEW c \in Clusters, NEW k \in 1..n, Leads(Task.units[k], c)
      PROVE  c \in Claimed(Task)
  BY <1>2, <1>3, <1>7
<1>8. ASSUME NEW c \in Clusters, NEW p, NEW q, (p \in Pointers(c))', (q \in Pointers(c))'
      PROVE  p = q
  <2>1. CASE c \notin Claimed(Task)
    <3>1. p \in Pointers(c) /\ q \in Pointers(c)
      BY <1>7, <1>8, <2>1
    <3> QED BY <3>1 DEF NoCrossLinks
  <2>2. CASE c \in Claimed(Task)
    <3>1. p \in Pointers(c) \/ \E k \in 1..n : Leads(Task.units[k], c) /\ p = place[k]
      BY <1>8
    <3>2. q \in Pointers(c) \/ \E k \in 1..n : Leads(Task.units[k], c) /\ q = place[k]
      BY <1>8
    <3>3. CASE \E l : l \in Pointers(c)
      <4>1. n = 1
        BY <1>6, <2>2, <3>3
      <4>2. \A k \in 1..n : k = 1
        BY <4>1
      <4> QED BY <1>6, <2>2, <3>1, <3>2, <4>2
    <3>4. CASE ~\E l : l \in Pointers(c)
      BY <1>2, <1>5, <3>1, <3>2, <3>4
    <3> QED BY <3>3, <3>4
  <2> QED BY <2>1, <2>2
<1>9. ASSUME NEW c \in Clusters, NEW p, (p \in Pointers(c))'
      PROVE  ~is_free_cluster_num(fat'[c])
  <2>1. CASE p \in Pointers(c)
    BY <2>1 DEF NoCrossLinks
  <2>2. CASE p \notin Pointers(c)
    BY <1>4, <1>7, <1>9, <2>2
  <2> QED BY <2>1, <2>2
<1>10. NoCrossLinks'
  BY <1>8, <1>9 DEF NoCrossLinks
<1>11. ASSUME NEW c \in Clusters, ClaimedLater(c), NEW l, (l \in Pointers(c))'
       PROVE  l \in Pointers(c)
  <2>1. c \notin Claimed(Task)
    BY <1>1, <1>11 DEF WritesSafe, ClaimedLater
  <2> QED BY <1>7, <1>11, <2>1
<1>12. ASSUME NEW k \in (n + 1)..Len(Task.units), NEW c \in Clusters, Leads(Task.units[k], c),
              NEW l, (l \in Pointers(c))'
       PROVE  FALSE
  <2>1. k \in DOMAIN Task.units /\ k > n /\ c \in Claimed(Task)
    <3>1. PICK m \in Nat : m = Len(Task.units)
      BY <1>2
    <3>2. k \in (n + 1)..m
      BY <3>1
    <3>3. k \in 1..m /\ k > n
      BY <3>2
    <3> QED BY <1>2, <1>3, <1>12, <3>1, <3>3
  <2>2. ASSUME l \in Pointers(c) PROVE FALSE
    <3>1. n = 1 /\ DOMAIN Task.units = 1..1
      BY <1>2, <1>6, <2>1, <2>2
    <3> QED BY <2>1, <3>1
  <2>3. PICK j \in 1..n : Leads(Task.units[j], c)
    BY <1>12, <2>2
  <2> QED BY <1>2, <1>5, <1>12, <2>1, <2>3
<1> QED BY <1>10, <1>11, <1>12

-----------------------------------------------------------------------------
(* Every step keeps the invariant.                                         *)

\* The disk is a table, a root directory and clusters.
LEMMA DiskTyped ==
  ASSUME TypeOK PROVE IsDisk(fat, root, data)
BY DEF TypeOK, IsDisk

\* The list of tasks is what h leaves of the first, then the others.
LEMMA RestTyped ==
  ASSUME TypeOK, todo # <<>>, NEW h \in Seq(Tasks)
  PROVE  h \o Tail(todo) \in Seq(Tasks)
<1>1. Tail(todo) \in Seq(Tasks)
  BY HeadAndTail
<1> QED BY <1>1, ConcatProperties

\* Nothing is left of the first task.
LEMMA RestOnly ==
  ASSUME TypeOK, todo # <<>>
  PROVE  <<>> \in Seq(Tasks) /\ Len(<<>>) = 0 /\ <<>> \o Tail(todo) = Tail(todo)
<1>1. Tail(todo) \in Seq(Tasks)
  BY HeadAndTail
<1>2. <<>> \o Tail(todo) = Tail(todo)
  BY <1>1, ConcatEmptySeq
<1> QED BY <1>2

\* The task at hand is carried out and nothing is left of it.
LEMMA DropHead ==
  ASSUME TypeOK, TypeOK', WritesSafe, todo # <<>>, todo' = Tail(todo),
         \A x \in Clusters : fat[x] \in Clusters => fat'[x] = fat[x],
         \A x \in Clusters : is_free_cluster_num(fat'[x]) => is_free_cluster_num(fat[x]),
         Task.task = "mark" => ~is_free_cluster_num(fat'[Task.cluster]),
         \A c \in Clusters : ClaimedLater(c) => \A l : (l \in Pointers(c))' => l \in Pointers(c)
  PROVE  WritesSafe'
<1>1. PICK h \in Seq(Tasks) : Len(h) = 0 /\ todo' = h \o Tail(todo)
  <2>1. <<>> \in Seq(Tasks) /\ Len(<<>>) = 0 /\ todo' = <<>> \o Tail(todo)
    BY RestOnly
  <2> QED BY <2>1
<1>2. Len(h) \in {0, 1} /\ Len(h) # 1
  BY <1>1
<1> QED BY <1>1, <1>2, ReplaceHead

\* The task at hand is carried out and u is left of it.
LEMMA SwapHead ==
  ASSUME TypeOK, TypeOK', WritesSafe, todo # <<>>, NEW u \in Tasks, todo' = <<u>> \o Tail(todo),
         \A x \in Clusters : fat[x] \in Clusters => fat'[x] = fat[x],
         \A x \in Clusters : is_free_cluster_num(fat'[x]) => is_free_cluster_num(fat[x]),
         \A c \in Clusters : ClaimedLater(c) => \A l : (l \in Pointers(c))' => l \in Pointers(c),
         Task.task # "mark", u.task # "mark", Claimed(u) \subseteq Claimed(Task), ClaimsSafe(u)',
         u.task = "link" => LinkSafe(u)' /\ ~ClaimedLater(u.new)
  PROVE  WritesSafe'
<1>1. PICK h : h = <<u>>
  OBVIOUS
<1>2. h \in Seq(Tasks) /\ Len(h) = 1 /\ h[1] = u
  BY <1>1
<1>3. todo' = h \o Tail(todo) /\ Len(h) \in {0, 1}
  BY <1>1, <1>2
<1> QED BY <1>2, <1>3, ReplaceHead

\* The list of tasks with u in the place of the first.
LEMMA SwapTyped ==
  ASSUME TypeOK, todo # <<>>, NEW u \in Tasks
  PROVE  <<u>> \o Tail(todo) \in Seq(Tasks)
<1>1. <<u>> \in Seq(Tasks)
  OBVIOUS
<1> QED BY <1>1, RestTyped

\* Allocating a cluster: write_fat with the mark of a chain's end.
LEMMA MarkInv ==
  ASSUME Fat16Inv, Mark PROVE Fat16Inv'
<1> USE DEF Fat16Inv
<1>1. /\ todo # <<>> /\ Task.task = "mark" /\ todo' = Tail(todo)
      /\ fat' = [fat EXCEPT ![Task.cluster] = EndOfChain]
      /\ root' = root /\ data' = data /\ cuts' = cuts /\ halted' = halted
  BY DEF Mark, Doing, Continue, write_fat
<1>2. PICK x \in Clusters : x = Task.cluster
  BY <1>1, HeadAndTail, TaskFields
<1>3. is_free_cluster_num(fat[x]) /\ fat[x] \notin Clusters
  BY <1>1, <1>2, MarksAreNoClusters DEF WritesSafe
<1>4. TypeOK'
  <2>1. fat' \in [Clusters -> {0, EndOfChain} \cup Clusters]
    BY <1>1, <1>2 DEF TypeOK
  <2>2. todo' \in Seq(Tasks)
    BY <1>1, HeadAndTail
  <2> QED BY <1>1, <2>1, <2>2 DEF TypeOK
<1>5. ASSUME NEW c \in Clusters, NEW l PROVE (l \in Pointers(c))' <=> l \in Pointers(c)
  <2>1. PointsTo(fat', root', data', l, c) <=> PointsTo(fat, root, data, l, c)
    BY <1>1, <1>2, <1>3, TableWrite, DiskTyped, MarksAreNoClusters
  <2> QED BY <1>4, <2>1, PointersAre, PointersAreAfter
<1>6. \A y \in Clusters : fat'[y] = IF y = x THEN EndOfChain ELSE fat[y]
  BY <1>1, <1>2 DEF TypeOK
<1>7. NoCrossLinks'
  <2>1. \A c \in Clusters : is_free_cluster_num(fat'[c]) => is_free_cluster_num(fat[c])
    BY <1>6, MarksAreNoClusters
  <2> QED BY <1>5, <2>1 DEF NoCrossLinks
<1>8. WritesSafe'
  <2>2. \A y \in Clusters : fat[y] \in Clusters => fat'[y] = fat[y]
    BY <1>3, <1>6
  <2>3. \A y \in Clusters : is_free_cluster_num(fat'[y]) => is_free_cluster_num(fat[y])
    BY <1>6, MarksAreNoClusters
  <2>4. ~is_free_cluster_num(fat'[Task.cluster])
    BY <1>2, <1>6, MarksAreNoClusters
  <2> QED BY <1>1, <1>4, <1>5, <2>2, <2>3, <2>4, DropHead
<1> QED BY <1>4, <1>7, <1>8

\* Places of the root directory.
RootPlaces(at, n) == [k \in 1..n |-> <<"root", 0, at + k - 1>>]

\* Writing entries in the root directory, where they fit.
LEMMA RootInv ==
  ASSUME Fat16Inv, write_to_root_dir, halted' = halted PROVE Fat16Inv'
<1> USE DEF Fat16Inv
<1>1. /\ todo # <<>> /\ Task.task = "root" /\ todo' = Tail(todo)
      /\ Task.at + Len(Task.units) < RootSize
      /\ root' = [i \in DOMAIN root |->
            IF i \in Task.at..(Task.at + Len(Task.units) - 1) THEN Task.units[i - Task.at + 1] ELSE root[i]]
      /\ fat' = fat /\ data' = data /\ cuts' = cuts
  BY DEF write_to_root_dir, Doing, Continue, Halt
<1>2. Task.at \in Nat /\ Task.units \in Seq(Unit) /\ Task \in Tasks
  BY <1>1, HeadAndTail, TaskFields
<1>3. PICK at \in Nat, units \in Seq(Unit), n \in Nat : at = Task.at /\ units = Task.units /\ n = Len(units)
  BY <1>2
<1>4. /\ at + n < RootSize /\ DOMAIN units = 1..n
      /\ \A i \in 0..(RootSize - 1) :
            root'[i] = IF i \in at..(at + n - 1) THEN units[i - at + 1] ELSE root[i]
  BY <1>1, <1>3 DEF TypeOK
<1>5. TypeOK'
  <2>1. root' \in [0..(RootSize - 1) -> Unit]
    <3>1. \A i \in at..(at + n - 1) : i - at + 1 \in 1..n
      BY <1>3
    <3>2. ASSUME NEW i \in 0..(RootSize - 1) PROVE root'[i] \in Unit
      <4>1. \A k \in 1..n : units[k] \in Unit
        BY <1>3
      <4>2. root[i] \in Unit
        BY DEF TypeOK
      <4> QED BY <1>4, <3>1, <4>1, <4>2
    <3> QED BY <1>1, <3>2 DEF TypeOK
  <2>2. todo' \in Seq(Tasks)
    BY <1>1, HeadAndTail
  <2> QED BY <1>1, <2>1, <2>2 DEF TypeOK
<1>6. ASSUME NEW c \in Clusters, NEW l, (l \in Pointers(c))'
      PROVE  l \in Pointers(c) \/ \E k \in 1..n : Leads(units[k], c) /\ l = RootPlaces(at, n)[k]
  <2>1. PointsTo(fat', root', data', l, c)
    BY <1>5, <1>6, PointersAreAfter
  <2>2. CASE \E i \in 0..(RootSize - 1) : Leads(root'[i], c) /\ l = <<"root", 0, i>>
    <3>1. PICK i \in 0..(RootSize - 1) : Leads(root'[i], c) /\ l = <<"root", 0, i>>
      BY <2>2
    <3>2. CASE i \in at..(at + n - 1)
      <4>1. i - at + 1 \in 1..n /\ at + (i - at + 1) - 1 = i
        BY <3>2
      <4>2. Leads(units[i - at + 1], c)
        BY <1>4, <3>1, <3>2
      <4>3. RootPlaces(at, n)[i - at + 1] = l
        BY <3>1, <4>1 DEF RootPlaces
      <4> QED BY <4>1, <4>2, <4>3
    <3>3. CASE i \notin at..(at + n - 1)
      <4>1. PointsTo(fat, root, data, l, c)
        BY <1>4, <3>1, <3>3 DEF PointsTo
      <4> QED BY <4>1, PointersAre
    <3> QED BY <3>2, <3>3
  <2>3. CASE ~\E i \in 0..(RootSize - 1) : Leads(root'[i], c) /\ l = <<"root", 0, i>>
    <3>1. PointsTo(fat, root, data, l, c)
      BY <1>1, <2>1, <2>3 DEF PointsTo
    <3> QED BY <3>1, PointersAre
  <2> QED BY <2>2, <2>3
<1>7. ASSUME NEW l, Lands(Task, l) PROVE n = 1 /\ l = RootPlaces(at, n)[1]
  BY <1>1, <1>3, <1>7 DEF Lands, RootPlaces
<1>8. /\ NoCrossLinks'
      /\ \A c \in Clusters : ClaimedLater(c) => \A l : (l \in Pointers(c))' => l \in Pointers(c)
  <2>1. n <= Len(Task.units) /\ Task.task \in {"root", "write"}
    BY <1>1, <1>3
  <2>2. \A c \in Clusters : \A l : (l \in Pointers(c))' =>
            l \in Pointers(c) \/ \E k \in 1..n : Leads(Task.units[k], c) /\ l = RootPlaces(at, n)[k]
    BY <1>3, <1>6
  <2> QED BY <1>1, <1>5, <1>7, <2>1, <2>2, UnitsWritten
<1>9. WritesSafe'
  BY <1>1, <1>5, <1>8, DropHead
<1> QED BY <1>5, <1>8, <1>9

\* A task with the units after the first n, to be carried on at the next cluster.
Rest(t, n) == [t EXCEPT !.task = "next", !.units = SubSeq(@, n + 1, Len(@))]

\* What is left of a task are its last units.
LEMMA RestUnits ==
  ASSUME NEW t \in Tasks, t.task \in {"write", "next"}, NEW n \in Nat, n <= Len(t.units)
  PROVE  /\ Rest(t, n) \in Tasks /\ Rest(t, n).task = "next"
         /\ Units(Rest(t, n)) = Rest(t, n).units /\ Len(Rest(t, n).units) = Len(t.units) - n
         /\ \A k \in DOMAIN Rest(t, n).units :
               /\ k + n \in (n + 1)..Len(t.units)
               /\ Rest(t, n).units[k] = t.units[k + n]
         /\ DOMAIN Rest(t, n).units = 1..(Len(t.units) - n)
<1>1. /\ t = [task |-> t.task, cluster |-> t.cluster, index |-> t.index, at |-> t.at, units |-> t.units]
      /\ t.cluster \in Clusters /\ t.index \in Nat /\ t.at \in Nat /\ t.units \in Seq(Unit)
  BY DEF Tasks
<1>2. PICK u \in Seq(Unit), m \in Nat : u = t.units /\ m = Len(u)
  BY <1>1
<1>3. PICK v : v = SubSeq(u, n + 1, m)
  OBVIOUS
<1>4. v \in Seq(Unit) /\ Len(v) = m - n /\ \A k \in 1..(m - n) : v[k] = u[k + n]
  <2>1. n <= m /\ \A i \in (n + 1)..m : u[i] \in Unit
    BY <1>2
  <2>2. /\ v \in Seq(Unit) /\ Len(v) = IF n + 1 <= m THEN m - (n + 1) + 1 ELSE 0
        /\ \A i \in 1..(m - (n + 1) + 1) : v[i] = u[(n + 1) + i - 1]
    BY <1>3, <2>1, SubSeqProperties
  <2>3. m - (n + 1) + 1 = m - n /\ (n + 1 <= m \/ m = n)
    BY <2>1
  <2>4. Len(v) = m - n
    BY <2>2, <2>3
  <2>5. ASSUME NEW i \in 1..(m - n) PROVE v[i] = u[i + n]
    <3>1. (n + 1) + i - 1 = i + n
      OBVIOUS
    <3>2. v[i] = u[(n + 1) + i - 1]
      BY <2>2, <2>3
    <3> QED BY <3>1, <3>2
  <2> QED BY <2>2, <2>4, <2>5
<1>5. Rest(t, n) = [task |-> "next", cluster |-> t.cluster, index |-> t.index, at |-> t.at, units |-> v]
  <2>1. Rest(t, n) = [t EXCEPT !.task = "next", !.units = v]
    BY <1>1, <1>2, <1>3 DEF Rest
  <2>2. PICK a, c, i, b : t = [task |-> a, cluster |-> c, index |-> i, at |-> b, units |-> u]
    BY <1>1, <1>2
  <2> QED BY <2>1, <2>2
<1>6. Rest(t, n) \in Tasks /\ Rest(t, n).task = "next" /\ Rest(t, n).units = v
  BY <1>1, <1>4, <1>5 DEF Tasks
<1>7. DOMAIN v = 1..(m - n)
  BY <1>4
<1> QED BY <1>2, <1>4, <1>6, <1>7 DEF Units

\* What is left of a task claims no more than the task.
LEMMA RestClaims ==
  ASSUME NEW t \in Tasks, t.task \in {"write", "next"}, NEW n \in Nat, n <= Len(t.units)
  PROVE  /\ Claimed(Rest(t, n)) \subseteq Claimed(t)
         /\ \A c \in Claimed(Rest(t, n)) : \E k \in (n + 1)..Len(t.units) : Leads(t.units[k], c)
<1>1. Units(t) = t.units /\ t.units \in Seq(Unit)
  BY TaskFields DEF Units
<1>2. Len(t.units) \in Nat /\ DOMAIN t.units = 1..Len(t.units)
  BY <1>1
<1>3. ASSUME NEW c \in Claimed(Rest(t, n)) 
      PROVE  c \in Clusters /\ \E k \in (n + 1)..Len(t.units) : Leads(t.units[k], c)
  <2>1. PICK r : r = Rest(t, n)
    OBVIOUS
  <2>2. c \in Clusters /\ \E k \in DOMAIN r.units : Leads(r.units[k], c)
    BY <2>1, RestUnits DEF Claimed
  <2>3. \A k \in DOMAIN r.units : k + n \in (n + 1)..Len(t.units) /\ r.units[k] = t.units[k + n]
    BY <2>1, RestUnits
  <2> QED BY <2>2, <2>3
<1>4. \A k \in (n + 1)..Len(t.units) : k \in DOMAIN t.units
  BY <1>2
<1> QED BY <1>1, <1>3, <1>4 DEF Claimed

\* Nothing points to what is left of a task when it claims to be safe.
LEMMA UnclaimedSafe ==
  ASSUME NEW t, NEW r, ClaimsSafe(t), NEW n \in Nat,
         \A k \in DOMAIN Units(r) : k \in Nat /\ k + n \in DOMAIN Units(t) /\ Units(r)[k] = Units(t)[k + n],
         \A c \in Claimed(r) : \A l : ~(l \in Pointers(c))'
  PROVE  ClaimsSafe(r)'
<1>1. ASSUME NEW j \in DOMAIN Units(r), NEW k \in DOMAIN Units(r),
             \E c \in Clusters : Leads(Units(r)[j], c), \E c \in Clusters : Leads(Units(r)[k], c)
      PROVE  j = k
  <2>1. j + n = k + n
    BY <1>1 DEF ClaimsSafe
  <2> QED BY <2>1
<1> QED BY <1>1 DEF ClaimsSafe

\* Places of cluster x.
DataPlaces(x, from, n) == [k \in 1..n |-> <<"data", x, from + k - 1>>]

\* Cluster x with units written in it.
Filled(x, from, n, units) ==
    [data EXCEPT ![x] = [k \in DOMAIN @ |-> IF k \in from..(from + n - 1) THEN units[k - from + 1] ELSE @[k]]]

\* Writing in one cluster adds pointers only where it writes.
LEMMA ClusterFilled ==
  ASSUME TypeOK, NEW x \in Clusters, NEW from \in Nat, NEW n \in Nat, from + n <= ClusterSize,
         NEW units \in Seq(Unit), n <= Len(units)
  PROVE  /\ Filled(x, from, n, units) \in [Clusters -> [0..(ClusterSize - 1) -> Unit]]
         /\ \A c, l : PointsTo(fat, root, Filled(x, from, n, units), l, c) =>
               \/ PointsTo(fat, root, data, l, c)
               \/ \E k \in 1..n : Leads(units[k], c) /\ l = DataPlaces(x, from, n)[k]
<1> DEFINE d == Filled(x, from, n, units)
<1> DEFINE row == [k \in 0..(ClusterSize - 1) |->
                      IF k \in from..(from + n - 1) THEN units[k - from + 1] ELSE data[x][k]]
<1>1. /\ data[x] \in [0..(ClusterSize - 1) -> Unit] /\ data \in [Clusters -> [0..(ClusterSize - 1) -> Unit]]
      /\ DOMAIN data[x] = 0..(ClusterSize - 1)
  BY DEF TypeOK
<1>2. d = [data EXCEPT ![x] = row]
  BY <1>1 DEF Filled
<1>3. Len(units) \in Nat /\ \A k \in 1..n : units[k] \in Unit
  OBVIOUS
<1>4. \A k \in from..(from + n - 1) : k - from + 1 \in 1..n /\ from + (k - from + 1) - 1 = k
  OBVIOUS
<1>5. row \in [0..(ClusterSize - 1) -> Unit]
  <2> SUFFICES ASSUME NEW k \in 0..(ClusterSize - 1)
               PROVE  (IF k \in from..(from + n - 1) THEN units[k - from + 1] ELSE data[x][k]) \in Unit
    OBVIOUS
  <2> QED BY <1>1, <1>3, <1>4
<1>6. \A k \in 0..(ClusterSize - 1) :
         row[k] = IF k \in from..(from + n - 1) THEN units[k - from + 1] ELSE data[x][k]
  OBVIOUS
<1> HIDE DEF row, d
<1>7. d \in [Clusters -> [0..(ClusterSize - 1) -> Unit]] /\ d[x] = row
      /\ \A y \in Clusters : y # x => d[y] = data[y]
  BY <1>1, <1>2, <1>5
<1>8. ASSUME NEW c, NEW l, PointsTo(fat, root, d, l, c), ~PointsTo(fat, root, data, l, c)
      PROVE  \E k \in 1..n : Leads(units[k], c) /\ l = DataPlaces(x, from, n)[k]
  <2>1. \E y \in Clusters, i \in 0..(ClusterSize - 1) : Leads(d[y][i], c) /\ l = <<"data", y, i>>
    BY <1>8 DEF PointsTo
  <2>2. PICK y \in Clusters, i \in 0..(ClusterSize - 1) : Leads(d[y][i], c) /\ l = <<"data", y, i>>
    BY <2>1
  <2>3. ~Leads(data[y][i], c)
    BY <1>8, <2>2 DEF PointsTo
  <2>4. y = x /\ Leads(row[i], c)
    BY <1>7, <2>2, <2>3
  <2>5. i \in from..(from + n - 1)
    BY <1>6, <2>3, <2>4
  <2>6. i - from + 1 \in 1..n /\ from + (i - from + 1) - 1 = i
    BY <1>4, <2>5
  <2>7. Leads(units[i - from + 1], c)
    BY <1>6, <2>4, <2>5
  <2>8. DataPlaces(x, from, n)[i - from + 1] = l
    BY <2>2, <2>4, <2>6 DEF DataPlaces
  <2> QED BY <2>6, <2>7, <2>8
<1> QED BY <1>7, <1>8 DEF d

\* One round of write_to_cluster_chain.
LEMMA WriteInv ==
  ASSUME Fat16Inv, WriteCluster PROVE Fat16Inv'
<1> USE DEF Fat16Inv
<1>1. todo # <<>> /\ Task.task = "write"
  BY DEF WriteCluster, Doing
<1>2. Task \in Tasks /\ Task.cluster \in Clusters /\ Task.index \in Nat /\ Task.at \in Nat
      /\ Task.units \in Seq(Unit)
  BY <1>1, HeadAndTail, TaskFields
<1>3. PICK x \in Clusters, at \in Nat, units \in Seq(Unit), len \in Nat :
         x = Task.cluster /\ at = Task.at /\ units = Task.units /\ len = Len(units)
  BY <1>2
<1>4. PICK from \in Nat : from = IF Task.index = at \div ClusterSize THEN at % ClusterSize ELSE 0
  BY Fat16Assumption
<1>5. PICK n \in Nat : n = IF len > ClusterSize - from THEN ClusterSize - from ELSE len
  <2>1. from < ClusterSize
    BY <1>4, Fat16Assumption
  <2>2. ClusterSize - from \in Nat
    BY <2>1, Fat16Assumption
  <2>3. CASE len > ClusterSize - from
    BY <2>2, <2>3
  <2>4. CASE ~(len > ClusterSize - from)
    BY <2>4
  <2> QED BY <2>3, <2>4
<1>6. from < ClusterSize /\ from + n <= ClusterSize /\ n <= len
  BY <1>4, <1>5, Fat16Assumption
<1>7. /\ data' = Filled(x, from, n, units)
      /\ todo' = <<Rest(Task, n)>> \o Tail(todo)
      /\ fat' = fat /\ root' = root /\ cuts' = cuts /\ halted' = halted
  BY <1>3, <1>4, <1>5 DEF WriteCluster, Filled, Rest
<1>8. PICK h \in Seq(Tasks), r \in Tasks : h = <<r>> /\ r = Rest(Task, n)
  <2>1. Rest(Task, n) \in Tasks
    BY <1>1, <1>2, <1>3, <1>6, RestUnits
  <2>2. PICK r \in Tasks : r = Rest(Task, n)
    BY <2>1
  <2>3. <<r>> \in Seq(Tasks)
    OBVIOUS
  <2> QED BY <2>2, <2>3
<1>9. Len(h) = 1 /\ h[1] = r /\ todo' = h \o Tail(todo)
  BY <1>7, <1>8
<1>10. TypeOK'
  <2>1. todo' \in Seq(Tasks)
    BY <1>1, <1>9, RestTyped
  <2>2. data' \in [Clusters -> [0..(ClusterSize - 1) -> Unit]]
    BY <1>3, <1>6, <1>7, ClusterFilled
  <2> QED BY <1>7, <2>1, <2>2 DEF TypeOK
<1>11. ASSUME NEW c \in Clusters, NEW l, (l \in Pointers(c))'
       PROVE  l \in Pointers(c) \/ \E k \in 1..n : Leads(units[k], c) /\ l = DataPlaces(x, from, n)[k]
  <2>1. PointsTo(fat, root, Filled(x, from, n, units), l, c)
    BY <1>7, <1>10, <1>11, PointersAreAfter
  <2>2. \/ PointsTo(fat, root, data, l, c)
        \/ \E k \in 1..n : Leads(units[k], c) /\ l = DataPlaces(x, from, n)[k]
    <3>1. n <= Len(units)
      BY <1>3, <1>6
    <3>2. \A b, p : PointsTo(fat, root, Filled(x, from, n, units), p, b) =>
               \/ PointsTo(fat, root, data, p, b)
               \/ \E k \in 1..n : Leads(units[k], b) /\ p = DataPlaces(x, from, n)[k]
      BY <1>6, <3>1, ClusterFilled
    <3> QED BY <2>1, <3>2
  <2> QED BY <2>2, PointersAre
<1>12. ASSUME NEW l, Lands(Task, l) PROVE n = 1 /\ l = DataPlaces(x, from, n)[1]
  <2>1. /\ len = 1 /\ Task.index = at \div ClusterSize
        /\ \E w : w[Task.index] = x /\ l = <<"data", w[at \div ClusterSize], at % ClusterSize>>
    BY <1>1, <1>3, <1>12 DEF Lands
  <2>2. l = <<"data", x, from>> /\ n = 1
    BY <1>4, <1>5, <1>6, <2>1, Fat16Assumption
  <2>3. from + 1 - 1 = from /\ 1 \in 1..1
    OBVIOUS
  <2> QED BY <2>2, <2>3 DEF DataPlaces
<1>13. /\ NoCrossLinks'
       /\ \A c \in Clusters : ClaimedLater(c) => \A l : (l \in Pointers(c))' => l \in Pointers(c)
       /\ \A k \in (n + 1)..Len(Task.units), c \in Clusters :
             Leads(Task.units[k], c) => Pointers(c)' = {}
  <2>1. n <= Len(Task.units) /\ Task.task \in {"root", "write"}
    BY <1>1, <1>3, <1>6
  <2>2. \A c \in Clusters : \A l : (l \in Pointers(c))' =>
            l \in Pointers(c) \/ \E k \in 1..n : Leads(Task.units[k], c) /\ l = DataPlaces(x, from, n)[k]
    BY <1>3, <1>11
  <2> QED BY <1>1, <1>7, <1>10, <1>12, <2>1, <2>2, UnitsWritten
<1>14. Claimed(r) \subseteq Claimed(Task) /\ \A c \in Claimed(r) : Pointers(c)' = {}
  <2>1. /\ Claimed(r) \subseteq Claimed(Task)
        /\ \A c \in Claimed(r) : \E k \in (n + 1)..Len(Task.units) : Leads(Task.units[k], c)
    BY <1>1, <1>2, <1>3, <1>6, <1>8, RestClaims
  <2>2. \A c \in Claimed(r) : c \in Clusters
    BY DEF Claimed
  <2> QED BY <1>13, <2>1, <2>2
<1>15. ClaimsSafe(r)' /\ r.task = "next"
  <2>1. PICK t : t = Task
    OBVIOUS
  <2>2. ClaimsSafe(t) /\ Units(t) = units
    BY <1>1, <1>3, <2>1, HeadAndTail DEF WritesSafe, Units
  <2>3. /\ r.task = "next" /\ Units(r) = r.units
        /\ \A k \in DOMAIN r.units : k + n \in (n + 1)..len /\ r.units[k] = units[k + n]
        /\ DOMAIN r.units = 1..(len - n)
    BY <1>1, <1>2, <1>3, <1>6, <1>8, RestUnits
  <2>4. \A k \in DOMAIN Units(r) : k \in Nat /\ k + n \in DOMAIN Units(t) /\ Units(r)[k] = Units(t)[k + n]
    BY <1>3, <2>2, <2>3
  <2>5. \A c \in Claimed(r) : \A l : ~(l \in Pointers(c))'
    BY <1>14
  <2> QED BY <2>2, <2>3, <2>4, <2>5, UnclaimedSafe
<1>16. WritesSafe'
  BY <1>1, <1>7, <1>9, <1>10, <1>13, <1>14, <1>15, ReplaceHead
<1> QED BY <1>10, <1>13, <1>16

\* Task t goes on to write units from cluster c.
GoesOn(t, c, index, at, units) ==
    /\ t.task \in {"write", "next"} /\ (t.task = "write" <=> index >= at \div ClusterSize)
    /\ t.cluster = c /\ t.index = index /\ t.at = at /\ t.units = units /\ Units(t) = units

\* The task that the top of write_to_cluster_chain's loop goes on with.
LEMMA AtTopIs ==
  ASSUME NEW c, NEW index \in Nat, NEW at \in Nat, NEW units \in Seq(Unit), units # <<>> => c \in Clusters
  PROVE  \/ units = <<>> /\ AtTop(c, index, at, units) = <<>>
         \/ \E t \in Tasks : AtTop(c, index, at, units) = <<t>> /\ GoesOn(t, c, index, at, units)
<1>1. CASE units = <<>>
  BY <1>1 DEF AtTop
<1>2. CASE units # <<>>
  <2>1. PICK t : t = [task |-> IF index >= at \div ClusterSize THEN "write" ELSE "next",
                      cluster |-> c, index |-> index, at |-> at, units |-> units]
    OBVIOUS
  <2>2. AtTop(c, index, at, units) = <<t>>
    BY <1>2, <2>1 DEF AtTop
  <2>3. /\ t.task \in {"write", "next"} /\ (t.task = "write" <=> index >= at \div ClusterSize)
        /\ t.cluster = c /\ t.index = index /\ t.at = at /\ t.units = units
    BY <2>1
  <2>4. t \in Tasks
    BY <1>2, <2>1 DEF Tasks
  <2> QED BY <2>2, <2>3, <2>4 DEF Units, GoesOn
<1> QED BY <1>1, <1>2

\* The same pointers as before.
SamePointers == \A c \in Clusters : \A l : (l \in Pointers(c))' <=> l \in Pointers(c)

\* On the same disk the same places point to a cluster.
LEMMA SameDisk ==
  ASSUME fat' = fat, root' = root, data' = data PROVE SamePointers
BY DEF SamePointers, Pointers

\* A task goes on at the next cluster of the chain.
LEMMA LandsNext ==
  ASSUME NEW t \in Tasks, NEW u \in Tasks, NEW l, TypeOK, t.task = "next", Lands(t, l),
         u.task \in {"write", "next"}, u.task = "write" <=> u.index >= u.at \div ClusterSize,
         u.cluster = fat[t.cluster], u.index = t.index + 1, u.at = t.at, u.units = t.units
  PROVE  Lands(u, l)
<1> DEFINE m == t.at \div ClusterSize
<1>1. t.at \in Nat /\ t.index \in Nat /\ Len(t.units) = 1
  BY TaskFields DEF Lands
<1>2. m \in Nat
  BY <1>1, Fat16Assumption
<1>3. /\ t.index <= m /\ t.index # m
      /\ \E w \in [t.index..m -> Clusters] :
            /\ w[t.index] = t.cluster
            /\ \A k \in t.index..(m - 1) : fat[w[k]] = w[k + 1]
            /\ l = <<"data", w[m], t.at % ClusterSize>>
  BY DEF Lands
<1>4. PICK w \in [t.index..m -> Clusters] :
            /\ w[t.index] = t.cluster
            /\ \A k \in t.index..(m - 1) : fat[w[k]] = w[k + 1]
            /\ l = <<"data", w[m], t.at % ClusterSize>>
  BY <1>3
<1> HIDE DEF m
<1>5. PICK i \in Nat : i = t.index
  BY <1>1
<1>6. i < m
  BY <1>2, <1>3, <1>5
<1> DEFINE v == [k \in (i + 1)..m |-> w[k]]
<1>7. v \in [(i + 1)..m -> Clusters] /\ v[i + 1] = fat[t.cluster] /\ v[m] = w[m]
  <2>1. \A k \in (i + 1)..m : k \in i..m
    OBVIOUS
  <2>2. i \in i..(m - 1) /\ i + 1 \in (i + 1)..m /\ m \in (i + 1)..m
    BY <1>2, <1>6
  <2>3. fat[w[i]] = w[i + 1] /\ w[i] = t.cluster
    BY <1>4, <1>5, <2>2
  <2> QED BY <1>5, <2>1, <2>2, <2>3
<1>8. \A k \in (i + 1)..(m - 1) : fat[v[k]] = v[k + 1]
  <2> SUFFICES ASSUME NEW k \in (i + 1)..(m - 1) PROVE fat[v[k]] = v[k + 1]
    OBVIOUS
  <2>1. k \in i..(m - 1) /\ k \in (i + 1)..m /\ k + 1 \in (i + 1)..m
    BY <1>2
  <2> QED BY <1>4, <1>5, <2>1
<1> HIDE DEF v
<1>9. i + 1 <= m /\ u.index = i + 1 /\ (u.task = "write" <=> u.index = m)
  BY <1>2, <1>5, <1>6 DEF m
<1>10. \E z \in [u.index..m -> Clusters] :
          /\ z[u.index] = u.cluster
          /\ \A k \in u.index..(m - 1) : fat[z[k]] = z[k + 1]
          /\ l = <<"data", z[m], t.at % ClusterSize>>
  BY <1>4, <1>7, <1>8, <1>9
<1>11. u.task \in {"root", "write", "next"} /\ Len(u.units) = 1 /\ u.task # "root" /\ u.index <= m
  BY <1>1, <1>9
<1> QED BY <1>9, <1>10, <1>11 DEF Lands, m

\* An operation that ends early, by a power cut or a stop of the kernel, leaves
\* nothing to do.
LEMMA StopInv ==
  ASSUME Fat16Inv, todo' = <<>>, fat' = fat, root' = root, data' = data,
         cuts' \in 0..MaxCuts, halted' \in {"no", "full", "root", "wild"}
  PROVE  Fat16Inv'
<1> USE DEF Fat16Inv
<1>1. TypeOK'
  <2>1. <<>> \in Seq(Tasks)
    OBVIOUS
  <2> QED BY <2>1 DEF TypeOK
<1>2. NoCrossLinks'
  BY SameDisk DEF SamePointers, NoCrossLinks
<1>3. WritesSafe'
  BY DEF WritesSafe
<1> QED BY <1>1, <1>2, <1>3

\* What points to a cluster that the task at hand claims.
LEMMA TaskClaims ==
  ASSUME Fat16Inv, todo # <<>>
  PROVE  /\ ClaimsSafe(Task)
         /\ \A c \in Claimed(Task) : \A l \in Pointers(c) : Lands(Task, l)
         /\ Task.task # "mark" =>
               \A i \in DOMAIN todo : \A c \in Claimed(todo[i]) : ~is_free_cluster_num(fat[c])
  BY HeadAndTail DEF Fat16Inv, WritesSafe, ClaimsSafe

\* Following a link of the chain.
LEMMA FollowInv ==
  ASSUME Fat16Inv, FollowLink, halted' = halted PROVE Fat16Inv'
<1> USE DEF Fat16Inv
<1>1. todo # <<>> /\ Task.task = "next"
  BY DEF FollowLink, Doing
<1>2. /\ Task.units # <<>> => fat[Task.cluster] \in Clusters
      /\ todo' = AtTop(fat[Task.cluster], Task.index + 1, Task.at, Task.units) \o Tail(todo)
      /\ fat' = fat /\ root' = root /\ data' = data /\ cuts' = cuts
  BY DEF FollowLink, Doing, Halt, Advance, Continue, is_invalid_cluster_num
<1>3. Task \in Tasks /\ Task.index \in Nat /\ Task.at \in Nat /\ Task.units \in Seq(Unit)
  BY <1>1, HeadAndTail, TaskFields
<1>4. PICK t \in Tasks : t = Task
  BY <1>3
<1>0. PICK c : c = fat[t.cluster]
  OBVIOUS
<1>5. PICK i \in Nat, a \in Nat, s \in Seq(Unit) : i = t.index + 1 /\ a = t.at /\ s = t.units
  BY <1>3, <1>4
<1>6. todo' = AtTop(c, i, a, s) \o Tail(todo) /\ (s # <<>> => c \in Clusters)
  BY <1>2, <1>4, <1>5, <1>0
<1>7. ClaimsSafe(t) /\ Units(t) = s
  BY <1>1, <1>4, <1>5, TaskClaims DEF Units
<1>8. SamePointers
  BY <1>2, SameDisk
<1>9. NoCrossLinks'
  BY <1>2, <1>8 DEF SamePointers, NoCrossLinks
<1>10. CASE AtTop(c, i, a, s) = <<>>
  <2>1. todo' = Tail(todo) /\ todo' \in Seq(Tasks)
    BY <1>1, <1>6, <1>10, RestOnly, HeadAndTail
  <2>2. TypeOK'
    BY <1>2, <2>1 DEF TypeOK
  <2>3. WritesSafe'
    BY <1>1, <1>2, <1>8, <2>1, <2>2, DropHead DEF SamePointers
  <2> QED BY <1>9, <2>2, <2>3
<1>11. ASSUME NEW u \in Tasks, AtTop(c, i, a, s) = <<u>>, GoesOn(u, c, i, a, s)
       PROVE  Fat16Inv'
  <2> USE <1>11 DEF GoesOn
  <2>1. Claimed(u) = Claimed(t)
    BY <1>7, <1>11 DEF Claimed
  <2>2. ASSUME NEW b \in Claimed(u), NEW l, (l \in Pointers(b))' PROVE Lands(u, l)'
    <3>1. b \in Clusters /\ l \in Pointers(b)
      BY <1>8, <2>2 DEF SamePointers, Claimed
    <3>2. Lands(t, l)
      BY <1>7, <2>1, <3>1 DEF ClaimsSafe
    <3>3. Lands(u, l)
      BY <1>0, <1>1, <1>4, <1>5, <3>2, LandsNext
    <3> QED BY <1>2, <3>3, LandsKept
  <2>3. ClaimsSafe(u)'
    <3>1. \A j, k \in DOMAIN Units(u) :
            (\E b \in Clusters : Leads(Units(u)[j], b)) /\ (\E b \in Clusters : Leads(Units(u)[k], b))
            => j = k
      BY <1>7, <1>11 DEF ClaimsSafe
    <3> QED BY <2>2, <3>1 DEF ClaimsSafe
  <2>4. todo' = <<u>> \o Tail(todo) /\ todo' \in Seq(Tasks)
    BY <1>1, <1>6, <1>11, SwapTyped
  <2>5. TypeOK'
    BY <1>2, <2>4 DEF TypeOK
  <2>6. Task.task # "mark" /\ u.task # "mark" /\ u.task # "link" /\ Claimed(u) \subseteq Claimed(Task)
    BY <1>1, <1>4, <1>11, <2>1
  <2>7. WritesSafe'
    BY <1>1, <1>2, <1>8, <2>3, <2>4, <2>5, <2>6, SwapHead DEF SamePointers
  <2> QED BY <1>9, <2>5, <2>7
<1>12. \/ AtTop(c, i, a, s) = <<>>
       \/ \E u \in Tasks : AtTop(c, i, a, s) = <<u>> /\ GoesOn(u, c, i, a, s)
  BY <1>6, AtTopIs
<1> QED BY <1>10, <1>11, <1>12

\* find_free_cluster_number finds a free cluster where there is one.
LEMMA FirstFreeIsFree ==
  ASSUME FreeClusters # {}
  PROVE  FirstFree \in FreeClusters
<1> DEFINE R == {ss \in Nat \X Nat : ss[1] < ss[2]}
<1> DEFINE F == FreeClusters
<1>1. IsWellFoundedOn(R, Nat)
  BY NatLessThanWellFounded DEF OpToRel
<1>2. F \subseteq Nat /\ F # {}
  BY DEF FreeClusters, Clusters
<1>3. PICK x \in F : \A y \in F : <<y, x>> \notin R
  <2> HIDE DEF R, F
  <2> QED BY <1>1, <1>2, WFMin
<1>4. \A y \in F : x <= y
  <2> SUFFICES ASSUME NEW y \in F PROVE x <= y
    OBVIOUS
  <2>1. x \in Nat /\ y \in Nat
    BY <1>2
  <2>2. ~(y < x)
    <3>1. <<y, x>> \in Nat \X Nat /\ <<y, x>>[1] = y /\ <<y, x>>[2] = x
      BY <2>1
    <3> QED BY <1>3, <3>1
  <2> QED BY <2>1, <2>2
<1>5. \E c \in FreeClusters : \A d \in FreeClusters : c <= d
  BY <1>3, <1>4
<1> QED BY <1>5 DEF FirstFree

\* Nothing points to a free cluster.
LEMMA FreeHasNoPointers ==
  ASSUME TypeOK, NoCrossLinks, FreeClusters # {}
  PROVE  /\ FirstFree \in Clusters /\ is_free_cluster_num(fat[FirstFree])
         /\ fat[FirstFree] \notin Clusters /\ Pointers(FirstFree) = {}
<1>1. FirstFree \in Clusters /\ is_free_cluster_num(fat[FirstFree])
  BY FirstFreeIsFree DEF FreeClusters
<1> QED BY <1>1, MarksAreNoClusters DEF NoCrossLinks

\* At the end of the chain, a free cluster is marked as its new end.
LEMMA ExtendInv ==
  ASSUME Fat16Inv, ExtendChain, halted' = halted PROVE Fat16Inv'
<1> USE DEF Fat16Inv
<1>1. todo # <<>> /\ Task.task = "next" /\ is_end_of_ll_num(fat[Task.cluster]) /\ FreeClusters # {}
  BY DEF ExtendChain, Doing, Halt
<1>2. PICK t \in Tasks : t = Task
  BY <1>1, HeadAndTail
<1>3. t.cluster \in Clusters /\ t.index \in Nat /\ t.at \in Nat /\ t.units \in Seq(Unit) /\ t.task = "next"
  BY <1>1, <1>2, TaskFields
<1>4. PICK x \in Clusters : x = FirstFree
  BY <1>1, FreeHasNoPointers
<1>5. is_free_cluster_num(fat[x]) /\ fat[x] \notin Clusters /\ Pointers(x) = {}
  BY <1>1, <1>4, FreeHasNoPointers
<1>6. PICK u : u = [task |-> "link", cluster |-> t.cluster, index |-> t.index,
                    at |-> t.at, units |-> t.units, new |-> x]
  OBVIOUS
<1>7. u \in Tasks /\ u.task = "link" /\ u.cluster = t.cluster /\ u.units = t.units /\ u.new = x
  BY <1>3, <1>6 DEF Tasks
<1>8. /\ fat' = [fat EXCEPT ![x] = EndOfChain] /\ todo' = <<u>> \o Tail(todo)
      /\ root' = root /\ data' = data /\ cuts' = cuts
  BY <1>2, <1>4, <1>6 DEF ExtendChain, Doing, Halt, write_fat
<1>9. fat[t.cluster] = EndOfChain /\ t.cluster # x
  BY <1>1, <1>2, <1>3, <1>5, MarksAreNoClusters DEF TypeOK
<1>10. \A y \in Clusters : fat'[y] = IF y = x THEN EndOfChain ELSE fat[y]
  BY <1>8 DEF TypeOK
<1>11. TypeOK'
  <2>1. fat' \in [Clusters -> {0, EndOfChain} \cup Clusters]
    BY <1>8 DEF TypeOK
  <2>2. todo' \in Seq(Tasks)
    BY <1>1, <1>7, <1>8, SwapTyped
  <2> QED BY <1>8, <2>1, <2>2 DEF TypeOK
<1>12. SamePointers
  <2> SUFFICES ASSUME NEW c \in Clusters, NEW l PROVE (l \in Pointers(c))' <=> l \in Pointers(c)
    BY DEF SamePointers
  <2>1. PointsTo(fat', root', data', l, c) <=> PointsTo(fat, root, data, l, c)
    <3>1. EndOfChain # c
      BY MarksAreNoClusters
    <3>2. PointsTo([fat EXCEPT ![x] = EndOfChain], root, data, l, c) <=> PointsTo(fat, root, data, l, c)
      BY <1>5, <3>1, TableWrite, DiskTyped
    <3> QED BY <1>8, <3>2
  <2> QED BY <1>11, <2>1, PointersAre, PointersAreAfter
<1>13. \A y \in Clusters : is_free_cluster_num(fat'[y]) => is_free_cluster_num(fat[y])
  BY <1>10, MarksAreNoClusters
<1>14. NoCrossLinks'
  BY <1>12, <1>13 DEF SamePointers, NoCrossLinks
<1>15. Units(u) = Units(t) /\ Claimed(u) = Claimed(t)
  BY <1>3, <1>7 DEF Units, Claimed
<1>16. ASSUME NEW c \in Claimed(t), NEW l, l \in Pointers(c) PROVE FALSE
  <2>1. Lands(t, l)
    BY <1>1, <1>2, <1>16, TaskClaims
  <2>2. PICK m \in Nat : m = t.at \div ClusterSize
    BY <1>3, Fat16Assumption
  <2>3. /\ t.index <= m /\ t.index # m
        /\ \E w \in [t.index..m -> Clusters] :
              w[t.index] = t.cluster /\ \A k \in t.index..(m - 1) : fat[w[k]] = w[k + 1]
    BY <1>3, <2>1, <2>2 DEF Lands
  <2>4. PICK w \in [t.index..m -> Clusters] :
              w[t.index] = t.cluster /\ \A k \in t.index..(m - 1) : fat[w[k]] = w[k + 1]
    BY <2>3
  <2>5. t.index \in t.index..(m - 1) /\ t.index + 1 \in t.index..m
    BY <1>3, <2>3
  <2>6. fat[t.cluster] \in Clusters
    BY <2>4, <2>5
  <2> QED BY <1>9, <2>6, MarksAreNoClusters
<1>17. ClaimsSafe(u)'
  <2>1. \A j, k \in DOMAIN Units(u) :
            (\E b \in Clusters : Leads(Units(u)[j], b)) /\ (\E b \in Clusters : Leads(Units(u)[k], b))
            => j = k
    BY <1>1, <1>2, <1>15, TaskClaims DEF ClaimsSafe
  <2>2. \A c \in Claimed(u) : c \in Clusters
    BY DEF Claimed
  <2>3. \A c \in Claimed(u) : \A l : ~(l \in Pointers(c))'
    BY <1>12, <1>15, <1>16, <2>2 DEF SamePointers
  <2> QED BY <2>1, <2>3 DEF ClaimsSafe
<1>18. \A i \in DOMAIN todo : x \notin Claimed(todo[i])
  BY <1>1, <1>5, TaskClaims
<1>19. LinkSafe(u)' /\ ~ClaimedLater(u.new)
  <2>1. fat'[u.cluster] = EndOfChain /\ fat'[u.new] = EndOfChain
    BY <1>3, <1>7, <1>9, <1>10
  <2>2. \A l : ~(l \in Pointers(x))'
    BY <1>5, <1>12 DEF SamePointers
  <2>3. x \notin Claimed(u) /\ ~ClaimedLater(x)
    BY <1>1, <1>2, <1>15, <1>18, HeadAndTail DEF ClaimedLater
  <2> QED BY <1>7, <2>1, <2>2, <2>3 DEF LinkSafe
<1>20. WritesSafe'
  <2>1. Task.task # "mark" /\ u.task # "mark" /\ Claimed(u) \subseteq Claimed(Task)
    BY <1>1, <1>2, <1>7, <1>15
  <2>2. \A y \in Clusters : fat[y] \in Clusters => fat'[y] = fat[y]
    BY <1>5, <1>10
  <2>3. \A c \in Clusters : ClaimedLater(c) => \A l : (l \in Pointers(c))' => l \in Pointers(c)
    BY <1>12 DEF SamePointers
  <2> QED BY <1>1, <1>7, <1>8, <1>11, <1>13, <1>17, <1>19, <2>1, <2>2, <2>3, SwapHead
<1> QED BY <1>11, <1>14, <1>20

\* The new cluster is linked to the end of the chain.
LEMMA LinkInv ==
  ASSUME Fat16Inv, LinkCluster PROVE Fat16Inv'
<1> USE DEF Fat16Inv
<1>1. todo # <<>> /\ Task.task = "link"
  BY DEF LinkCluster, Doing
<1>2. PICK t \in Tasks : t = Task
  BY <1>1, HeadAndTail
<1>3. /\ t.cluster \in Clusters /\ t.index \in Nat /\ t.at \in Nat /\ t.units \in Seq(Unit)
      /\ t.new \in Clusters /\ t.task = "link"
  BY <1>1, <1>2, TaskFields
<1>4. PICK x \in Clusters, y \in Clusters, i \in Nat, a \in Nat, s \in Seq(Unit) :
         x = t.cluster /\ y = t.new /\ i = t.index + 1 /\ a = t.at /\ s = t.units
  BY <1>3
<1>5. /\ fat' = [fat EXCEPT ![x] = y] /\ todo' = AtTop(y, i, a, s) \o Tail(todo)
      /\ root' = root /\ data' = data /\ cuts' = cuts /\ halted' = halted
  BY <1>2, <1>4 DEF LinkCluster, write_fat, Advance, Continue
<1>6. /\ fat[x] = EndOfChain /\ fat[y] = EndOfChain /\ Pointers(y) = {}
      /\ \A j \in DOMAIN todo : y \notin Claimed(todo[j])
  BY <1>1, <1>2, <1>4 DEF WritesSafe
<1>7. \A z \in Clusters : fat'[z] = IF z = x THEN y ELSE fat[z]
  BY <1>5 DEF TypeOK
<1>8. ASSUME todo' \in Seq(Tasks) PROVE TypeOK'
  <2>1. fat' \in [Clusters -> {0, EndOfChain} \cup Clusters]
    BY <1>5 DEF TypeOK
  <2> QED BY <1>5, <1>8, <2>1 DEF TypeOK
<1>9. \A z \in Clusters : is_free_cluster_num(fat'[z]) => is_free_cluster_num(fat[z])
  BY <1>7, MarksAreNoClusters
<1>10. \A z \in Clusters : fat[z] \in Clusters => fat'[z] = fat[z]
  BY <1>6, <1>7, MarksAreNoClusters
<1>11. ASSUME TypeOK', NEW c \in Clusters, NEW l
       PROVE  (l \in Pointers(c))' <=> l \in Pointers(c) \/ (y = c /\ l = <<"fat", x, 0>>)
  <2>1. fat[x] \notin Clusters
    BY <1>6, MarksAreNoClusters
  <2>2. PointsTo([fat EXCEPT ![x] = y], root, data, l, c)
           <=> PointsTo(fat, root, data, l, c) \/ (y = c /\ l = <<"fat", x, 0>>)
    BY <2>1, TableWrite, DiskTyped
  <2>3. PointsTo(fat', root', data', l, c)
           <=> PointsTo(fat, root, data, l, c) \/ (y = c /\ l = <<"fat", x, 0>>)
    BY <1>5, <2>2
  <2> QED BY <1>11, <2>3, PointersAre, PointersAreAfter
<1>12. ASSUME TypeOK' PROVE NoCrossLinks'
  <2>1. ASSUME NEW c \in Clusters, NEW p, NEW q, (p \in Pointers(c))', (q \in Pointers(c))' PROVE p = q
    BY <1>6, <1>11, <1>12, <2>1 DEF NoCrossLinks
  <2>2. ASSUME NEW c \in Clusters, NEW p, (p \in Pointers(c))' PROVE ~is_free_cluster_num(fat'[c])
    <3>1. CASE c = y
      BY <1>6, <1>9, <3>1, MarksAreNoClusters
    <3>2. CASE c # y
      BY <1>9, <1>11, <1>12, <2>2, <3>2 DEF NoCrossLinks
    <3> QED BY <3>1, <3>2
  <2> QED BY <2>1, <2>2 DEF NoCrossLinks
<1>13. ASSUME TypeOK', NEW c \in Clusters, \E j \in DOMAIN todo : c \in Claimed(todo[j]),
              NEW l, (l \in Pointers(c))'
       PROVE  l \in Pointers(c)
  <2>1. c # y
    BY <1>6, <1>13
  <2> QED BY <1>11, <1>13, <2>1
<1>14. ASSUME TypeOK', NEW c \in Clusters, ClaimedLater(c), NEW l, (l \in Pointers(c))'
       PROVE  l \in Pointers(c)
  BY <1>13, <1>14 DEF ClaimedLater
<1>15. CASE AtTop(y, i, a, s) = <<>>
  <2>1. todo' = Tail(todo) /\ todo' \in Seq(Tasks)
    BY <1>1, <1>5, <1>15, RestOnly, HeadAndTail
  <2>2. TypeOK'
    BY <1>8, <2>1
  <2>3. WritesSafe'
    BY <1>1, <1>9, <1>10, <1>14, <2>1, <2>2, DropHead
  <2> QED BY <1>12, <2>2, <2>3
<1>16. ASSUME NEW u \in Tasks, AtTop(y, i, a, s) = <<u>>, GoesOn(u, y, i, a, s)
       PROVE  Fat16Inv'
  <2>1. u.task \notin {"mark", "link"} /\ Units(u) = Units(t) /\ Claimed(u) = Claimed(t)
    BY <1>3, <1>4, <1>16 DEF GoesOn, Units, Claimed
  <2>2. todo' = <<u>> \o Tail(todo) /\ todo' \in Seq(Tasks)
    BY <1>1, <1>5, <1>16, SwapTyped
  <2>3. TypeOK'
    BY <1>8, <2>2
  <2>4. ASSUME NEW c \in Claimed(u), NEW l, (l \in Pointers(c))' PROVE FALSE
    <3>1. c \in Clusters /\ c \in Claimed(todo[1]) /\ 1 \in DOMAIN todo
      BY <1>1, <1>2, <2>1, HeadAndTail DEF Claimed
    <3>2. l \in Pointers(c)
      BY <1>13, <2>3, <2>4, <3>1
    <3>3. Lands(t, l)
      BY <1>1, <1>2, <2>1, <2>4, <3>2, TaskClaims
    <3> QED BY <1>3, <3>3 DEF Lands
  <2>5. ClaimsSafe(u)'
    <3>1. \A j, k \in DOMAIN Units(u) :
            (\E b \in Clusters : Leads(Units(u)[j], b)) /\ (\E b \in Clusters : Leads(Units(u)[k], b))
            => j = k
      BY <1>1, <1>2, <2>1, TaskClaims DEF ClaimsSafe
    <3> QED BY <2>4, <3>1 DEF ClaimsSafe
  <2>6. Task.task # "mark" /\ u.task # "mark" /\ u.task # "link" /\ Claimed(u) \subseteq Claimed(Task)
    BY <1>1, <1>2, <2>1
  <2>7. WritesSafe'
    BY <1>1, <1>9, <1>10, <1>14, <2>2, <2>3, <2>5, <2>6, SwapHead
  <2> QED BY <1>12, <2>3, <2>7
<1>17. \/ AtTop(y, i, a, s) = <<>>
       \/ \E u \in Tasks : AtTop(y, i, a, s) = <<u>> /\ GoesOn(u, y, i, a, s)
  BY AtTopIs
<1> QED BY <1>15, <1>16, <1>17

-----------------------------------------------------------------------------
(* What an operation sets out to write.                                    *)

\* The writes of s are safe once the clusters of f are marked; they point to no
\* other clusters than those of b.
SafeList(s, f, b) ==
    /\ s \in Seq(Tasks)
    /\ \A i \in DOMAIN s :
          /\ ClaimsSafe(s[i]) /\ s[i].task \notin {"mark", "link"} /\ Claimed(s[i]) \subseteq b
          /\ \A c \in Claimed(s[i]) : is_free_cluster_num(fat[c]) => c \in f
    /\ \A i, j \in DOMAIN s : i # j => Claimed(s[i]) \cap Claimed(s[j]) = {}

\* No writes, and a single one.
LEMMA SafeSmall ==
  ASSUME NEW f, NEW b
  PROVE  /\ SafeList(<<>>, f, b)
         /\ \A t \in Tasks :
               (/\ ClaimsSafe(t) /\ t.task \notin {"mark", "link"} /\ Claimed(t) \subseteq b
                /\ \A c \in Claimed(t) : is_free_cluster_num(fat[c]) => c \in f)
               => SafeList(<<t>>, f, b)
<1>1. SafeList(<<>>, f, b)
  <2>1. <<>> \in Seq(Tasks) /\ DOMAIN <<>> = {}
    OBVIOUS
  <2> QED BY <2>1 DEF SafeList
<1>2. ASSUME NEW t \in Tasks, ClaimsSafe(t), t.task \notin {"mark", "link"}, Claimed(t) \subseteq b,
             \A c \in Claimed(t) : is_free_cluster_num(fat[c]) => c \in f
      PROVE  SafeList(<<t>>, f, b)
  <2>1. <<t>> \in Seq(Tasks) /\ DOMAIN <<t>> = {1} /\ <<t>>[1] = t
    OBVIOUS
  <2>2. PICK s : s = <<t>>
    OBVIOUS
  <2>3. s \in Seq(Tasks) /\ DOMAIN s = {1} /\ s[1] = t
    BY <2>1, <2>2
  <2>4. SafeList(s, f, b)
    BY <1>2, <2>3 DEF SafeList
  <2> QED BY <2>2, <2>4
<1> QED BY <1>1, <1>2

\* Writes that claim different clusters, one after the other.
LEMMA SafeConcat ==
  ASSUME NEW s, NEW r, NEW f, NEW a, NEW b, SafeList(s, f, a), SafeList(r, f, b), a \cap b = {}
  PROVE  SafeList(s \o r, f, a \cup b)
<1>1. s \in Seq(Tasks) /\ r \in Seq(Tasks)
  BY DEF SafeList
<1>2. PICK m \in Nat, n \in Nat : m = Len(s) /\ n = Len(r) /\ DOMAIN s = 1..m /\ DOMAIN r = 1..n
  BY <1>1
<1>3. PICK z : z = s \o r
  OBVIOUS
<1>4. z \in Seq(Tasks) /\ Len(z) = m + n
      /\ \A i \in 1..(m + n) : z[i] = IF i <= m THEN s[i] ELSE r[i - m]
  BY <1>1, <1>2, <1>3, ConcatProperties
<1>5. DOMAIN z = 1..(m + n)
  BY <1>4
<1>6. \A i \in DOMAIN z : \/ i <= m /\ i \in DOMAIN s /\ z[i] = s[i]
                          \/ i > m /\ i \in Int /\ i - m \in DOMAIN r /\ z[i] = r[i - m]
  BY <1>2, <1>4, <1>5
<1>7. ASSUME NEW i \in DOMAIN z
      PROVE  /\ ClaimsSafe(z[i]) /\ z[i].task \notin {"mark", "link"} /\ Claimed(z[i]) \subseteq a \cup b
             /\ \A c \in Claimed(z[i]) : is_free_cluster_num(fat[c]) => c \in f
  <2>1. CASE i <= m /\ i \in DOMAIN s /\ z[i] = s[i]
    BY <2>1 DEF SafeList
  <2>2. CASE i - m \in DOMAIN r /\ z[i] = r[i - m]
    BY <2>2 DEF SafeList
  <2> QED BY <1>6, <2>1, <2>2
<1>8. ASSUME NEW i \in DOMAIN z, NEW j \in DOMAIN z, i # j
      PROVE  Claimed(z[i]) \cap Claimed(z[j]) = {}
  <2>1. CASE i <= m /\ j <= m
    BY <1>6, <1>8, <2>1 DEF SafeList
  <2>2. CASE i > m /\ j > m
    <3>1. i - m \in DOMAIN r /\ j - m \in DOMAIN r /\ z[i] = r[i - m] /\ z[j] = r[j - m] /\ i \in Int /\ j \in Int
      <4>1. i \in Int /\ j \in Int
        BY <1>5
      <4>2. ~(i <= m) /\ ~(j <= m)
        BY <2>2, <4>1
      <4> QED BY <1>6, <4>1, <4>2
    <3>2. i - m # j - m
      BY <1>8, <3>1
    <3> QED BY <3>1, <3>2 DEF SafeList
  <2>3. CASE i <= m /\ j > m
    <3>1. Claimed(z[i]) \subseteq a /\ Claimed(z[j]) \subseteq b
      BY <1>6, <2>3 DEF SafeList
    <3> QED BY <3>1
  <2>4. CASE i > m /\ j <= m
    <3>1. Claimed(z[i]) \subseteq b /\ Claimed(z[j]) \subseteq a
      BY <1>6, <2>4 DEF SafeList
    <3> QED BY <3>1
  <2>5. i \in Int /\ j \in Int
    BY <1>5
  <2> QED BY <2>1, <2>2, <2>3, <2>4, <2>5
<1>9. SafeList(z, f, a \cup b)
  BY <1>4, <1>7, <1>8 DEF SafeList
<1> QED BY <1>3, <1>9

\* Marking a free cluster points to nothing.
LEMMA MarkTaskIs ==
  ASSUME NEW x \in Clusters
  PROVE  /\ MarkTask(x) \in Tasks /\ MarkTask(x).task = "mark" /\ MarkTask(x).cluster = x
         /\ Units(MarkTask(x)) = <<>> /\ Claimed(MarkTask(x)) = {}
<1>1. MarkTask(x) \in Tasks /\ MarkTask(x).task = "mark" /\ MarkTask(x).cluster = x
  BY DEF MarkTask, Tasks
<1>2. Units(MarkTask(x)) = <<>>
  BY <1>1 DEF Units
<1> QED BY <1>1, <1>2 DEF Claimed

\* An operation starts.
LEMMA StartInv ==
  ASSUME Fat16Inv, fat' = fat, root' = root, data' = data, cuts' = cuts, halted' = halted,
         NEW s, NEW f, NEW b, SafeList(s, f, b),
         \/ f = {} /\ todo' = s
         \/ FreeClusters # {} /\ f = {FirstFree} /\ todo' = <<MarkTask(FirstFree)>> \o s
  PROVE  Fat16Inv'
<1> USE DEF Fat16Inv
<1>1. s \in Seq(Tasks)
  BY DEF SafeList
<1>2. SamePointers
  BY SameDisk
<1>3. NoCrossLinks'
  BY <1>2 DEF SamePointers, NoCrossLinks
<1>4. ASSUME NEW i \in DOMAIN s PROVE ClaimsSafe(s[i])'
  <2>1. PICK t \in Tasks : t = s[i]
    BY <1>1
  <2>2. ClaimsSafe(t) /\ \A c \in Claimed(t) : c \in Clusters
    BY <2>1 DEF SafeList, Claimed
  <2>3. ClaimsSafe(t)'
    BY <1>2, <2>2, ClaimsKept DEF SamePointers
  <2> QED BY <2>1, <2>3
<1>5. ASSUME todo' \in Seq(Tasks) PROVE TypeOK'
  BY <1>5 DEF TypeOK
<1>6. CASE f = {} /\ todo' = s
  <2>1. \A i \in DOMAIN s :
           /\ s[i].task \notin {"mark", "link"}
           /\ \A c \in Claimed(s[i]) : ~is_free_cluster_num(fat'[c])
           /\ \A j \in DOMAIN s : i # j => Claimed(s[i]) \cap Claimed(s[j]) = {}
    BY <1>6 DEF SafeList
  <2>2. todo' # <<>> => Task' = s[1] /\ 1 \in DOMAIN s
    BY <1>1, <1>6 DEF Task
  <2>3. WritesSafe'
    BY <1>4, <1>6, <2>1, <2>2 DEF WritesSafe
  <2> QED BY <1>1, <1>3, <1>5, <1>6, <2>3
<1>7. CASE FreeClusters # {} /\ f = {FirstFree} /\ todo' = <<MarkTask(FirstFree)>> \o s
  <2>1. PICK x \in Clusters : x = FirstFree /\ is_free_cluster_num(fat[x])
    BY <1>7, FreeHasNoPointers
  <2>2. PICK k \in Tasks : k = MarkTask(x)
    BY MarkTaskIs
  <2>3. k.task = "mark" /\ k.cluster = x /\ Units(k) = <<>> /\ Claimed(k) = {}
    BY <2>2, MarkTaskIs
  <2>4. PICK z : z = <<k>> \o s /\ z = todo'
    BY <1>7, <2>1, <2>2
  <2>5. PICK n \in Nat : n = Len(s) /\ DOMAIN s = 1..n
    BY <1>1
  <2>6. z \in Seq(Tasks) /\ Len(z) = n + 1 /\ z[1] = k /\ \A i \in 2..(n + 1) : z[i] = s[i - 1]
    <3>1. PICK h \in Seq(Tasks) : h = <<k>> /\ Len(h) = 1 /\ h[1] = k
      <4>1. <<k>> \in Seq(Tasks) /\ Len(<<k>>) = 1 /\ <<k>>[1] = k
        OBVIOUS
      <4> QED BY <4>1
    <3>2. z \in Seq(Tasks) /\ Len(z) = 1 + n /\ \A i \in 1..(1 + n) : z[i] = IF i <= 1 THEN h[i] ELSE s[i - 1]
      BY <1>1, <2>4, <2>5, <3>1, ConcatProperties
    <3> QED BY <3>1, <3>2
  <2>7. DOMAIN z = 1..(n + 1) /\ z # <<>> /\ Head(z) = k
    BY <2>6
  <2>8. \A i \in DOMAIN z : \/ i = 1 /\ z[i] = k
                            \/ i # 1 /\ i \in Int /\ i - 1 \in DOMAIN s /\ z[i] = s[i - 1]
    BY <2>5, <2>6, <2>7
  <2>9. TypeOK'
    BY <1>5, <2>4, <2>6
  <2>10. ClaimsSafe(k)'
    BY <2>3 DEF ClaimsSafe
  <2>11. ASSUME NEW i \in DOMAIN z
         PROVE  /\ ClaimsSafe(z[i])' /\ (z[i].task \in {"mark", "link"} => i = 1)
                /\ \A c \in Claimed(z[i]) : is_free_cluster_num(fat'[c]) => c = x
                /\ \A j \in DOMAIN z : i # j => Claimed(z[i]) \cap Claimed(z[j]) = {}
    <3>1. CASE i = 1 /\ z[i] = k
      BY <2>3, <2>10, <3>1
    <3>2. CASE i # 1 /\ i \in Int /\ i - 1 \in DOMAIN s /\ z[i] = s[i - 1]
      <4>1. /\ ClaimsSafe(s[i - 1])' /\ s[i - 1].task \notin {"mark", "link"}
            /\ \A c \in Claimed(s[i - 1]) : is_free_cluster_num(fat'[c]) => c = x
        BY <1>4, <1>7, <2>1, <3>2 DEF SafeList
      <4>2. ASSUME NEW j \in DOMAIN z, i # j PROVE Claimed(z[i]) \cap Claimed(z[j]) = {}
        <5>1. CASE z[j] = k
          BY <2>3, <5>1
        <5>2. CASE j \in Int /\ j - 1 \in DOMAIN s /\ z[j] = s[j - 1]
          <6>1. i - 1 # j - 1
            BY <3>2, <4>2, <5>2
          <6> QED BY <3>2, <5>2, <6>1 DEF SafeList
        <5> QED BY <2>8, <5>1, <5>2
      <4> QED BY <3>2, <4>1, <4>2
    <3> QED BY <2>8, <3>1, <3>2
  <2>12. todo' = z /\ Task' = k
    BY <2>4, <2>7 DEF Task
  <2>13. WritesSafe'
    BY <2>1, <2>3, <2>11, <2>12 DEF WritesSafe
  <2> QED BY <1>3, <2>9, <2>13
<1> QED BY <1>6, <1>7

\* The fields of a directory entry.
LEMMA EntryFields ==
  ASSUME NEW u \in Unit
  PROVE  /\ u.kind = "file" => u.cluster \in {0} \cup Clusters /\ u.size \in Nat
         /\ u.kind = "dir" => /\ u.cluster \in Clusters /\ u.size \in Nat \ {0}
                              /\ u = [kind |-> "dir", cluster |-> u.cluster, size |-> u.size]
         /\ \A c \in Clusters : Leads(u, c) => u.kind \in {"file", "dir"} /\ u.cluster = c
BY DEF Unit, Leads, Sentinel, Junk

\* An entry that is read is on the disk: read_from_root_dir and
\* read_from_cluster_chain.
LEMMA EntryRead ==
  ASSUME TypeOK, NEW c \in {0} \cup Clusters, NEW i \in Nat, DirUnit(c, i).kind \in {"file", "dir"}
  PROVE  /\ DirUnit(c, i) \in Unit
         /\ c = 0 => i \in 0..(RootSize - 1) /\ DirUnit(c, i) = root[i]
         /\ c # 0 =>
              /\ i \div ClusterSize \in Nat /\ i % ClusterSize \in 0..(ClusterSize - 1)
              /\ Nth(c, i \div ClusterSize) # 0 /\ Nth(c, i \div ClusterSize) \in Clusters
              /\ DirUnit(c, i) = data[Nth(c, i \div ClusterSize)][i % ClusterSize]
<1>1. DirUnit(c, i) # Gone
  BY DEF Gone
<1>2. CASE c = 0
  <2>1. i + 1 < RootSize /\ DirUnit(c, i) = root[i]
    BY <1>1, <1>2 DEF DirUnit
  <2>2. i \in 0..(RootSize - 1)
    BY <2>1, Fat16Assumption
  <2> QED BY <1>2, <2>1, <2>2 DEF TypeOK
<1>3. CASE c # 0
  <2>1. Nth(c, i \div ClusterSize) # 0 /\ DirUnit(c, i) = data[Nth(c, i \div ClusterSize)][i % ClusterSize]
    BY <1>1, <1>3 DEF DirUnit
  <2>2. i \div ClusterSize \in Nat /\ i % ClusterSize \in 0..(ClusterSize - 1)
    BY Fat16Assumption
  <2>3. Nth(c, i \div ClusterSize) \in Clusters
    <3>1. PICK n \in Nat : n = i \div ClusterSize
      BY <2>2
    <3>2. PICK w \in [0..n -> Clusters] : w[n] = Nth(c, n)
      BY <2>1, <3>1, NthPath
    <3>3. n \in 0..n
      OBVIOUS
    <3> QED BY <3>1, <3>2, <3>3
  <2>4. \A x \in Clusters, j \in 0..(ClusterSize - 1) : data[x][j] \in Unit
    BY DEF TypeOK
  <2>5. DirUnit(c, i) \in Unit
    BY <2>1, <2>2, <2>3, <2>4
  <2> QED BY <1>3, <2>1, <2>2, <2>3, <2>5
<1> QED BY <1>2, <1>3

\* write_parent_dirent writes an entry where read_parent_dirent reads it.
LEMMA DirentPlace ==
  ASSUME TypeOK, NEW c \in {0} \cup Clusters, NEW i \in Nat, DirUnit(c, i).kind \in {"file", "dir"},
         NEW e \in Unit
  PROVE  \E t \in Tasks :
            /\ DirentTask(<<c, i>>, e) = <<t>> /\ t.task \notin {"mark", "link"} /\ Units(t) = <<e>>
            /\ \A x \in Clusters : DirUnit(c, i).cluster = x => \E l \in Pointers(x) : Lands(t, l)
<1>1. <<c, i>>[1] = c /\ <<c, i>>[2] = i /\ <<e>> \in Seq(Unit) /\ <<e>> # <<>> /\ Len(<<e>>) = 1
  OBVIOUS
<1>2. \A x \in Clusters : DirUnit(c, i).cluster = x => Leads(DirUnit(c, i), x)
  BY DEF Leads
<1>3. CASE c = 0
  <2>1. PICK t : t = RootTask(i, <<e>>)
    OBVIOUS
  <2>2. t \in Tasks /\ t.task = "root" /\ t.at = i /\ t.units = <<e>>
    BY <1>1, <2>1 DEF RootTask, Tasks
  <2>3. DirentTask(<<c, i>>, e) = <<t>> /\ Units(t) = <<e>>
    BY <1>1, <1>3, <2>1, <2>2 DEF DirentTask, Units
  <2>4. Lands(t, <<"root", 0, i>>)
    BY <1>1, <2>2 DEF Lands
  <2>5. ASSUME NEW x \in Clusters, DirUnit(c, i).cluster = x PROVE <<"root", 0, i>> \in Pointers(x)
    <3>1. i \in 0..(RootSize - 1) /\ Leads(root[i], x)
      BY <1>2, <1>3, <2>5, EntryRead
    <3>2. PointsTo(fat, root, data, <<"root", 0, i>>, x)
      BY <3>1 DEF PointsTo
    <3> QED BY <3>2, PointersAre
  <2> QED BY <2>2, <2>3, <2>4, <2>5
<1>4. CASE c # 0
  <2>1. PICK m \in Nat, j \in 0..(ClusterSize - 1) : m = i \div ClusterSize /\ j = i % ClusterSize
    BY <1>4, EntryRead
  <2>2. Nth(c, m) # 0 /\ Nth(c, m) \in Clusters /\ DirUnit(c, i) = data[Nth(c, m)][j]
    BY <1>4, <2>1, EntryRead
  <2>3. PICK y \in Clusters : y = Nth(c, m)
    BY <2>2
  <2>4. PICK w \in [0..m -> Clusters] :
           w[0] = c /\ (\A k \in 0..(m - 1) : fat[w[k]] = w[k + 1]) /\ w[m] = y
    BY <2>2, <2>3, NthPath
  <2>5. PICK t \in Tasks : AtTop(c, 0, i, <<e>>) = <<t>> /\ GoesOn(t, c, 0, i, <<e>>)
    <3>1. 0 \in Nat /\ (<<e>> # <<>> => c \in Clusters)
      BY <1>4
    <3> QED BY <1>1, <3>1, AtTopIs
  <2>6. DirentTask(<<c, i>>, e) = <<t>> /\ Units(t) = <<e>>
    BY <1>1, <1>4, <2>5 DEF DirentTask, ChainTask, GoesOn
  <2>7. t.task \in {"write", "next"} /\ (t.task = "write" <=> 0 = m) /\ t.index = 0 /\ t.at = i
        /\ t.cluster = c /\ t.units = <<e>>
    BY <2>1, <2>5 DEF GoesOn
  <2>8. Lands(t, <<"data", y, j>>)
    <3>1. \E z \in [t.index..m -> Clusters] :
              /\ z[t.index] = t.cluster
              /\ \A k \in t.index..(m - 1) : fat[z[k]] = z[k + 1]
              /\ <<"data", y, j>> = <<"data", z[m], t.at % ClusterSize>>
      BY <2>1, <2>4, <2>7
    <3>2. t.index <= m /\ (t.task = "write" <=> t.index = m) /\ t.task # "root" /\ Len(t.units) = 1
      BY <1>1, <2>7
    <3> QED BY <2>1, <2>7, <3>1, <3>2 DEF Lands
  <2>9. ASSUME NEW x \in Clusters, DirUnit(c, i).cluster = x PROVE <<"data", y, j>> \in Pointers(x)
    <3>1. Leads(data[y][j], x)
      BY <1>2, <2>2, <2>3, <2>9
    <3>2. PointsTo(fat, root, data, <<"data", y, j>>, x)
      BY <3>1 DEF PointsTo
    <3> QED BY <3>2, PointersAre
  <2> QED BY <2>6, <2>7, <2>8, <2>9
<1> QED BY <1>3, <1>4

\* Rewriting an entry is safe when it goes on pointing where it did, or to a
\* cluster that is marked for it.
LEMMA DirentSafe ==
  ASSUME TypeOK, NoCrossLinks,
         NEW c \in {0} \cup Clusters, NEW i \in Nat, DirUnit(c, i).kind \in {"file", "dir"},
         NEW e \in Unit, NEW x \in Clusters, e.cluster = x, NEW f,
         DirUnit(c, i).cluster = x \/ (Pointers(x) = {} /\ x \in f)
  PROVE  SafeList(DirentTask(<<c, i>>, e), f, {x})
<1>1. PICK t \in Tasks :
         /\ DirentTask(<<c, i>>, e) = <<t>> /\ t.task \notin {"mark", "link"} /\ Units(t) = <<e>>
         /\ \A y \in Clusters : DirUnit(c, i).cluster = y => \E l \in Pointers(y) : Lands(t, l)
  BY DirentPlace
<1>2. DOMAIN <<e>> = {1} /\ <<e>>[1] = e
  OBVIOUS
<1>3. Claimed(t) \subseteq {x}
  BY <1>1, <1>2, EntryFields DEF Claimed
<1>4. \A l \in Pointers(x) : Lands(t, l)
  <2>1. CASE Pointers(x) = {}
    BY <2>1
  <2>2. CASE DirUnit(c, i).cluster = x
    <3>1. PICK l \in Pointers(x) : Lands(t, l)
      BY <1>1, <2>2
    <3>2. \A p \in Pointers(x) : p = l
      BY <3>1 DEF NoCrossLinks
    <3> QED BY <3>1, <3>2
  <2> QED BY <2>1, <2>2
<1>5. ClaimsSafe(t)
  BY <1>1, <1>2, <1>3, <1>4 DEF ClaimsSafe
<1>6. is_free_cluster_num(fat[x]) => x \in f
  <2>1. CASE DirUnit(c, i).cluster = x
    <3>1. Pointers(x) # {}
      BY <1>1, <2>1
    <3> QED BY <3>1 DEF NoCrossLinks
  <2> QED BY <2>1
<1>7. SafeList(<<t>>, f, {x})
  <2>1. \A y \in Claimed(t) : is_free_cluster_num(fat[y]) => y \in f
    BY <1>3, <1>6
  <2> QED BY <1>1, <1>3, <1>5, <2>1, SafeSmall
<1> QED BY <1>1, <1>7

\* Writing in a chain is safe when only the unit before the last is an entry, of
\* a cluster that is marked for it.
LEMMA ChainSafe ==
  ASSUME NEW x \in Clusters, NEW a \in Nat, NEW units \in Seq(Unit), NEW f, NEW b,
         \A k \in DOMAIN units, c \in Clusters : Leads(units[k], c) => k = Len(units) - 1,
         \A k \in DOMAIN units, c \in Clusters : Leads(units[k], c) => c \in b /\ c \in f /\ Pointers(c) = {}
  PROVE  SafeList(ChainTask(x, a, units), f, b)
<1>1. 0 \in Nat
  OBVIOUS
<1>2. CASE ChainTask(x, a, units) = <<>>
  BY <1>2, SafeSmall
<1>3. ASSUME NEW t \in Tasks, ChainTask(x, a, units) = <<t>>, GoesOn(t, x, 0, a, units)
      PROVE  SafeList(ChainTask(x, a, units), f, b)
  <2>1. Units(t) = units /\ t.task \notin {"mark", "link"}
    BY <1>3 DEF GoesOn
  <2>2. Claimed(t) \subseteq b /\ \A c \in Claimed(t) : c \in f /\ Pointers(c) = {}
    BY <2>1 DEF Claimed
  <2>3. ClaimsSafe(t)
    BY <2>1, <2>2 DEF ClaimsSafe
  <2> QED BY <1>3, <2>1, <2>2, <2>3, SafeSmall
<1>4. \/ ChainTask(x, a, units) = <<>>
      \/ \E t \in Tasks : ChainTask(x, a, units) = <<t>> /\ GoesOn(t, x, 0, a, units)
  BY <1>1, AtTopIs DEF ChainTask
<1> QED BY <1>2, <1>3, <1>4

\* Every file is an entry of the root directory or of a directory in it.
LEMMA FileEntry ==
  ASSUME TypeOK, NEW f \in Files
  PROVE  \E c \in {0} \cup Clusters, i \in Nat : f = <<c, i>> /\ DirUnit(c, i).kind = "file"
<1>1. ASSUME NEW d, NEW kind, NEW g \in Inodes(d, kind)
      PROVE  \E i \in Nat : g = <<ClusterOf(d), i>> /\ DirUnit(ClusterOf(d), i).kind = kind
  <2>1. PICK i \in Positions : g = <<ClusterOf(d), i>> /\ DirUnit(ClusterOf(d), i).kind = kind
    BY DEF Inodes, read_dirents, Walked
  <2>2. i \in Nat
    BY DEF Positions
  <2> QED BY <2>1, <2>2
<1>2. PICK d \in Dirs : f \in Inodes(d, "file")
  BY DEF Files
<1>3. ClusterOf(RootDir) = 0
  BY DEF ClusterOf
<1>4. CASE d = RootDir
  BY <1>1, <1>2, <1>3, <1>4
<1>5. CASE d \in Inodes(RootDir, "dir")
  <2>1. PICK j \in Nat : d = <<0, j>> /\ DirUnit(0, j).kind = "dir"
    BY <1>1, <1>3, <1>5
  <2>2. d # RootDir /\ d[1] = 0 /\ d[2] = j
    BY <2>1 DEF RootDir
  <2>3. ClusterOf(d) = DirUnit(0, j).cluster
    BY <2>2 DEF ClusterOf, read_parent_dirent
  <2>4. ClusterOf(d) \in Clusters
    BY <2>1, <2>3, EntryRead, EntryFields
  <2>5. PICK i \in Nat : f = <<ClusterOf(d), i>> /\ DirUnit(ClusterOf(d), i).kind = "file"
    BY <1>1, <1>2
  <2>6. PICK c \in {0} \cup Clusters : c = ClusterOf(d)
    BY <2>4
  <2> QED BY <2>5, <2>6
<1> QED BY <1>2, <1>4, <1>5 DEF Dirs

\* The entry of a file, its cluster, allocated or to be allocated.
LEMMA FileDirent ==
  ASSUME TypeOK, NoCrossLinks, NEW inode \in Files, NEW size \in Nat,
         is_invalid_cluster_num(read_parent_dirent(inode).cluster) => FreeClusters # {}
  PROVE  LET needed == is_invalid_cluster_num(read_parent_dirent(inode).cluster)
             c == IF needed THEN FirstFree ELSE read_parent_dirent(inode).cluster
             f == IF needed THEN {FirstFree} ELSE {}
         IN  c \in Clusters /\ SafeList(DirentTask(inode, Entry("file", c, size)), f, {c})
<1>1. PICK p \in {0} \cup Clusters, i \in Nat : inode = <<p, i>> /\ DirUnit(p, i).kind = "file"
  BY FileEntry
<1>2. read_parent_dirent(inode) = DirUnit(p, i)
  BY <1>1 DEF read_parent_dirent
<1>3. ASSUME NEW x \in Clusters
      PROVE  Entry("file", x, size) \in Unit /\ Entry("file", x, size).cluster = x
  BY DEF Entry, Unit
<1>4. CASE is_invalid_cluster_num(read_parent_dirent(inode).cluster)
  <2>1. FirstFree \in Clusters /\ Pointers(FirstFree) = {}
    BY <1>4, FreeHasNoPointers
  <2>2. PICK x \in Clusters : x = FirstFree
    BY <2>1
  <2>3. PICK e \in Unit : e = Entry("file", x, size) /\ e.cluster = x
    BY <1>3
  <2>4. PICK f : f = {x}
    OBVIOUS
  <2>5. SafeList(DirentTask(<<p, i>>, e), f, {x})
    BY <1>1, <2>1, <2>2, <2>3, <2>4, DirentSafe
  <2> QED BY <1>1, <1>4, <2>1, <2>2, <2>3, <2>4, <2>5
<1>5. CASE ~is_invalid_cluster_num(read_parent_dirent(inode).cluster)
  <2>1. PICK x \in Clusters : x = DirUnit(p, i).cluster
    BY <1>2, <1>5 DEF is_invalid_cluster_num
  <2>2. PICK e \in Unit : e = Entry("file", x, size) /\ e.cluster = x
    BY <1>3
  <2>3. PICK f : f = {}
    OBVIOUS
  <2>4. SafeList(DirentTask(<<p, i>>, e), f, {x})
    BY <1>1, <2>1, <2>2, DirentSafe
  <2> QED BY <1>1, <1>2, <1>5, <2>1, <2>2, <2>3, <2>4
<1> QED BY <1>4, <1>5

\* ftruncate.
LEMMA TruncateInv ==
  ASSUME Fat16Inv, NEW inode \in Files, NEW len \in TruncLens, ftruncate(inode, len)
  PROVE  Fat16Inv'
<1> USE DEF Fat16Inv
<1> DEFINE needed == is_invalid_cluster_num(read_parent_dirent(inode).cluster)
<1> DEFINE c == IF needed THEN FirstFree ELSE read_parent_dirent(inode).cluster
<1>1. CASE Halt("full")
  BY <1>1, StopInv DEF Halt, TypeOK, disk
<1>2. CASE ~Halt("full")
  <2>1. /\ needed => FreeClusters # {}
        /\ todo' = MarkIf(needed) \o DirentTask(inode, Entry("file", c, len))
        /\ fat' = fat /\ root' = root /\ data' = data /\ cuts' = cuts /\ halted' = halted
    BY <1>2 DEF ftruncate, disk
  <2>2. len \in Nat
    BY Fat16Assumption
  <2>3. PICK s, f, b : /\ s = DirentTask(inode, Entry("file", c, len))
                       /\ f = IF needed THEN {FirstFree} ELSE {}
                       /\ SafeList(s, f, b)
    BY <2>1, <2>2, FileDirent
  <2> HIDE DEF c
  <2>4. CASE needed
    <3>1. todo' = <<MarkTask(FirstFree)>> \o s /\ f = {FirstFree} /\ FreeClusters # {}
      BY <2>1, <2>3, <2>4 DEF MarkIf
    <3> QED BY <2>1, <2>3, <3>1, StartInv
  <2>5. CASE ~needed
    <3>1. s \in Seq(Tasks)
      BY <2>3 DEF SafeList
    <3>2. todo' = s /\ f = {}
      BY <2>1, <2>3, <2>5, <3>1, ConcatEmptySeq DEF MarkIf
    <3> QED BY <2>1, <2>3, <3>2, StartInv
  <2> QED BY <2>4, <2>5
<1> QED BY <1>1, <1>2

\* write_file.
LEMMA WriteFileInv ==
  ASSUME Fat16Inv, NEW inode \in Files, NEW offset \in Offsets, NEW n \in WriteLens,
         write_file(inode, offset, n)
  PROVE  Fat16Inv'
<1> USE DEF Fat16Inv
<1> DEFINE e == read_parent_dirent(inode)
<1> DEFINE needed == is_invalid_cluster_num(e.cluster)
<1> DEFINE c == IF needed THEN FirstFree ELSE e.cluster
<1> DEFINE size == IF offset + n > e.size THEN offset + n ELSE e.size
<1> DEFINE bytes == [k \in 1..n |-> Byte(inode, offset + k - 1)]
<1>1. CASE Halt("full")
  BY <1>1, StopInv DEF Halt, TypeOK, disk
<1>2. CASE ~Halt("full")
  <2>1. /\ needed => FreeClusters # {}
        /\ todo' = MarkIf(needed) \o DirentTask(inode, Entry("file", c, size)) \o ChainTask(c, offset, bytes)
        /\ fat' = fat /\ root' = root /\ data' = data /\ cuts' = cuts /\ halted' = halted
    BY <1>2 DEF write_file, disk
  <2>2. offset \in Nat /\ n \in Nat
    BY Fat16Assumption
  <2>3. PICK p \in {0} \cup Clusters, i \in Nat : inode = <<p, i>> /\ DirUnit(p, i).kind = "file"
    BY FileEntry
  <2>4. e.size \in Nat /\ inode \in Nat \X Nat
    <3>1. e = DirUnit(p, i) /\ e \in Unit /\ e.kind = "file"
      BY <2>3, EntryRead DEF read_parent_dirent
    <3>2. p \in Nat
      BY DEF Clusters
    <3> QED BY <2>3, <3>1, <3>2, EntryFields
  <2>5. size \in Nat
    BY <2>2, <2>4
  <2>6. c \in Clusters /\ SafeList(DirentTask(inode, Entry("file", c, size)),
                                   IF needed THEN {FirstFree} ELSE {}, {c})
    BY <2>1, <2>5, FileDirent
  <2>7. bytes \in Seq(Unit) /\ DOMAIN bytes = 1..n
        /\ \A k \in 1..n : bytes[k].kind = "byte"
    <3>1. ASSUME NEW k \in 1..n
          PROVE  Byte(inode, offset + k - 1) \in Unit /\ Byte(inode, offset + k - 1).kind = "byte"
      <4>1. offset + k - 1 \in Nat
        BY <2>2
      <4> QED BY <2>4, <4>1 DEF Byte, Unit
    <3> QED BY <2>2, <3>1
  <2>8. \A k \in DOMAIN bytes, x \in Clusters : ~Leads(bytes[k], x)
    BY <2>7 DEF Leads
  <2>9. PICK x, s, f, u, r :
           /\ x \in Clusters /\ x = c /\ s = DirentTask(inode, Entry("file", c, size))
           /\ f = (IF needed THEN {FirstFree} ELSE {}) /\ u = bytes /\ r = ChainTask(x, offset, u)
    BY <2>6
  <2>10. SafeList(r, f, {})
    <3>1. u \in Seq(Unit) /\ \A k \in DOMAIN u, y \in Clusters : ~Leads(u[k], y)
      BY <2>7, <2>8, <2>9
    <3> HIDE DEF bytes, c, needed, size
    <3> QED BY <2>2, <2>9, <3>1, ChainSafe
  <2>11. SafeList(s, f, {x})
    BY <2>6, <2>9
  <2> HIDE DEF bytes, c, size
  <2>12. {x} \cap {} = {} /\ {x} \cup {} = {x}
    OBVIOUS
  <2>13. SafeList(s \o r, f, {x} \cup {})
    BY <2>10, <2>11, <2>12, SafeConcat
  <2>14. s \in Seq(Tasks) /\ r \in Seq(Tasks) /\ s \o r \in Seq(Tasks)
    BY <2>10, <2>11, <2>13 DEF SafeList
  <2>15. todo' = (MarkIf(needed) \o s) \o r
    BY <2>1, <2>9
  <2>16. CASE needed
    <3>1. FirstFree \in Clusters /\ FreeClusters # {}
      BY <2>1, <2>16, FreeHasNoPointers
    <3>2. PICK k \in Tasks : k = MarkTask(FirstFree)
      BY <3>1, MarkTaskIs
    <3>3. <<k>> \in Seq(Tasks)
      OBVIOUS
    <3>4. (<<k>> \o s) \o r = <<k>> \o (s \o r)
      BY <2>14, <3>3, ConcatAssociative
    <3>5. todo' = <<MarkTask(FirstFree)>> \o (s \o r) /\ f = {FirstFree}
      BY <2>9, <2>15, <2>16, <3>2, <3>4 DEF MarkIf
    <3> QED BY <2>1, <2>13, <3>1, <3>5, StartInv
  <2>17. CASE ~needed
    <3>1. todo' = s \o r /\ f = {}
      BY <2>9, <2>14, <2>15, <2>17, ConcatEmptySeq DEF MarkIf
    <3> QED BY <2>1, <2>13, <3>1, StartInv
  <2> QED BY <2>16, <2>17
<1> QED BY <1>1, <1>2

\* The units of a new entry: only the one before the last is an entry.
LEMMA InsertedUnits ==
  ASSUME NEW name \in Names, NEW e \in Unit
  PROVE  LET units == Inserted([k \in 1..LfnCount[name] |-> Lfn(name, LfnCount[name] + 1 - k)], e)
         IN  /\ units \in Seq(Unit)
             /\ \A k \in DOMAIN units, c \in Clusters :
                   Leads(units[k], c) => k = Len(units) - 1 /\ Leads(e, c)
<1>1. PICK n \in Nat \ {0} : n = LfnCount[name]
  BY Fat16Assumption
<1>2. PICK s : s = [k \in 1..n |-> Lfn(name, n + 1 - k)]
  OBVIOUS
<1>3. s \in Seq(Unit) /\ Len(s) = n /\ \A k \in 1..n : s[k].kind = "lfn"
  <2>1. ASSUME NEW k \in 1..n PROVE Lfn(name, n + 1 - k) \in Unit /\ Lfn(name, n + 1 - k).kind = "lfn"
    <3>1. n + 1 - k \in Nat
      OBVIOUS
    <3> QED BY <3>1 DEF Lfn, Unit
  <2> QED BY <1>2, <2>1
<1>4. PICK r : r = <<e, Sentinel>>
  OBVIOUS
<1>5. r \in Seq(Unit) /\ Len(r) = 2 /\ r[1] = e /\ r[2] = Sentinel
  <2>1. Sentinel \in Unit
    BY DEF Unit
  <2> QED BY <1>4, <2>1
<1>6. PICK u : u = s \o r
  OBVIOUS
<1>7. u \in Seq(Unit) /\ Len(u) = n + 2
      /\ \A k \in 1..(n + 2) : u[k] = IF k <= n THEN s[k] ELSE r[k - n]
  <2>1. PICK v \in Seq(Unit), w \in Seq(Unit) : v = s /\ w = r
    BY <1>3, <1>5
  <2>2. /\ v \o w \in Seq(Unit) /\ Len(v \o w) = Len(v) + Len(w)
        /\ \A k \in 1..(Len(v) + Len(w)) : (v \o w)[k] = IF k <= Len(v) THEN v[k] ELSE w[k - Len(v)]
    BY ConcatProperties
  <2>3. Len(v) = n /\ Len(w) = 2
    BY <1>3, <1>5, <2>1
  <2> QED BY <1>6, <2>1, <2>2, <2>3
<1>8. DOMAIN u = 1..(n + 2)
  BY <1>7
<1>9. ASSUME NEW k \in 1..(n + 2), NEW c \in Clusters, Leads(u[k], c) PROVE k = n + 1 /\ Leads(e, c)
  <2>1. CASE k <= n
    BY <1>3, <1>7, <1>9, <2>1 DEF Leads
  <2>2. CASE k = n + 1
    <3>1. k - n = 1
      BY <2>2
    <3> QED BY <1>5, <1>7, <1>9, <2>2, <3>1
  <2>3. CASE k = n + 2
    <3>1. k - n = 2
      BY <2>3
    <3> QED BY <1>5, <1>7, <1>9, <2>3, <3>1 DEF Leads, Sentinel
  <2> QED BY <2>1, <2>2, <2>3
<1>10. \A k \in DOMAIN u, c \in Clusters : Leads(u[k], c) => k = Len(u) - 1 /\ Leads(e, c)
  BY <1>7, <1>8, <1>9
<1> QED BY <1>1, <1>2, <1>4, <1>6, <1>7, <1>10 DEF Inserted

\* Writing a new entry in the root directory is safe under the same conditions.
LEMMA RootSafe ==
  ASSUME NEW a \in Nat, NEW units \in Seq(Unit), NEW f, NEW b,
         \A k \in DOMAIN units, c \in Clusters : Leads(units[k], c) => k = Len(units) - 1,
         \A k \in DOMAIN units, c \in Clusters : Leads(units[k], c) => c \in b /\ c \in f /\ Pointers(c) = {}
  PROVE  SafeList(<<RootTask(a, units)>>, f, b)
<1>1. PICK t : t = RootTask(a, units)
  OBVIOUS
<1>2. t \in Tasks /\ t.task = "root" /\ Units(t) = units
  BY <1>1 DEF RootTask, Tasks, Units
<1>3. Claimed(t) \subseteq b /\ \A c \in Claimed(t) : c \in f /\ Pointers(c) = {}
  BY <1>2 DEF Claimed
<1>4. ClaimsSafe(t)
  BY <1>2, <1>3 DEF ClaimsSafe
<1>5. SafeList(<<t>>, f, b)
  BY <1>2, <1>3, <1>4, SafeSmall
<1> QED BY <1>1, <1>5

\* create_inode.
LEMMA CreateInv ==
  ASSUME Fat16Inv, NEW d \in Dirs, NEW kind \in {"file", "dir"}, NEW name \in Names,
         create_inode(d, kind, name)
  PROVE  Fat16Inv'
<1> USE DEF Fat16Inv
<1> DEFINE count == LfnCount[name]
<1> DEFINE lfn == [k \in 1..count |-> Lfn(name, count + 1 - k)]
<1> DEFINE isDir == kind = "dir"
<1> DEFINE e == Entry(kind, IF isDir THEN FirstFree ELSE 0, IF isDir THEN 1 ELSE 0)
<1> DEFINE units == Inserted(lfn, e)
<1> DEFINE parent == read_parent_dirent(d)
<1> DEFINE at == IF d = RootDir THEN CHOOSE i \in SentinelAt(0) : TRUE ELSE InsertAt(parent.size)
<1> DEFINE first == IF isDir THEN ChainTask(FirstFree, 0, <<Sentinel>>) ELSE <<>>
<1> DEFINE grown == [parent EXCEPT !.size = @ + count + 1]
<1> DEFINE then == IF d = RootDir THEN <<RootTask(at, units)>>
                   ELSE DirentTask(d, grown) \o ChainTask(parent.cluster, at, units)
<1> DEFINE f == IF isDir THEN {FirstFree} ELSE {}
<1>1. CASE Halt("full")
  BY <1>1, StopInv DEF Halt, TypeOK, disk
<1>2. CASE ~Halt("full")
  <2>1. /\ SentinelAt(ClusterOf(d)) # {} /\ (isDir => FreeClusters # {})
        /\ todo' = MarkIf(isDir) \o first \o then
        /\ fat' = fat /\ root' = root /\ data' = data /\ cuts' = cuts /\ halted' = halted
    BY <1>2 DEF create_inode, disk
  <2>2. isDir => FirstFree \in Clusters /\ Pointers(FirstFree) = {}
    BY <2>1, FreeHasNoPointers
  <2>3. e \in Unit /\ \A c \in Clusters : Leads(e, c) => c \in f /\ Pointers(c) = {}
    <3>1. CASE isDir
      BY <2>2, <3>1 DEF Entry, Unit, Leads
    <3>2. CASE ~isDir
      BY <3>2, MarksAreNoClusters DEF Entry, Unit, Leads
    <3> QED BY <3>1, <3>2
  <2>4. units \in Seq(Unit)
        /\ \A k \in DOMAIN units, c \in Clusters : Leads(units[k], c) => k = Len(units) - 1 /\ Leads(e, c)
    <3> HIDE DEF e
    <3> QED BY <2>3, InsertedUnits
  <2>5. PICK u, g : u \in Seq(Unit) /\ u = units /\ g = f
    BY <2>4
  <2>6. /\ \A k \in DOMAIN u, c \in Clusters : Leads(u[k], c) => k = Len(u) - 1
        /\ \A k \in DOMAIN u, c \in Clusters : Leads(u[k], c) => c \in g /\ c \in g /\ Pointers(c) = {}
    BY <2>3, <2>4, <2>5
  <2> HIDE DEF units, f, e
  <2>7. SafeList(first, g, {})
    <3>1. CASE isDir
      <4>1. PICK x, v : x \in Clusters /\ x = FirstFree /\ v = <<Sentinel>>
        BY <2>2, <3>1
      <4>2. v \in Seq(Unit) /\ \A k \in DOMAIN v, c \in Clusters : ~Leads(v[k], c)
        BY <4>1 DEF Unit, Leads, Sentinel
      <4>3. SafeList(ChainTask(x, 0, v), g, {})
        BY <4>1, <4>2, ChainSafe
      <4> QED BY <3>1, <4>1, <4>3
    <3>2. CASE ~isDir
      BY <3>2, SafeSmall
    <3> QED BY <3>1, <3>2
  <2>8. \E b : SafeList(then, g, b)
    <3>1. CASE d = RootDir
      <4>1. ClusterOf(d) = 0
        BY <3>1 DEF ClusterOf
      <4>2. at \in SentinelAt(0)
        BY <2>1, <3>1, <4>1
      <4>3. PICK a \in Nat : a = at
        BY <4>2 DEF SentinelAt, Positions
      <4>4. SafeList(<<RootTask(a, u)>>, g, g)
        BY <2>5, <2>6, RootSafe
      <4> QED BY <2>5, <3>1, <4>3, <4>4
    <3>2. CASE d # RootDir
      <4>1. PICK j \in Positions : d = <<0, j>> /\ DirUnit(0, j).kind = "dir"
        <5>1. d \in Inodes(RootDir, "dir") /\ ClusterOf(RootDir) = 0
          BY <3>2 DEF Dirs, ClusterOf
        <5> QED BY <5>1 DEF Inodes, read_dirents, Walked
      <4>2. j \in Nat
        BY DEF Positions
      <4>3. parent = DirUnit(0, j)
        BY <4>1 DEF read_parent_dirent
      <4>4. parent \in Unit
        BY <4>1, <4>2, <4>3, EntryRead
      <4>5. PICK p \in Unit, x \in Clusters, z \in Nat \ {0} :
               p = parent /\ x = p.cluster /\ z = p.size /\ p = [kind |-> "dir", cluster |-> x, size |-> z]
        BY <4>1, <4>3, <4>4, EntryFields
      <4>6. PICK a \in Nat : a = at
        BY <3>2, <4>5 DEF InsertAt
      <4>7. PICK w \in Unit : w = grown /\ w.cluster = x
        <5>1. count \in Nat
          BY Fat16Assumption
        <5>2. grown = [kind |-> "dir", cluster |-> x, size |-> z + count + 1]
          BY <4>5
        <5>3. z + count + 1 \in Nat \ {0}
          BY <5>1
        <5> HIDE DEF grown, count
        <5> QED BY <5>2, <5>3 DEF Unit
      <4> HIDE DEF grown, at, parent
      <4>8. SafeList(DirentTask(<<0, j>>, w), g, {x})
        BY <4>1, <4>2, <4>3, <4>5, <4>7, DirentSafe
      <4>9. x \notin g
        <5>1. \E l : l \in Pointers(x)
          BY <4>1, <4>2, <4>3, <4>5, <4>7, DirentPlace
        <5> QED BY <2>2, <2>5, <5>1 DEF f
      <4>10. SafeList(ChainTask(x, a, u), g, g)
        BY <2>5, <2>6, ChainSafe
      <4>11. {x} \cap g = {}
        BY <4>9
      <4>12. SafeList(DirentTask(<<0, j>>, w) \o ChainTask(x, a, u), g, {x} \cup g)
        BY <4>8, <4>10, <4>11, SafeConcat
      <4> QED BY <2>5, <3>2, <4>1, <4>5, <4>6, <4>7, <4>12
    <3> QED BY <3>1, <3>2
  <2> HIDE DEF first, then
  <2>9. PICK s, r, b : s = first /\ r = then /\ SafeList(r, g, b)
    BY <2>8
  <2>10. SafeList(s \o r, g, {} \cup b)
    <3>1. SafeList(s, g, {}) /\ {} \cap b = {}
      BY <2>7, <2>9
    <3> QED BY <2>9, <3>1, SafeConcat
  <2>11. s \in Seq(Tasks) /\ r \in Seq(Tasks) /\ s \o r \in Seq(Tasks)
    BY <2>7, <2>9, <2>10 DEF SafeList
  <2>12. todo' = (MarkIf(isDir) \o s) \o r
    BY <2>1, <2>9
  <2>13. CASE isDir
    <3>1. FirstFree \in Clusters /\ FreeClusters # {}
      BY <2>1, <2>13, FreeHasNoPointers
    <3>2. PICK k \in Tasks : k = MarkTask(FirstFree)
      BY <3>1, MarkTaskIs
    <3>3. <<k>> \in Seq(Tasks)
      OBVIOUS
    <3>4. (<<k>> \o s) \o r = <<k>> \o (s \o r)
      BY <2>11, <3>3, ConcatAssociative
    <3>5. todo' = <<MarkTask(FirstFree)>> \o (s \o r) /\ g = {FirstFree}
      BY <2>5, <2>12, <2>13, <3>2, <3>4 DEF MarkIf, f
    <3> QED BY <2>1, <2>10, <3>1, <3>5, StartInv
  <2>14. CASE ~isDir
    <3>1. todo' = s \o r /\ g = {}
      BY <2>5, <2>11, <2>12, <2>14, ConcatEmptySeq DEF MarkIf, f
    <3> QED BY <2>1, <2>10, <3>1, StartInv
  <2> QED BY <2>13, <2>14
<1> QED BY <1>1, <1>2

-----------------------------------------------------------------------------
\* A freshly formatted volume points to nothing.
LEMMA InitInv ==
  ASSUME Init PROVE Fat16Inv
<1>1. TypeOK
  <2>1. Sentinel \in Unit /\ Junk \in Unit /\ <<>> \in Seq(Tasks) /\ 0 \in 0..MaxCuts
    BY Fat16Assumption DEF Unit
  <2> QED BY <2>1 DEF Init, TypeOK
<1>2. ASSUME NEW c \in Clusters, NEW l PROVE ~PointsTo(fat, root, data, l, c)
  <2>1. \A x \in Clusters : fat[x] # c
    BY MarksAreNoClusters DEF Init
  <2>2. \A i \in 0..(RootSize - 1) : ~Leads(root[i], c)
    BY DEF Init, Leads, Sentinel
  <2>3. \A x \in Clusters, i \in 0..(ClusterSize - 1) : ~Leads(data[x][i], c)
    BY DEF Init, Leads, Sentinel, Junk
  <2> QED BY <2>1, <2>2, <2>3 DEF PointsTo
<1>3. NoCrossLinks
  BY <1>1, <1>2, PointersAre DEF NoCrossLinks
<1>4. WritesSafe
  BY DEF Init, WritesSafe
<1> QED BY <1>1, <1>3, <1>4 DEF Fat16Inv

\* Every step keeps the inductive invariant.
LEMMA NextInv ==
  ASSUME Fat16Inv, [Next]_vars PROVE Fat16Inv'
<1>1. ASSUME NEW f \in Files, NEW offset \in Offsets, NEW n \in WriteLens,
             read_file(f, offset, n) \/ write_file(f, offset, n)
      PROVE  Fat16Inv'
  <2>1. CASE read_file(f, offset, n)
    BY <2>1, StopInv DEF read_file, Halt, Fat16Inv, TypeOK, disk
  <2>2. CASE write_file(f, offset, n)
    BY <2>2, WriteFileInv
  <2> QED BY <1>1, <2>1, <2>2
<1>2. ASSUME NEW f \in Files, NEW len \in TruncLens, ftruncate(f, len) PROVE Fat16Inv'
  BY <1>2, TruncateInv
<1>3. ASSUME NEW d \in Dirs, NEW kind \in {"file", "dir"}, NEW name \in Names,
             create_inode(d, kind, name)
      PROVE  Fat16Inv'
  BY <1>3, CreateInv
<1>4. ASSUME NEW d \in Dirs, LookUp(d) PROVE Fat16Inv'
  BY <1>4, StopInv DEF LookUp, Halt, Fat16Inv, TypeOK, disk
<1>5. CASE Mark
  BY <1>5, MarkInv
<1>6. CASE write_to_root_dir
  <2>1. CASE Halt("root")
    BY <2>1, StopInv DEF Halt, Fat16Inv, TypeOK, disk
  <2>2. CASE ~Halt("root")
    <3>1. halted' = halted
      BY <1>6, <2>2 DEF write_to_root_dir, Continue
    <3> QED BY <1>6, <3>1, RootInv
  <2> QED BY <2>1, <2>2
<1>7. CASE WriteCluster
  BY <1>7, WriteInv
<1>8. CASE FollowLink
  <2>1. CASE Halt("wild")
    BY <2>1, StopInv DEF Halt, Fat16Inv, TypeOK, disk
  <2>2. CASE ~Halt("wild")
    <3>1. halted' = halted
      BY <1>8, <2>2 DEF FollowLink, Advance, Continue
    <3> QED BY <1>8, <3>1, FollowInv
  <2> QED BY <2>1, <2>2
<1>9. CASE ExtendChain
  <2>1. CASE Halt("full")
    BY <2>1, StopInv DEF Halt, Fat16Inv, TypeOK, disk
  <2>2. CASE ~Halt("full")
    <3>1. halted' = halted
      BY <1>9, <2>2 DEF ExtendChain
    <3> QED BY <1>9, <3>1, ExtendInv
  <2> QED BY <2>1, <2>2
<1>10. CASE LinkCluster
  BY <1>10, LinkInv
<1>11. CASE PowerCut
  <2>1. cuts' \in 0..MaxCuts
    BY <1>11, Fat16Assumption DEF PowerCut, Fat16Inv, TypeOK
  <2> QED BY <1>11, <2>1, StopInv DEF PowerCut, Fat16Inv, TypeOK, disk
<1>12. CASE Halted \/ UNCHANGED vars
  <2>1. fat' = fat /\ root' = root /\ data' = data /\ todo' = todo /\ cuts' = cuts /\ halted' = halted
    BY <1>12 DEF Halted, vars
  <2>2. TypeOK'
    BY <2>1 DEF Fat16Inv, TypeOK
  <2>3. SamePointers
    BY <2>1, SameDisk
  <2>4. NoCrossLinks'
    BY <2>1, <2>3 DEF Fat16Inv, SamePointers, NoCrossLinks
  <2>5. WritesSafe'
    BY <2>1 DEF Fat16Inv, WritesSafe, ClaimsSafe, Lands, Pointers, Task
  <2> QED BY <2>2, <2>4, <2>5 DEF Fat16Inv
<1>13. CASE Operation
  BY <1>1, <1>2, <1>3, <1>4, <1>13 DEF Operation
<1> QED BY <1>5, <1>6, <1>7, <1>8, <1>9, <1>10, <1>11, <1>12, <1>13 DEF Next

\* Fat16Inv is inductive: the writes an operation has left never point to a
\* cluster that something else points to.
THEOREM Fat16Invariance == Spec => []Fat16Inv
BY InitInv, NextInv, PTL DEF Spec

\* No two files or directories of the volume share a cluster, no chain runs into
\* another, and none leads to a free cluster, between any two disk writes of
\* fs_fat.c and after a power cut at any of them.
THEOREM CrossLinksCorrect == Spec => []NoCrossLinks
<1>1. Fat16Inv => NoCrossLinks
  BY DEF Fat16Inv
<1> QED BY <1>1, Fat16Invariance, PTL
=============================================================================
