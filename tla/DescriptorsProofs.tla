------------------------- MODULE DescriptorsProofs -------------------------
(***************************************************************************)
(* For every number of processes, descriptors and devices: a device's Rc   *)
(* count is the number of descriptors that stand for it, so that it is     *)
(* closed with the last of them, an end of a pipe has a peer exactly while *)
(* somebody holds the other end, and a read is told EOF only then.         *)
(***************************************************************************)
EXTENDS Descriptors, FiniteSetTheorems, WellFoundedInduction, TLAPS

\* The descriptors of the tables t that stand for f: Holders for any tables.
HoldersIn(t, f) == {h \in (DOMAIN t) \X Fd : t[h[1]][h[2]] = f}

\* The descriptors in S of the table row that stand for f.
Refs(row, S, f) == {n \in S : row[n] = f}

\* The tables t with descriptor n of process p standing for v, and without q's table.
Put(t, p, n, v) == [t EXCEPT ![p][n] = v]
Without(t, q) == [x \in (DOMAIN t) \ {q} |-> t[x]]

\* Tables of processes, as TypeOK has them.
IsTables(t) ==
    DOMAIN t \subseteq 1..MaxPid /\ t \in [DOMAIN t -> [Fd -> (1..MaxFiles) \cup {None}]]

-----------------------------------------------------------------------------
(* Finite sets of numbers and of descriptors.                              *)

\* find_free_fd's choice: a set of numbers that is not empty has a lowest.
LEMMA LowestIn ==
  ASSUME NEW S \in SUBSET Nat, S # {}
  PROVE  Lowest(S) \in S /\ \A m \in S : Lowest(S) <= m
<1>1. IsWellFoundedOn({ss \in Nat \X Nat : ss[1] < ss[2]}, Nat)
  BY NatLessThanWellFounded DEF OpToRel
<1>2. PICK x \in S : \A y \in S : ~(<<y, x>> \in {ss \in Nat \X Nat : ss[1] < ss[2]})
  BY <1>1, WFMin
<1>3. \A m \in S : x <= m
  <2> SUFFICES ASSUME NEW m \in S PROVE x <= m
    OBVIOUS
  <2>1. <<m, x>> \in Nat \X Nat /\ <<m, x>>[1] = m /\ <<m, x>>[2] = x
    OBVIOUS
  <2>2. ~(m < x)
    BY <1>2, <2>1
  <2> QED BY <2>2
<1> QED BY <1>3 DEF Lowest

\* Descriptors are finitely many numbers.
LEMMA FdFinite == IsFiniteSet(Fd) /\ Fd \subseteq Nat /\ 0 \in Fd
BY DescriptorsAssumption, FS_Interval DEF Fd

\* So are the references that one table, or part of it, has to a device.
LEMMA RefsFinite ==
  ASSUME NEW t, NEW f, NEW S \in SUBSET Fd
  PROVE  IsFiniteSet(Refs(t, S, f)) /\ Cardinality(Refs(t, S, f)) \in Nat
<1>1. Refs(t, S, f) \in SUBSET Fd
  BY DEF Refs
<1>2. IsFiniteSet(Refs(t, S, f))
  BY <1>1, FdFinite, FS_Subset
<1> QED BY <1>2, FS_CardinalityType

\* And the holders of a device in all tables.
LEMMA HoldersFinite ==
  ASSUME NEW t, DOMAIN t \subseteq 1..MaxPid, NEW f
  PROVE  IsFiniteSet(HoldersIn(t, f)) /\ Cardinality(HoldersIn(t, f)) \in Nat
<1>1. IsFiniteSet(1..MaxPid)
  BY DescriptorsAssumption, FS_Interval
<1>2. IsFiniteSet(DOMAIN t)
  BY <1>1, FS_Subset
<1>3. IsFiniteSet((DOMAIN t) \X Fd)
  BY <1>2, FdFinite, FS_Product
<1>4. HoldersIn(t, f) \in SUBSET ((DOMAIN t) \X Fd)
  BY DEF HoldersIn
<1>5. IsFiniteSet(HoldersIn(t, f))
  BY <1>3, <1>4, FS_Subset
<1> QED BY <1>5, FS_CardinalityType

\* A device has holders exactly when their number is not zero.
LEMMA SomeHolder ==
  ASSUME NEW t, DOMAIN t \subseteq 1..MaxPid, NEW f
  PROVE  Cardinality(HoldersIn(t, f)) > 0 <=> \E p \in DOMAIN t, n \in Fd : t[p][n] = f
<1>1. IsFiniteSet(HoldersIn(t, f)) /\ Cardinality(HoldersIn(t, f)) \in Nat
  BY HoldersFinite
<1>2. Cardinality(HoldersIn(t, f)) = 0 <=> HoldersIn(t, f) = {}
  BY <1>1, FS_EmptySet
<1>3. ASSUME NEW p \in DOMAIN t, NEW n \in Fd, t[p][n] = f PROVE HoldersIn(t, f) # {}
  <2>1. <<p, n>> \in (DOMAIN t) \X Fd /\ <<p, n>>[1] = p /\ <<p, n>>[2] = n
    OBVIOUS
  <2>2. <<p, n>> \in HoldersIn(t, f)
    BY <1>3, <2>1 DEF HoldersIn
  <2> QED BY <2>2
<1>4. ASSUME HoldersIn(t, f) # {} PROVE \E p \in DOMAIN t, n \in Fd : t[p][n] = f
  <2>1. PICK h \in (DOMAIN t) \X Fd : t[h[1]][h[2]] = f
    BY <1>4 DEF HoldersIn
  <2>2. h[1] \in DOMAIN t /\ h[2] \in Fd
    BY <2>1
  <2> QED BY <2>1, <2>2
<1> QED BY <1>1, <1>2, <1>3, <1>4

\* Changing one descriptor from u to v takes a holder from u and gives one to v.
LEMMA SetDescriptor ==
  ASSUME NEW t, IsTables(t), NEW p \in DOMAIN t, NEW n \in Fd, NEW v, NEW f
  PROVE  Cardinality(HoldersIn(Put(t, p, n, v), f))
           = Cardinality(HoldersIn(t, f)) + (IF v = f THEN 1 ELSE 0)
                                          - (IF t[p][n] = f THEN 1 ELSE 0)
<1> DEFINE u == Put(t, p, n, v)
<1> DEFINE h == <<p, n>>
<1>1. DOMAIN u = DOMAIN t /\ DOMAIN t \subseteq 1..MaxPid
  BY DEF IsTables, Put
<1>2. h[1] = p /\ h[2] = n /\ h \in (DOMAIN t) \X Fd
  OBVIOUS
<1>3. \A g \in (DOMAIN t) \X Fd : u[g[1]][g[2]] = IF g = h THEN v ELSE t[g[1]][g[2]]
  <2> SUFFICES ASSUME NEW a \in DOMAIN t, NEW b \in Fd
               PROVE  u[a][b] = IF <<a, b>> = h THEN v ELSE t[a][b]
    OBVIOUS
  <2> QED BY DEF IsTables, Put
<1> HIDE DEF u, h
<1>4. HoldersIn(u, f) \ {h} = HoldersIn(t, f) \ {h}
  BY <1>1, <1>3 DEF HoldersIn
<1>5. h \in HoldersIn(u, f) <=> v = f
  BY <1>1, <1>2, <1>3 DEF HoldersIn
<1>6. h \in HoldersIn(t, f) <=> t[p][n] = f
  BY <1>2 DEF HoldersIn
<1>7. /\ IsFiniteSet(HoldersIn(t, f)) /\ Cardinality(HoldersIn(t, f)) \in Nat
      /\ IsFiniteSet(HoldersIn(u, f)) /\ Cardinality(HoldersIn(u, f)) \in Nat
  BY <1>1, HoldersFinite
<1> DEFINE A == HoldersIn(u, f)
<1> DEFINE B == HoldersIn(t, f)
<1> HIDE DEF A, B
<1>8. Cardinality(A \ {h}) = IF h \in A THEN Cardinality(A) - 1 ELSE Cardinality(A)
  BY <1>7, FS_RemoveElement DEF A
<1>9. Cardinality(B \ {h}) = IF h \in B THEN Cardinality(B) - 1 ELSE Cardinality(B)
  BY <1>7, FS_RemoveElement DEF B
<1>10. (h \in A <=> v = f) /\ (h \in B <=> t[p][n] = f)
  BY <1>5, <1>6 DEF A, B
<1>11. Cardinality(A \ {h}) = Cardinality(B \ {h})
  BY <1>4, Zenon DEF A, B
<1>12. Cardinality(A) \in Nat /\ Cardinality(B) \in Nat
  BY <1>7 DEF A, B
<1>13. Cardinality(A) = Cardinality(B) + (IF v = f THEN 1 ELSE 0) - (IF t[p][n] = f THEN 1 ELSE 0)
  BY <1>8, <1>9, <1>10, <1>11, <1>12
<1> QED BY <1>13 DEF u, A, B

\* A table more adds its references to the holders.
LEMMA AddTable ==
  ASSUME NEW t, DOMAIN t \subseteq 1..MaxPid, NEW q \in (1..MaxPid) \ DOMAIN t, NEW row, NEW f
  PROVE  Cardinality(HoldersIn(Extend(t, q, row), f))
           = Cardinality(HoldersIn(t, f)) + Cardinality(Refs(row, Fd, f))
<1> DEFINE u == Extend(t, q, row)
<1> DEFINE R == Refs(row, Fd, f)
<1> DEFINE A == HoldersIn(t, f)
<1> DEFINE B == {q} \X R
<1>1. DOMAIN u = (DOMAIN t) \cup {q} /\ u[q] = row /\ \A x \in DOMAIN t : u[x] = t[x]
  BY DEF Extend
<1>2. /\ IsFiniteSet(R) /\ Cardinality(R) \in Nat
      /\ IsFiniteSet(A) /\ Cardinality(A) \in Nat
  BY RefsFinite, HoldersFinite
<1> HIDE DEF u
<1>3. HoldersIn(u, f) = A \cup B
  <2>1. ASSUME NEW h \in HoldersIn(u, f) PROVE h \in A \cup B
    <3>1. PICK a \in (DOMAIN t) \cup {q}, n \in Fd : h = <<a, n>>
      BY <1>1 DEF HoldersIn
    <3>2. u[a][n] = f
      BY <3>1 DEF HoldersIn
    <3>3. CASE a = q
      BY <1>1, <3>1, <3>2, <3>3 DEF Refs
    <3>4. CASE a \in DOMAIN t
      BY <1>1, <3>1, <3>2, <3>4 DEF HoldersIn
    <3> QED BY <3>3, <3>4
  <2>2. ASSUME NEW h \in A PROVE h \in HoldersIn(u, f)
    <3>1. PICK a \in DOMAIN t, n \in Fd : h = <<a, n>> /\ t[a][n] = f
      BY DEF HoldersIn
    <3> QED BY <1>1, <3>1 DEF HoldersIn
  <2>3. ASSUME NEW n \in R PROVE <<q, n>> \in HoldersIn(u, f)
    BY <1>1 DEF HoldersIn, Refs
  <2> QED BY <2>1, <2>2, <2>3
<1>4. A \cap B = {}
  BY DEF HoldersIn
<1> HIDE DEF A, R
<1>5. IsFiniteSet({q}) /\ Cardinality({q}) = 1
  BY FS_Singleton
<1>6. IsFiniteSet(B) /\ Cardinality(B) = 1 * Cardinality(R)
  BY <1>2, <1>5, FS_Product
<1> HIDE DEF B
<1>7. Cardinality(A \cup B) = Cardinality(A) + Cardinality(B) - Cardinality(A \cap B)
  BY <1>2, <1>6, FS_Union
<1>8. Cardinality(A \cap B) = 0
  BY <1>4, FS_EmptySet, Zenon
<1>9. Cardinality(HoldersIn(u, f)) = Cardinality(A \cup B)
  BY <1>3, Zenon
<1>10. Cardinality(HoldersIn(u, f)) = Cardinality(A) + Cardinality(R)
  BY <1>2, <1>6, <1>7, <1>8, <1>9
<1> QED BY <1>10 DEF u, A, R

\* A table less takes them away.
LEMMA DropTable ==
  ASSUME NEW t, t = [x \in DOMAIN t |-> t[x]], DOMAIN t \subseteq 1..MaxPid,
         NEW q \in DOMAIN t, NEW f
  PROVE  Cardinality(HoldersIn(Without(t, q), f))
           = Cardinality(HoldersIn(t, f)) - Cardinality(Refs(t[q], Fd, f))
<1> DEFINE u == Without(t, q)
<1>1. DOMAIN u = (DOMAIN t) \ {q} /\ \A x \in DOMAIN u : u[x] = t[x]
  BY DEF Without
<1> HIDE DEF u
<1>2. Extend(u, q, t[q]) = t
  <2>1. DOMAIN Extend(u, q, t[q]) = DOMAIN t
    BY <1>1 DEF Extend
  <2>2. \A x \in DOMAIN t : Extend(u, q, t[q])[x] = t[x]
    BY <1>1 DEF Extend
  <2>3. Extend(u, q, t[q]) = [x \in DOMAIN t |-> Extend(u, q, t[q])[x]]
    BY <2>1 DEF Extend
  <2> QED BY <2>2, <2>3
<1>3. q \in (1..MaxPid) \ DOMAIN u /\ DOMAIN u \subseteq 1..MaxPid
  BY <1>1
<1>4. Cardinality(HoldersIn(Extend(u, q, t[q]), f))
        = Cardinality(HoldersIn(u, f)) + Cardinality(Refs(t[q], Fd, f))
  BY <1>3, AddTable
<1>5. Cardinality(HoldersIn(u, f)) \in Nat
  BY <1>3, HoldersFinite
<1>6. Cardinality(Refs(t[q], Fd, f)) \in Nat
  BY RefsFinite
<1>7. Cardinality(HoldersIn(u, f))
        = Cardinality(HoldersIn(t, f)) - Cardinality(Refs(t[q], Fd, f))
  BY <1>2, <1>4, <1>5, <1>6
<1> QED BY <1>7 DEF u

\* Closing one descriptor releases one reference.
LEMMA OneRef ==
  ASSUME NEW t, NEW m, NEW f
  PROVE  Cardinality(Refs(t, {m}, f)) = IF t[m] = f THEN 1 ELSE 0
<1>1. CASE t[m] = f
  <2>1. Refs(t, {m}, f) = {m}
    BY <1>1 DEF Refs
  <2> QED BY <1>1, <2>1, FS_Singleton
<1>2. CASE t[m] # f
  <2>1. Refs(t, {m}, f) = {}
    BY <1>2 DEF Refs
  <2> QED BY <1>2, <2>1, FS_EmptySet
<1> QED BY <1>1, <1>2

-----------------------------------------------------------------------------
(* What the invariant says, and what keeps its parts.                      *)

\* Holders is HoldersIn of the processes' tables.
LEMMA HoldersAre == \A f : Holders(f) = HoldersIn(fds, f)
BY DEF Holders, HoldersIn, Procs

\* The tables are typed.
LEMMA TablesTyped == ASSUME DescriptorsInv PROVE IsTables(fds)
BY DEF DescriptorsInv, TypeOK, IsTables, Procs

\* The counts tell which devices are held.
LEMMA CountTellsHeld ==
  ASSUME DescriptorsInv, NEW f \in Files
  PROVE  /\ count[f] \in Nat
         /\ count[f] = Cardinality(HoldersIn(fds, f))
         /\ count[f] > 0 <=> Held(f)
<1>1. DOMAIN fds \subseteq 1..MaxPid /\ count[f] \in Nat
  BY DEF DescriptorsInv, TypeOK, Procs
<1>2. count[f] = Cardinality(HoldersIn(fds, f))
  BY HoldersAre DEF DescriptorsInv, CountsHolders
<1> QED BY <1>1, <1>2, SomeHolder DEF Held, Procs

\* A device named by a descriptor exists, is counted and is not None.
LEMMA OpenIsHeld ==
  ASSUME DescriptorsInv, NEW p \in Procs, NEW n \in Fd, fds[p][n] # None
  PROVE  fds[p][n] \in Files /\ count[fds[p][n]] > 0
<1>1. fds[p][n] \in Files
  BY DEF DescriptorsInv, TypeOK
<1>2. Held(fds[p][n])
  BY DEF Held
<1> QED BY <1>1, <1>2, CountTellsHeld

\* Numbers handed out next are not in use.
LEMMA NextIsFresh ==
  ASSUME DescriptorsInv
  PROVE  /\ Cardinality(Files) \in Nat /\ Cardinality(DOMAIN parent) \in Nat
         /\ Files = 1..Cardinality(Files) /\ DOMAIN parent = 1..Cardinality(DOMAIN parent)
         /\ IsFiniteSet(Files) /\ IsFiniteSet(DOMAIN parent)
         /\ None \notin Files
<1>1. Files \in SUBSET (1..MaxFiles) /\ DOMAIN parent \in SUBSET (1..MaxPid)
  BY DEF DescriptorsInv, TypeOK
<1>2. IsFiniteSet(1..MaxFiles) /\ IsFiniteSet(1..MaxPid)
  BY DescriptorsAssumption, FS_Interval
<1>3. IsFiniteSet(Files)
  BY <1>1, <1>2, FS_Subset
<1>4. IsFiniteSet(DOMAIN parent)
  BY <1>1, <1>2, FS_Subset
<1>5. Cardinality(Files) \in Nat /\ Cardinality(DOMAIN parent) \in Nat
  BY <1>3, <1>4, FS_CardinalityType
<1> QED BY <1>1, <1>3, <1>4, <1>5, DescriptorsAssumption DEF DescriptorsInv, NumberedInOrder

\* Steps that change no table, count or peer keep the invariant if types are kept.
LEMMA TablesKept ==
  ASSUME DescriptorsInv, UNCHANGED <<fds, parent, count, peer, pipe>>, TypeOK'
  PROVE  DescriptorsInv'
<1>1. CountsHolders'
  BY DEF DescriptorsInv, CountsHolders, Holders, Procs, Files
<1>2. NumberedInOrder'
  BY DEF DescriptorsInv, NumberedInOrder, Files
<1>3. PeerUntilClosed'
  BY DEF DescriptorsInv, PeerUntilClosed, Files, Pipes
<1> QED BY <1>1, <1>2, <1>3 DEF DescriptorsInv

\* Peers may stay as they are while the same devices stay referenced.
LEMMA PeersKept ==
  ASSUME DescriptorsInv, UNCHANGED <<peer, pipe>>, Files' = Files,
         \A f \in Files : count'[f] > 0 <=> count[f] > 0
  PROVE  PeerUntilClosed'
<1>1. Pipes' = Pipes /\ pipe' = pipe /\ peer' = peer
  BY DEF Pipes
<1>2. \A f \in Pipes : pipe[f] \in Files
  BY DEF DescriptorsInv, TypeOK
<1> QED BY <1>1, <1>2 DEF DescriptorsInv, PeerUntilClosed

\* pipe_close: what Release closes is forgotten by its peers.
LEMMA PeersClosed ==
  ASSUME DescriptorsInv, UNCHANGED pipe, Files' = Files,
         \A f \in Files : count'[f] \in Nat /\ count'[f] <= count[f],
         peer' = ClosePeers({f \in Files : count[f] > 0 /\ count'[f] = 0})
  PROVE  PeerUntilClosed' /\ peer' \in [Files -> Files \cup {None}]
<1>1. Pipes' = Pipes /\ pipe' = pipe
  BY DEF Pipes
<1>2. \A f \in Pipes : pipe[f] \in Files /\ f \in Files /\ pipe[f] # None
  BY NextIsFresh DEF DescriptorsInv, TypeOK
<1>3. \A f \in Files : count[f] \in Nat /\ peer[f] \in Files \cup {None}
  BY DEF DescriptorsInv, TypeOK
<1>4. \A f \in Files : peer'[f] = IF peer[f] \in {g \in Files : count[g] > 0 /\ count'[g] = 0}
                                    THEN None ELSE peer[f]
  BY DEF ClosePeers
<1>5. peer' \in [Files -> Files \cup {None}]
  BY <1>3 DEF ClosePeers
<1>6. ASSUME NEW f \in Files
      PROVE  peer'[f] = IF f \in Pipes /\ count'[pipe[f]] > 0 THEN pipe[f] ELSE None
  <2>1. peer[f] = IF f \in Pipes /\ count[pipe[f]] > 0 THEN pipe[f] ELSE None
    BY DEF DescriptorsInv, PeerUntilClosed
  <2>2. CASE f \in Pipes /\ count[pipe[f]] > 0
    BY <1>2, <1>3, <1>4, <2>1, <2>2
  <2>3. CASE ~(f \in Pipes /\ count[pipe[f]] > 0)
    <3>1. peer'[f] = None
      BY <1>4, <2>1, <2>3
    <3>2. f \in Pipes => ~(count'[pipe[f]] > 0)
      BY <1>2, <1>3, <2>3
    <3> QED BY <3>1, <3>2
  <2> QED BY <2>2, <2>3
<1> QED BY <1>1, <1>5, <1>6 DEF DescriptorsInv, PeerUntilClosed

-----------------------------------------------------------------------------
(* Every system call, and every poll, keeps the invariant.                 *)

\* Once the kernel has stopped there is nothing left to be wrong.
LEMMA PanicInv == ASSUME Panic PROVE DescriptorsInv'
<1>1. /\ DOMAIN fds' = {} /\ DOMAIN parent' = {} /\ DOMAIN waiting' = {} /\ DOMAIN count' = {}
      /\ DOMAIN peer' = {} /\ DOMAIN pipe' = {} /\ DOMAIN bytes' = {}
  BY DEF Panic, Empty
<1>2. \A V : /\ fds' \in [{} -> V] /\ parent' \in [{} -> V] /\ waiting' \in [{} -> V]
             /\ count' \in [{} -> V] /\ peer' \in [{} -> V] /\ pipe' \in [{} -> V]
             /\ bytes' \in [{} -> V]
  BY DEF Panic, Empty
<1>3. halted' \in BOOLEAN
  BY Zenon DEF Panic
<1>4. Procs' = {} /\ Files' = {} /\ Pipes' = {}
  BY <1>1 DEF Procs, Files, Pipes
<1>5. TypeOK'
  BY <1>1, <1>2, <1>3, <1>4, Zenon DEF TypeOK
<1>6. NumberedInOrder'
  <2>1. Cardinality({}) = 0 /\ 1..0 = {}
    BY FS_EmptySet
  <2> QED BY <1>1, <1>4, <2>1 DEF NumberedInOrder
<1>7. CountsHolders' /\ PeerUntilClosed'
  BY <1>4 DEF CountsHolders, PeerUntilClosed
<1> QED BY <1>5, <1>6, <1>7 DEF DescriptorsInv

\* default_fd: the first process holds the terminal once.
LEMMA InitInv == ASSUME Init PROVE DescriptorsInv
<1>1. Procs = {1} /\ Files = {1} /\ Pipes = {} /\ DOMAIN parent = {1}
  BY DEF Init, Procs, Files, Pipes, Empty
<1>2. 1 \in 1..MaxPid /\ 1 \in 1..MaxFiles /\ 0 \in Fd
  BY DescriptorsAssumption, FdFinite
<1>3. /\ fds \in [Procs -> [Fd -> Files \cup {None}]]
      /\ parent \in [DOMAIN parent -> 0..MaxPid]
  BY <1>1, DescriptorsAssumption DEF Init
<1>4. waiting \in [Procs -> [kind : {"ready", "read", "child", "zombie"}, fd : Fd]]
  BY <1>1, <1>2 DEF Init, Ready
<1>5. /\ count \in [Files -> Nat] /\ peer \in [Files -> Files \cup {None}]
      /\ bytes \in [Files -> Nat]
  BY <1>1 DEF Init
<1>6. pipe \in [Pipes -> Pipes]
  BY <1>1 DEF Init, Empty
<1>7. halted \in BOOLEAN
  BY Zenon DEF Init
<1>8. TypeOK
  BY <1>1, <1>2, <1>3, <1>4, <1>5, <1>6, <1>7 DEF TypeOK
<1>9. NumberedInOrder
  <2>1. Cardinality({1}) = 1 /\ 1..1 = {1}
    BY FS_Singleton
  <2> QED BY <1>1, <2>1 DEF NumberedInOrder
<1>10. CountsHolders
  <2>1. \A h \in Procs \X Fd : fds[h[1]][h[2]] = 1 <=> h = <<1, 0>>
    <3> SUFFICES ASSUME NEW n \in Fd PROVE fds[1][n] = 1 <=> n = 0
      BY <1>1
    <3> QED BY <1>2, DescriptorsAssumption DEF Init
  <2>2. Holders(1) = {<<1, 0>>}
    BY <1>1, <1>2, <2>1 DEF Holders
  <2>3. Cardinality(Holders(1)) = 1
    BY <2>2, FS_Singleton
  <2> QED BY <1>1, <2>3 DEF CountsHolders, Init
<1>11. PeerUntilClosed
  BY <1>1 DEF PeerUntilClosed, Init
<1> QED BY <1>8, <1>9, <1>10, <1>11 DEF DescriptorsInv

\* Waiting, exiting and starting a read only change the caller's state.
LEMMA WaitInv ==
  ASSUME DescriptorsInv, NEW p \in Procs,
         syscall_halt(p) \/ syscall_wait(p) \/ \E n \in Fd : syscall_read_fd(p, n)
  PROVE  DescriptorsInv'
<1>1. UNCHANGED <<fds, parent, count, peer, pipe, bytes, halted>>
  BY DEF syscall_halt, syscall_wait, syscall_read_fd
<1>2. PICK k \in {"zombie", "child", "read"}, n \in Fd :
         waiting' = [waiting EXCEPT ![p] = [kind |-> k, fd |-> n]]
  BY FdFinite DEF syscall_halt, syscall_wait, syscall_read_fd
<1>3. Procs' = Procs /\ Files' = Files /\ Pipes' = Pipes
  BY <1>1 DEF Procs, Files, Pipes
<1>4. waiting' \in [Procs -> [kind : {"ready", "read", "child", "zombie"}, fd : Fd]]
  BY <1>2 DEF DescriptorsInv, TypeOK
<1>5. TypeOK'
  BY <1>1, <1>3, <1>4 DEF DescriptorsInv, TypeOK
<1> QED BY <1>1, <1>5, TablesKept

\* A byte written is a byte more in the peer's buffer.
LEMMA WriteInv ==
  ASSUME DescriptorsInv, NEW p \in Procs, NEW n \in Fd, syscall_write_fd(p, n)
  PROVE  DescriptorsInv'
<1> DEFINE f == fds[p][n]
<1>1. CASE Panic
  BY <1>1, PanicInv
<1>2. CASE /\ f # None /\ f \in Pipes /\ peer[f] # None /\ bytes[peer[f]] < MaxBytes
           /\ bytes' = [bytes EXCEPT ![peer[f]] = @ + 1]
           /\ UNCHANGED <<fds, parent, waiting, count, peer, pipe, halted>>
  <2>1. Procs' = Procs /\ Files' = Files /\ Pipes' = Pipes
    BY <1>2 DEF Procs, Files, Pipes
  <2>2. bytes' \in [Files -> Nat]
    BY <1>2 DEF DescriptorsInv, TypeOK
  <2>3. TypeOK'
    BY <1>2, <2>1, <2>2 DEF DescriptorsInv, TypeOK
  <2> QED BY <1>2, <2>3, TablesKept
<1> QED BY <1>1, <1>2 DEF syscall_write_fd

\* A read that is answered makes its caller ready.
LEMMA PollReadInv ==
  ASSUME DescriptorsInv, NEW p \in Procs, PollRead(p)
  PROVE  DescriptorsInv'
<1> DEFINE f == fds[p][waiting[p].fd]
<1>1. CASE Panic
  BY <1>1, PanicInv
<1>2. CASE /\ f # None /\ (f \in Pipes => AtEof(f) \/ bytes[f] > 0)
           /\ waiting' = [waiting EXCEPT ![p] = Ready]
           /\ bytes' = IF f \in Pipes /\ ~AtEof(f) THEN [bytes EXCEPT ![f] = @ - 1] ELSE bytes
           /\ UNCHANGED <<fds, parent, count, peer, pipe, halted>>
  <2>1. Procs' = Procs /\ Files' = Files /\ Pipes' = Pipes
    BY <1>2 DEF Procs, Files, Pipes
  <2>2. bytes' \in [Files -> Nat]
    BY <1>2 DEF DescriptorsInv, TypeOK
  <2>3. waiting' \in [Procs -> [kind : {"ready", "read", "child", "zombie"}, fd : Fd]]
    BY <1>2, FdFinite DEF DescriptorsInv, TypeOK, Ready
  <2>4. TypeOK'
    BY <1>2, <2>1, <2>2, <2>3 DEF DescriptorsInv, TypeOK
  <2> QED BY <1>2, <2>4, TablesKept
<1> QED BY <1>1, <1>2 DEF PollRead

\* A descriptor closed is a reference released; the last one closes the device.
LEMMA CloseInv ==
  ASSUME DescriptorsInv, NEW p \in Procs, NEW n \in Fd, syscall_close_fd(p, n)
  PROVE  DescriptorsInv'
<1>1. CASE Panic
  BY <1>1, PanicInv
<1>2. CASE /\ fds[p][n] # None
           /\ fds' = [fds EXCEPT ![p][n] = None]
           /\ Release(count, fds[p], {n})
           /\ UNCHANGED <<parent, waiting, pipe, bytes, halted>>
  <2>1. Procs' = Procs /\ Pipes' = Pipes
    BY <1>2 DEF Procs, Pipes, DescriptorsInv, TypeOK
  <2>2. /\ Files' = Files
        /\ count' = [f \in Files |-> count[f] - Cardinality(Refs(fds[p], {n}, f))]
    BY <1>2 DEF Release, Files, Refs
  <2>3. \A f \in Files : count'[f] = count[f] - IF fds[p][n] = f THEN 1 ELSE 0
    <3> SUFFICES ASSUME NEW f \in Files
                 PROVE  count'[f] = count[f] - IF fds[p][n] = f THEN 1 ELSE 0
      OBVIOUS
    <3> DEFINE refs == Cardinality(Refs(fds[p], {n}, f))
    <3>1. refs = IF fds[p][n] = f THEN 1 ELSE 0
      BY OneRef
    <3>2. count'[f] = count[f] - refs
      BY <2>2
    <3> HIDE DEF refs
    <3> QED BY <3>1, <3>2
  <2>4. \A f \in Files : count[f] \in Nat /\ (fds[p][n] = f => count[f] > 0)
    BY <1>2, OpenIsHeld DEF DescriptorsInv, TypeOK
  <2>5. \A f \in Files : count'[f] \in Nat /\ count'[f] <= count[f]
    BY <2>3, <2>4
  <2>6. peer' = ClosePeers({f \in Files : count[f] > 0 /\ count'[f] = 0})
    BY <1>2 DEF Release
  <2>7. PeerUntilClosed' /\ peer' \in [Files -> Files \cup {None}]
    BY <1>2, <2>2, <2>5, <2>6, PeersClosed
  <2>8. fds' \in [Procs -> [Fd -> Files \cup {None}]]
    BY <1>2 DEF DescriptorsInv, TypeOK
  <2>9. count' \in [Files -> Nat]
    BY <2>2, <2>5
  <2>10. TypeOK'
    BY <1>2, <2>1, <2>2, <2>7, <2>8, <2>9 DEF DescriptorsInv, TypeOK
  <2>11. NumberedInOrder'
    BY <1>2, <2>2 DEF DescriptorsInv, NumberedInOrder
  <2>12. CountsHolders'
    <3> SUFFICES ASSUME NEW f \in Files PROVE count'[f] = Cardinality(HoldersIn(fds', f))
      BY <2>2, HoldersAre DEF CountsHolders, Holders, HoldersIn, Procs
    <3>1. IsTables(fds) /\ p \in DOMAIN fds /\ None # f
      BY TablesTyped, NextIsFresh DEF Procs
    <3>2. Cardinality(HoldersIn(fds', f))
            = Cardinality(HoldersIn(fds, f)) + (IF None = f THEN 1 ELSE 0)
                                             - (IF fds[p][n] = f THEN 1 ELSE 0)
      <4>1. fds' = Put(fds, p, n, None)
        BY <1>2 DEF Put
      <4> QED BY <3>1, <4>1, SetDescriptor
    <3>3. count[f] = Cardinality(HoldersIn(fds, f)) /\ count[f] \in Nat
      BY CountTellsHeld
    <3> QED BY <2>3, <3>1, <3>2, <3>3
  <2> QED BY <2>7, <2>10, <2>11, <2>12 DEF DescriptorsInv
<1> QED BY <1>1, <1>2 DEF syscall_close_fd

\* The descriptor that find_free_fd takes is free.
LEMMA LowestFree ==
  ASSUME NEW p, NEW min, Available(p, min) # {}
  PROVE  /\ Lowest(Available(p, min)) \in Available(p, min)
         /\ Lowest(Available(p, min)) \in Fd
         /\ fds[p][Lowest(Available(p, min))] = None
<1>1. Available(p, min) \in SUBSET Nat /\ Available(p, min) \subseteq Fd
  BY FdFinite DEF Available
<1>2. Lowest(Available(p, min)) \in Available(p, min)
  BY <1>1, LowestIn
<1> QED BY <1>1, <1>2 DEF Available

\* A duplicate is one more reference to a device that has one.
LEMMA DupInv ==
  ASSUME DescriptorsInv, NEW p \in Procs, NEW n \in Fd, NEW min \in Fd, syscall_dupfd(p, n, min)
  PROVE  DescriptorsInv'
<1>1. CASE Panic
  BY <1>1, PanicInv
<1>2. CASE /\ fds[p][n] # None /\ Available(p, min) # {}
           /\ fds' = [fds EXCEPT ![p][Lowest(Available(p, min))] = fds[p][n]]
           /\ count' = [count EXCEPT ![fds[p][n]] = @ + 1]
           /\ UNCHANGED <<parent, waiting, peer, pipe, bytes, halted>>
  <2>1. PICK m \in Fd : fds[p][m] = None /\ fds' = [fds EXCEPT ![p][m] = fds[p][n]]
    BY <1>2, LowestFree
  <2>2. PICK g \in Files : g = fds[p][n] /\ count[g] > 0
    BY <1>2, OpenIsHeld
  <2>3. Procs' = Procs /\ Pipes' = Pipes /\ Files' = Files
    BY <1>2, <2>1 DEF Procs, Pipes, Files, DescriptorsInv, TypeOK
  <2>4. \A f \in Files : count'[f] = count[f] + IF f = g THEN 1 ELSE 0
    BY <1>2, <2>2 DEF DescriptorsInv, TypeOK
  <2>5. count' \in [Files -> Nat]
    BY <1>2, <2>2 DEF DescriptorsInv, TypeOK
  <2>6. fds' \in [Procs -> [Fd -> Files \cup {None}]]
    BY <2>1, <2>2 DEF DescriptorsInv, TypeOK
  <2>7. TypeOK'
    BY <1>2, <2>3, <2>5, <2>6 DEF DescriptorsInv, TypeOK
  <2>8. NumberedInOrder'
    BY <1>2, <2>3 DEF DescriptorsInv, NumberedInOrder
  <2>9. PeerUntilClosed'
    <3>1. \A f \in Files : count'[f] > 0 <=> count[f] > 0
      BY <2>2, <2>4 DEF DescriptorsInv, TypeOK
    <3> QED BY <1>2, <2>3, <3>1, PeersKept
  <2>10. CountsHolders'
    <3> SUFFICES ASSUME NEW f \in Files PROVE count'[f] = Cardinality(HoldersIn(fds', f))
      BY <2>3 DEF CountsHolders, Holders, HoldersIn, Procs
    <3>1. IsTables(fds) /\ p \in DOMAIN fds /\ None # f
      BY TablesTyped, NextIsFresh DEF Procs
    <3>2. Cardinality(HoldersIn(fds', f))
            = Cardinality(HoldersIn(fds, f)) + (IF g = f THEN 1 ELSE 0)
                                             - (IF fds[p][m] = f THEN 1 ELSE 0)
      <4>1. fds' = Put(fds, p, m, g)
        BY <2>1, <2>2 DEF Put
      <4> QED BY <3>1, <4>1, SetDescriptor
    <3>3. count[f] = Cardinality(HoldersIn(fds, f)) /\ count[f] \in Nat
      BY CountTellsHeld
    <3> QED BY <2>1, <2>2, <2>4, <3>1, <3>2, <3>3
  <2> QED BY <2>7, <2>8, <2>9, <2>10 DEF DescriptorsInv
<1> QED BY <1>1, <1>2 DEF syscall_dupfd

\* execve clones the table and then drops the old one: the counts end as they
\* began, and nothing is closed.
LEMMA ExecveInv ==
  ASSUME DescriptorsInv, NEW p \in Procs, syscall_execve(p)
  PROVE  DescriptorsInv'
<1>1. /\ Release(Cloned(p, count), fds[p], Fd)
      /\ UNCHANGED <<fds, parent, waiting, pipe, bytes, halted>>
  BY DEF syscall_execve
<1>2. \A f \in Files : count[f] \in Nat /\ Cardinality(Refs(fds[p], Fd, f)) \in Nat
  BY RefsFinite DEF DescriptorsInv, TypeOK
<1>3. \A f \in Files : Cloned(p, count)[f] = count[f] + Cardinality(Refs(fds[p], Fd, f))
  BY DEF Cloned, Refs
<1>4. count' = [f \in Files |-> Cloned(p, count)[f] - Cardinality(Refs(fds[p], Fd, f))]
  BY <1>1 DEF Release, Refs
<1>5. \A f \in Files : count'[f] = count[f]
  BY <1>2, <1>3, <1>4
<1>6. Files' = Files /\ Procs' = Procs /\ Pipes' = Pipes
  BY <1>1, <1>4 DEF Files, Procs, Pipes
<1>7. count' = count
  BY <1>4, <1>5 DEF DescriptorsInv, TypeOK
<1>8. peer' = ClosePeers({f \in Files : count[f] > 0 /\ count'[f] = 0})
  BY <1>1 DEF Release
<1>9. PeerUntilClosed' /\ peer' \in [Files -> Files \cup {None}]
  BY <1>1, <1>2, <1>5, <1>6, <1>8, PeersClosed
<1>10. TypeOK'
  BY <1>1, <1>6, <1>7, <1>9 DEF DescriptorsInv, TypeOK
<1>11. NumberedInOrder' /\ CountsHolders'
  BY <1>1, <1>6, <1>7 DEF DescriptorsInv, NumberedInOrder, CountsHolders, Holders
<1> QED BY <1>9, <1>10, <1>11 DEF DescriptorsInv

\* What Extend adds to a function.
LEMMA Extended ==
  ASSUME NEW g, NEW x, NEW v
  PROVE  /\ DOMAIN Extend(g, x, v) = (DOMAIN g) \cup {x}
         /\ Extend(g, x, v)[x] = v
         /\ \A y \in DOMAIN g : y # x => Extend(g, x, v)[y] = g[y]
         /\ \A V : g \in [DOMAIN g -> V] /\ v \in V => Extend(g, x, v) \in [(DOMAIN g) \cup {x} -> V]
BY DEF Extend

\* fork: the child's table is the parent's, and every device gains the references.
LEMMA ForkInv ==
  ASSUME DescriptorsInv, NEW p \in Procs, syscall_fork(p)
  PROVE  DescriptorsInv'
<1>1. PICK q \in Nat : q = Cardinality(DOMAIN parent) + 1 /\ q = NextPid
  BY NextIsFresh DEF NextPid
<1>2. /\ fds' = Extend(fds, q, fds[p]) /\ parent' = Extend(parent, q, p)
      /\ waiting' = Extend(waiting, q, Ready) /\ count' = Cloned(p, count)
      /\ UNCHANGED <<peer, pipe, bytes, halted>> /\ q <= MaxPid
  BY <1>1 DEF syscall_fork
<1>3. DOMAIN parent' = 1..q /\ q \in (1..MaxPid) \ DOMAIN parent
  <2>1. DOMAIN parent' = (DOMAIN parent) \cup {q}
    BY <1>2, Extended
  <2> QED BY <1>1, <1>2, <2>1, NextIsFresh, DescriptorsAssumption
<1>4. /\ Procs' = Procs \cup {q} /\ Files' = Files /\ Pipes' = Pipes
      /\ q \in (1..MaxPid) \ DOMAIN fds /\ DOMAIN fds \subseteq 1..MaxPid
  <2>1. DOMAIN fds' = (DOMAIN fds) \cup {q}
    BY <1>2, Extended
  <2> QED BY <1>2, <1>3, <2>1 DEF Procs, Files, Pipes, Cloned, DescriptorsInv, TypeOK
<1>5. \A f \in Files : count[f] \in Nat /\ Cardinality(Refs(fds[p], Fd, f)) \in Nat
  BY RefsFinite DEF DescriptorsInv, TypeOK
<1>6. \A f \in Files : count'[f] = count[f] + Cardinality(Refs(fds[p], Fd, f))
  BY <1>2 DEF Cloned, Refs
<1>7. count' \in [Files -> Nat]
  BY <1>2, <1>5, <1>6 DEF Cloned
<1>8. TypeOK'
  <2>1. fds' \in [Procs \cup {q} -> [Fd -> Files \cup {None}]]
    BY <1>2, Extended DEF DescriptorsInv, TypeOK, Procs
  <2>2. parent' \in [DOMAIN parent' -> 0..MaxPid]
    <3>1. p \in 0..MaxPid /\ parent \in [DOMAIN parent -> 0..MaxPid]
      BY DEF DescriptorsInv, TypeOK
    <3>2. parent' = [x \in (DOMAIN parent) \cup {q} |-> IF x = q THEN p ELSE parent[x]]
      BY <1>2 DEF Extend
    <3>3. DOMAIN parent' = (DOMAIN parent) \cup {q}
      BY <3>2
    <3> QED BY <3>1, <3>2, <3>3
  <2>3. waiting' \in [Procs \cup {q} -> [kind : {"ready", "read", "child", "zombie"}, fd : Fd]]
    <3>1. Ready \in [kind : {"ready", "read", "child", "zombie"}, fd : Fd]
      BY FdFinite DEF Ready
    <3> QED BY <1>2, <3>1, Extended DEF DescriptorsInv, TypeOK
  <2>4. Procs' \subseteq DOMAIN parent' /\ DOMAIN parent' \subseteq 1..MaxPid
    <3>1. DOMAIN parent' = (DOMAIN parent) \cup {q}
      BY <1>2, Extended
    <3> QED BY <1>3, <1>4, <3>1 DEF DescriptorsInv, TypeOK
  <2> QED BY <1>2, <1>4, <1>7, <2>1, <2>2, <2>3, <2>4 DEF DescriptorsInv, TypeOK
<1>9. NumberedInOrder'
  <2>1. Cardinality(1..q) = q
    BY <1>3, FS_Interval
  <2> QED BY <1>3, <1>4, <2>1, NextIsFresh DEF NumberedInOrder
<1>10. CountsHolders'
  <2> SUFFICES ASSUME NEW f \in Files PROVE count'[f] = Cardinality(HoldersIn(fds', f))
    BY <1>4 DEF CountsHolders, Holders, HoldersIn, Procs
  <2>1. Cardinality(HoldersIn(Extend(fds, q, fds[p]), f))
          = Cardinality(HoldersIn(fds, f)) + Cardinality(Refs(fds[p], Fd, f))
    BY <1>4, AddTable
  <2>2. count[f] = Cardinality(HoldersIn(fds, f))
    BY CountTellsHeld
  <2> QED BY <1>2, <1>6, <2>1, <2>2
<1>11. PeerUntilClosed'
  <2>1. ASSUME NEW f \in Files PROVE count'[f] > 0 <=> count[f] > 0
    <3>1. CASE Refs(fds[p], Fd, f) = {}
      <4>1. Cardinality(Refs(fds[p], Fd, f)) = 0
        BY <3>1, FS_EmptySet
      <4> QED BY <1>5, <1>6, <4>1
    <3>2. CASE Refs(fds[p], Fd, f) # {}
      <4>1. PICK n \in Fd : fds[p][n] = f
        BY <3>2 DEF Refs
      <4>2. count[f] > 0
        BY <4>1, CountTellsHeld DEF Held
      <4> QED BY <1>5, <1>6, <4>2
    <3> QED BY <3>1, <3>2
  <2> QED BY <1>2, <1>4, <2>1, PeersKept
<1> QED BY <1>8, <1>9, <1>10, <1>11 DEF DescriptorsInv

\* wait: the reaped child's whole table is released.
LEMMA ReapInv ==
  ASSUME DescriptorsInv, NEW p \in Procs, NEW child \in Procs, Reap(p, child)
  PROVE  DescriptorsInv'
<1>1. /\ waiting' = [q \in Procs \ {child} |-> IF q = p THEN Ready ELSE waiting[q]]
      /\ fds' = Without(fds, child) /\ Release(count, fds[child], Fd)
      /\ UNCHANGED <<parent, pipe, bytes, halted>>
  BY DEF Reap, Without, Procs
<1>2. count' = [f \in Files |-> count[f] - Cardinality(Refs(fds[child], Fd, f))]
  BY <1>1 DEF Release, Refs
<1>3. Procs' = Procs \ {child} /\ Files' = Files /\ Pipes' = Pipes
  BY <1>1, <1>2 DEF Procs, Files, Pipes, Without
<1>4. \A f \in Files : count[f] \in Nat /\ Cardinality(Refs(fds[child], Fd, f)) \in Nat
  BY RefsFinite DEF DescriptorsInv, TypeOK
<1>5. ASSUME NEW f \in Files
      PROVE  count'[f] = Cardinality(HoldersIn(fds', f)) /\ count'[f] \in Nat
  <2>1. fds = [x \in DOMAIN fds |-> fds[x]] /\ DOMAIN fds \subseteq 1..MaxPid /\ child \in DOMAIN fds
    BY DEF DescriptorsInv, TypeOK, Procs
  <2>2. Cardinality(HoldersIn(Without(fds, child), f))
          = Cardinality(HoldersIn(fds, f)) - Cardinality(Refs(fds[child], Fd, f))
    BY <2>1, DropTable
  <2>3. count[f] = Cardinality(HoldersIn(fds, f))
    BY CountTellsHeld
  <2>4. DOMAIN fds' \subseteq 1..MaxPid
    BY <1>1, <2>1 DEF Without
  <2>5. Cardinality(HoldersIn(fds', f)) \in Nat
    BY <2>4, HoldersFinite
  <2> QED BY <1>1, <1>2, <2>2, <2>3, <2>5
<1>6. \A f \in Files : count'[f] \in Nat /\ count'[f] <= count[f]
  BY <1>2, <1>4, <1>5
<1>7. peer' = ClosePeers({f \in Files : count[f] > 0 /\ count'[f] = 0})
  BY <1>1 DEF Release
<1>8. PeerUntilClosed' /\ peer' \in [Files -> Files \cup {None}]
  BY <1>1, <1>3, <1>6, <1>7, PeersClosed
<1>9. TypeOK'
  <2>1. fds' \in [Procs \ {child} -> [Fd -> Files \cup {None}]]
    BY <1>1 DEF DescriptorsInv, TypeOK, Without, Procs
  <2>2. waiting' \in [Procs \ {child} -> [kind : {"ready", "read", "child", "zombie"}, fd : Fd]]
    BY <1>1, FdFinite DEF DescriptorsInv, TypeOK, Ready
  <2>3. count' \in [Files -> Nat]
    BY <1>2, <1>6
  <2> QED BY <1>1, <1>3, <1>8, <2>1, <2>2, <2>3 DEF DescriptorsInv, TypeOK
<1>10. NumberedInOrder'
  BY <1>1, <1>3 DEF DescriptorsInv, NumberedInOrder
<1>11. CountsHolders'
  BY <1>3, <1>5 DEF CountsHolders, Holders, HoldersIn, Procs
<1> QED BY <1>8, <1>9, <1>10, <1>11 DEF DescriptorsInv

\* A number that is no device yet has no holder.
LEMMA FreshUnheld ==
  ASSUME DescriptorsInv, NEW f \in (1..MaxFiles) \ Files
  PROVE  Cardinality(HoldersIn(fds, f)) = 0
<1>1. DOMAIN fds \subseteq 1..MaxPid
  BY DEF DescriptorsInv, TypeOK, Procs
<1>2. ~\E p \in DOMAIN fds, n \in Fd : fds[p][n] = f
  BY DescriptorsAssumption DEF DescriptorsInv, TypeOK, Procs
<1>3. Cardinality(HoldersIn(fds, f)) \in Nat
  BY <1>1, HoldersFinite
<1> QED BY <1>1, <1>2, <1>3, SomeHolder

\* A file opened is a new device with one reference.
LEMMA OpenInv ==
  ASSUME DescriptorsInv, NEW p \in Procs, syscall_open_file(p)
  PROVE  DescriptorsInv'
<1>1. CASE Panic
  BY <1>1, PanicInv
<1>2. CASE /\ New(1) <= MaxFiles /\ Available(p, 0) # {}
           /\ fds' = [fds EXCEPT ![p][Lowest(Available(p, 0))] = New(1)]
           /\ count' = Extend(count, New(1), 1)
           /\ peer' = Extend(peer, New(1), None)
           /\ bytes' = Extend(bytes, New(1), 0)
           /\ UNCHANGED <<parent, waiting, pipe, halted>>
  <2>1. PICK g \in Nat : g = Cardinality(Files) + 1 /\ g = New(1)
    BY NextIsFresh DEF New
  <2>2. PICK m \in Fd : fds[p][m] = None /\ fds' = Put(fds, p, m, g)
    BY <1>2, <2>1, LowestFree DEF Put
  <2>3. /\ count' = Extend(count, g, 1) /\ peer' = Extend(peer, g, None)
        /\ bytes' = Extend(bytes, g, 0) /\ g <= MaxFiles
    BY <1>2, <2>1
  <2>4. /\ g \in (1..MaxFiles) \ Files /\ Files \cup {g} = 1..g /\ None # g
        /\ \A f \in Files : f # g /\ f # None
    BY <2>1, <2>3, NextIsFresh, DescriptorsAssumption
  <2>5. Procs' = Procs /\ Pipes' = Pipes /\ Files' = Files \cup {g}
    <3>1. DOMAIN fds' = DOMAIN fds
      BY <2>2 DEF Put
    <3>2. DOMAIN count' = (DOMAIN count) \cup {g}
      BY <2>3 DEF Extend
    <3> QED BY <1>2, <3>1, <3>2 DEF Procs, Pipes, Files
  <2>6. count'[g] = 1 /\ \A f \in Files : count'[f] = count[f]
    BY <2>3, <2>4 DEF Files, Extend
  <2>7. peer'[g] = None /\ \A f \in Files : peer'[f] = peer[f]
    <3>1. DOMAIN peer = Files
      BY DEF DescriptorsInv, TypeOK
    <3> QED BY <2>3, <2>4, <3>1 DEF Extend
  <2>8. TypeOK'
    <3>1. fds' \in [Procs -> [Fd -> Files \cup {g, None}]]
      BY <2>2 DEF DescriptorsInv, TypeOK, Put
    <3>2. /\ count \in [Files -> Nat] /\ bytes \in [Files -> Nat]
          /\ peer \in [Files -> Files \cup {g, None}]
      BY DEF DescriptorsInv, TypeOK
    <3>3. /\ count' \in [Files \cup {g} -> Nat] /\ bytes' \in [Files \cup {g} -> Nat]
          /\ peer' \in [Files \cup {g} -> Files \cup {g, None}]
      BY <2>3, <3>2 DEF Extend
    <3>4. Files' \subseteq 1..MaxFiles /\ Pipes \subseteq Files'
      BY <2>4, <2>5 DEF DescriptorsInv, TypeOK
    <3>5. Files \cup {g, None} = Files' \cup {None}
      BY <2>5
    <3> QED BY <1>2, <2>5, <3>1, <3>3, <3>4, <3>5 DEF DescriptorsInv, TypeOK
  <2>9. NumberedInOrder'
    <3>1. Cardinality(1..g) = g
      BY <2>4, FS_Interval
    <3> QED BY <1>2, <2>4, <2>5, <3>1 DEF DescriptorsInv, NumberedInOrder
  <2>10. CountsHolders'
    <3> SUFFICES ASSUME NEW f \in Files \cup {g} PROVE count'[f] = Cardinality(HoldersIn(fds', f))
      BY <2>5 DEF CountsHolders, Holders, HoldersIn, Procs
    <3>1. IsTables(fds) /\ p \in DOMAIN fds /\ None # f
      BY <2>4, TablesTyped DEF Procs
    <3>2. Cardinality(HoldersIn(fds', f))
            = Cardinality(HoldersIn(fds, f)) + (IF g = f THEN 1 ELSE 0)
                                             - (IF fds[p][m] = f THEN 1 ELSE 0)
      BY <2>2, <3>1, SetDescriptor
    <3>3. CASE f = g
      BY <2>2, <2>4, <2>6, <3>1, <3>2, <3>3, FreshUnheld
    <3>4. CASE f \in Files
      <4>1. count[f] = Cardinality(HoldersIn(fds, f)) /\ count[f] \in Nat
        BY <3>4, CountTellsHeld
      <4> QED BY <2>2, <2>4, <2>6, <3>1, <3>2, <3>4, <4>1
    <3> QED BY <3>3, <3>4
  <2>11. PeerUntilClosed'
    <3>1. g \notin Pipes /\ \A f \in Pipes : f \in Files /\ pipe[f] \in Files
      BY <2>4 DEF DescriptorsInv, TypeOK
    <3> QED BY <1>2, <2>4, <2>5, <2>6, <2>7, <3>1 DEF DescriptorsInv, PeerUntilClosed
  <2> QED BY <2>8, <2>9, <2>10, <2>11 DEF DescriptorsInv
<1> QED BY <1>1, <1>2 DEF syscall_open_file

\* Two free descriptors, the first of them the lowest, are two descriptors.
LEMMA TwoFree ==
  ASSUME NEW p, Cardinality(Available(p, 0)) >= 2
  PROVE  LET a == Lowest(Available(p, 0))
             b == Lowest(Available(p, a + 1))
         IN  a \in Fd /\ b \in Fd /\ a # b /\ fds[p][a] = None /\ fds[p][b] = None
<1>1. IsFiniteSet(Available(p, 0)) /\ Cardinality({}) = 0
  BY FdFinite, FS_Subset, FS_EmptySet DEF Available
<1>2. Available(p, 0) # {}
  BY <1>1
<1>3. PICK a \in Fd : /\ a = Lowest(Available(p, 0)) /\ a \in Available(p, 0) /\ fds[p][a] = None
                      /\ \A m \in Available(p, 0) : a <= m
  <2>1. Available(p, 0) \in SUBSET Nat
    BY FdFinite DEF Available
  <2> QED BY <1>2, <2>1, LowestFree, LowestIn
<1>4. Available(p, a + 1) # {}
  <2>1. IsFiniteSet({a}) /\ Cardinality({a}) = 1
    BY FS_Singleton
  <2>2. PICK m \in Available(p, 0) : m # a
    <3>1. SUFFICES ASSUME Available(p, 0) \in SUBSET {a} PROVE FALSE
      OBVIOUS
    <3>2. Cardinality(Available(p, 0)) <= 1
      BY <2>1, <3>1, FS_Subset
    <3>3. Cardinality(Available(p, 0)) \in Nat
      BY <1>1, FS_CardinalityType
    <3> QED BY <3>2, <3>3
  <2>3. m \in Nat /\ a \in Nat /\ a <= m
    BY <1>3, <2>2, FdFinite DEF Available
  <2>4. m \in Available(p, a + 1)
    BY <2>2, <2>3 DEF Available
  <2> QED BY <2>4
<1>5. PICK b \in Fd : /\ b = Lowest(Available(p, a + 1)) /\ b \in Available(p, a + 1)
                      /\ fds[p][b] = None
  BY <1>4, LowestFree
<1>6. a # b
  BY <1>5, FdFinite DEF Available
<1> QED BY <1>3, <1>5, <1>6

\* A pipe is two new devices, each the other's peer, with one reference each.
LEMMA PipeInv ==
  ASSUME DescriptorsInv, NEW p \in Procs, syscall_pipe(p)
  PROVE  DescriptorsInv'
<1> DEFINE low == Lowest(Available(p, 0))
<1> DEFINE second == Lowest(Available(p, low + 1))
<1>1. CASE Panic
  BY <1>1, PanicInv
<1>2. CASE /\ New(2) <= MaxFiles /\ Cardinality(Available(p, 0)) >= 2
           /\ fds' = [fds EXCEPT ![p][low] = New(1), ![p][second] = New(2)]
           /\ count' = Extend(Extend(count, New(1), 1), New(2), 1)
           /\ peer' = Extend(Extend(peer, New(1), New(2)), New(2), New(1))
           /\ bytes' = Extend(Extend(bytes, New(1), 0), New(2), 0)
           /\ pipe' = Extend(Extend(pipe, New(1), New(2)), New(2), New(1))
           /\ UNCHANGED <<parent, waiting, halted>>
  <2>1. PICK g \in Nat, h \in Nat : /\ g = Cardinality(Files) + 1 /\ h = Cardinality(Files) + 2
                                    /\ g = New(1) /\ h = New(2)
    BY NextIsFresh DEF New
  <2>2. PICK a \in Fd, b \in Fd : /\ a = low /\ b = second /\ a # b
                                  /\ fds[p][a] = None /\ fds[p][b] = None
    BY <1>2, TwoFree
  <2>3. fds' = Put(Put(fds, p, a, g), p, b, h)
    BY <1>2, <2>1, <2>2 DEF Put
  <2>4. /\ count' = Extend(Extend(count, g, 1), h, 1) /\ peer' = Extend(Extend(peer, g, h), h, g)
        /\ bytes' = Extend(Extend(bytes, g, 0), h, 0) /\ pipe' = Extend(Extend(pipe, g, h), h, g)
        /\ h <= MaxFiles
    BY <1>2, <2>1
  <2>5. /\ g \in (1..MaxFiles) \ Files /\ h \in (1..MaxFiles) \ Files /\ g # h
        /\ Files \cup {g, h} = 1..h /\ None # g /\ None # h
        /\ \A f \in Files : f # g /\ f # h /\ f # None
    BY <2>1, <2>4, NextIsFresh, DescriptorsAssumption
  <2>6. Procs' = Procs /\ Pipes' = Pipes \cup {g, h} /\ Files' = Files \cup {g, h}
    <3>1. DOMAIN fds' = DOMAIN fds
      BY <2>3 DEF Put
    <3>2. DOMAIN count' = (DOMAIN count) \cup {g, h} /\ DOMAIN pipe' = (DOMAIN pipe) \cup {g, h}
      BY <2>4 DEF Extend
    <3> QED BY <3>1, <3>2 DEF Procs, Pipes, Files
  <2>7. count'[g] = 1 /\ count'[h] = 1 /\ \A f \in Files : count'[f] = count[f]
    BY <2>4, <2>5 DEF Files, Extend
  <2>8. peer'[g] = h /\ peer'[h] = g /\ \A f \in Files : peer'[f] = peer[f]
    <3>1. DOMAIN peer = Files
      BY DEF DescriptorsInv, TypeOK
    <3> QED BY <2>4, <2>5, <3>1 DEF Extend
  <2>9. pipe'[g] = h /\ pipe'[h] = g /\ \A f \in Pipes : pipe'[f] = pipe[f] /\ f # g /\ f # h
    <3>1. DOMAIN pipe = Pipes /\ Pipes \subseteq Files
      BY DEF DescriptorsInv, TypeOK, Pipes
    <3> QED BY <2>4, <2>5, <3>1 DEF Extend
  <2>10. TypeOK'
    <3>1. fds' \in [Procs -> [Fd -> Files \cup {g, h, None}]]
      BY <2>3 DEF DescriptorsInv, TypeOK, Put
    <3>2. /\ count \in [Files -> Nat] /\ bytes \in [Files -> Nat]
          /\ peer \in [Files -> Files \cup {g, h, None}] /\ pipe \in [Pipes -> Pipes \cup {g, h}]
      BY DEF DescriptorsInv, TypeOK
    <3>3. count' \in [Files \cup {g, h} -> Nat] /\ bytes' \in [Files \cup {g, h} -> Nat]
      BY <2>4, <3>2 DEF Extend
    <3>4. peer' \in [Files \cup {g, h} -> Files \cup {g, h, None}]
      BY <2>4, <3>2 DEF Extend
    <3>5. pipe' \in [Pipes \cup {g, h} -> Pipes \cup {g, h}]
      BY <2>4, <3>2 DEF Extend
    <3>6. Files' \subseteq 1..MaxFiles /\ Pipes' \subseteq Files'
      BY <2>5, <2>6 DEF DescriptorsInv, TypeOK
    <3>7. Files \cup {g, h, None} = Files' \cup {None}
      BY <2>6
    <3> QED BY <1>2, <2>6, <3>1, <3>3, <3>4, <3>5, <3>6, <3>7 DEF DescriptorsInv, TypeOK
  <2>11. NumberedInOrder'
    <3>1. Cardinality(1..h) = h
      BY <2>5, FS_Interval
    <3> QED BY <1>2, <2>5, <2>6, <3>1 DEF DescriptorsInv, NumberedInOrder
  <2>12. CountsHolders'
    <3> SUFFICES ASSUME NEW f \in Files \cup {g, h} PROVE count'[f] = Cardinality(HoldersIn(fds', f))
      BY <2>6 DEF CountsHolders, Holders, HoldersIn, Procs
    <3> DEFINE t == Put(fds, p, a, g)
    <3>1. IsTables(fds) /\ p \in DOMAIN fds /\ None # f
      BY <2>5, TablesTyped DEF Procs
    <3>2. IsTables(t) /\ p \in DOMAIN t /\ t[p][b] = None
      BY <2>2, <2>5, <3>1 DEF IsTables, Put
    <3> HIDE DEF t
    <3>3. Cardinality(HoldersIn(Put(t, p, b, h), f))
            = Cardinality(HoldersIn(t, f)) + (IF h = f THEN 1 ELSE 0)
                                           - (IF t[p][b] = f THEN 1 ELSE 0)
      BY <3>2, SetDescriptor
    <3>4. Cardinality(HoldersIn(t, f))
            = Cardinality(HoldersIn(fds, f)) + (IF g = f THEN 1 ELSE 0)
                                             - (IF fds[p][a] = f THEN 1 ELSE 0)
      BY <3>1, SetDescriptor DEF t
    <3>5. Cardinality(HoldersIn(fds', f)) = Cardinality(HoldersIn(Put(t, p, b, h), f))
      BY <2>3 DEF t
    <3>6. CASE f \in {g, h}
      <4>1. Cardinality(HoldersIn(fds, f)) = 0
        BY <2>5, <3>6, FreshUnheld
      <4> QED BY <2>2, <2>5, <2>7, <3>1, <3>2, <3>3, <3>4, <3>5, <3>6, <4>1
    <3>7. CASE f \in Files
      <4>1. count[f] = Cardinality(HoldersIn(fds, f)) /\ count[f] \in Nat
        BY <3>7, CountTellsHeld
      <4> QED BY <2>2, <2>5, <2>7, <3>1, <3>2, <3>3, <3>4, <3>5, <3>7, <4>1
    <3> QED BY <3>6, <3>7
  <2>13. PeerUntilClosed'
    <3>1. \A f \in Pipes : f \in Files /\ pipe[f] \in Pipes /\ pipe[f] \in Files
      BY DEF DescriptorsInv, TypeOK
    <3>2. /\ \A f \in Pipes : pipe[f] # f /\ pipe[pipe[f]] = f
          /\ \A f \in Files : peer[f] = IF f \in Pipes /\ count[pipe[f]] > 0 THEN pipe[f] ELSE None
      BY DEF DescriptorsInv, PeerUntilClosed
    <3>3. \A f \in Pipes \cup {g, h} : pipe'[f] # f /\ pipe'[pipe'[f]] = f
      BY <2>5, <2>9, <3>1, <3>2
    <3>4. \A f \in Files \cup {g, h} :
             peer'[f] = IF f \in Pipes \cup {g, h} /\ count'[pipe'[f]] > 0 THEN pipe'[f] ELSE None
      BY <2>5, <2>7, <2>8, <2>9, <3>1, <3>2
    <3> QED BY <2>6, <3>3, <3>4 DEF PeerUntilClosed
  <2> QED BY <2>10, <2>11, <2>12, <2>13 DEF DescriptorsInv
<1> QED BY <1>1, <1>2 DEF syscall_pipe

-----------------------------------------------------------------------------
(* The theorems.                                                           *)

\* One step, of any kind, keeps the invariant.
LEMMA NextInv == ASSUME DescriptorsInv, [Next]_vars PROVE DescriptorsInv'
<1>1. CASE UNCHANGED vars
  <2>1. TypeOK'
    BY <1>1 DEF vars, DescriptorsInv, TypeOK, Procs, Files, Pipes
  <2> QED BY <1>1, <2>1, TablesKept DEF vars
<1>2. ASSUME NEW p \in Procs,
             \/ syscall_pipe(p) \/ syscall_open_file(p) \/ syscall_fork(p) \/ syscall_execve(p)
             \/ syscall_halt(p) \/ syscall_wait(p) \/ PollRead(p)
      PROVE  DescriptorsInv'
  BY <1>2, PipeInv, OpenInv, ForkInv, ExecveInv, WaitInv, PollReadInv
<1>3. ASSUME NEW p \in Procs, NEW n \in Fd,
             \/ syscall_close_fd(p, n) \/ syscall_read_fd(p, n) \/ syscall_write_fd(p, n)
             \/ \E min \in Fd : syscall_dupfd(p, n, min)
      PROVE  DescriptorsInv'
  BY <1>3, CloseInv, WaitInv, WriteInv, DupInv
<1>4. ASSUME NEW p \in Procs, NEW child \in Procs, Reap(p, child) PROVE DescriptorsInv'
  BY <1>4, ReapInv
<1> QED BY <1>1, <1>2, <1>3, <1>4 DEF Next, Stuck

\* Every reachable state satisfies the invariant.
THEOREM DescriptorsInvariance == Spec => []DescriptorsInv
BY InitInv, NextInv, PTL DEF Spec

\* processes.rs, pipes_and_files.c: whatever processes fork, exec, dup, close, exit
\* and are reaped, in every order, a device's count is the number of descriptors
\* that stand for it, and a pipe end that is held is connected exactly while the
\* other end is held.
THEOREM HoldersCorrect == Spec => []PipesMatchHolders
<1>1. DescriptorsInv => PipesMatchHolders
  <2> SUFFICES ASSUME DescriptorsInv PROVE PipesMatchHolders
    OBVIOUS
  <2>1. CountsHolders
    BY DEF DescriptorsInv
  <2>2. ASSUME NEW f \in Pipes
        PROVE  peer[f] \in {pipe[f], None} /\ (peer[f] # None <=> Held(pipe[f]))
    <3>1. f \in Files /\ pipe[f] \in Files /\ pipe[f] # None
      BY NextIsFresh DEF DescriptorsInv, TypeOK
    <3>2. peer[f] = IF count[pipe[f]] > 0 THEN pipe[f] ELSE None
      BY <3>1 DEF DescriptorsInv, PeerUntilClosed
    <3>3. count[pipe[f]] > 0 <=> Held(pipe[f])
      BY <3>1, CountTellsHeld
    <3> QED BY <3>1, <3>2, <3>3
  <2> QED BY <2>1, <2>2 DEF PipesMatchHolders, PeerWhileHeld
<1> QED BY <1>1, DescriptorsInvariance, PTL

\* Only the poll of a blocked reader can make it ready again.
LEMMA OnlyPollAnswers ==
  ASSUME DescriptorsInv, [Next]_vars, NEW p \in Procs,
         ~halted', waiting[p].kind = "read", waiting'[p] = Ready
  PROVE  PollRead(p)
<1>1. waiting[p] # Ready /\ waiting'[p] # waiting[p] /\ Ready.kind = "ready"
  BY DEF Ready
<1>2. ~Panic
  BY DEF Panic
<1>3. waiting \in [Procs -> [kind : {"ready", "read", "child", "zombie"}, fd : Fd]]
  BY DEF DescriptorsInv, TypeOK
<1>4. ~UNCHANGED waiting
  BY <1>1
<1>5. ASSUME NEW q \in Procs, Running(q), NEW s, waiting' = [waiting EXCEPT ![q] = s] PROVE FALSE
  BY <1>1, <1>3, <1>5 DEF Running
<1>6. ASSUME NEW q \in Procs, syscall_fork(q) PROVE FALSE
  <2>1. p \in DOMAIN parent /\ NextPid \notin DOMAIN parent
    BY NextIsFresh DEF NextPid, DescriptorsInv, TypeOK
  <2>2. waiting' = Extend(waiting, NextPid, Ready) /\ p \in DOMAIN waiting /\ p # NextPid
    BY <1>3, <1>6, <2>1 DEF syscall_fork
  <2> QED BY <1>1, <2>2 DEF Extend
<1>7. ASSUME NEW q \in Procs, NEW child \in Procs, Reap(q, child) PROVE FALSE
  <2>1. p # q /\ p # child
    BY <1>7 DEF Reap
  <2> QED BY <1>1, <1>7, <2>1 DEF Reap
<1>8. ASSUME NEW q \in Procs, PollRead(q) PROVE PollRead(p)
  <2>1. waiting' = [waiting EXCEPT ![q] = Ready]
    BY <1>2, <1>8 DEF PollRead
  <2>2. q = p
    BY <1>1, <1>3, <2>1
  <2> QED BY <1>8, <2>2
<1>9. ASSUME NEW q \in Procs, syscall_halt(q) \/ syscall_wait(q) \/ \E n \in Fd : syscall_read_fd(q, n)
      PROVE  FALSE
  BY <1>5, <1>9 DEF syscall_halt, syscall_wait, syscall_read_fd
<1>10. ASSUME NEW q \in Procs,
              \/ syscall_pipe(q) \/ syscall_open_file(q) \/ syscall_execve(q)
              \/ \E n \in Fd : \/ syscall_close_fd(q, n) \/ syscall_write_fd(q, n)
                               \/ \E min \in Fd : syscall_dupfd(q, n, min)
       PROVE  FALSE
  BY <1>2, <1>4, <1>10 DEF syscall_pipe, syscall_open_file, syscall_execve, syscall_close_fd,
     syscall_write_fd, syscall_dupfd
<1>11. CASE UNCHANGED vars
  BY <1>4, <1>11 DEF vars
<1> QED BY <1>6, <1>7, <1>8, <1>9, <1>10, <1>11 DEF Next, Stuck

\* pipe_read: a reader is told that the pipe has ended only when no descriptor of
\* any process, its own included, stands for the other end.
THEOREM EofCorrect == Spec => EofOnlyWithoutWriters
<1>1. DescriptorsInv /\ [Next]_vars => [EofWithoutWriters]_vars
  <2> SUFFICES ASSUME DescriptorsInv, [Next]_vars, NEW p \in Procs, ~halted',
                      waiting[p].kind = "read", waiting'[p] = Ready,
                      fds[p][waiting[p].fd] \in Pipes, bytes' = bytes
               PROVE  ~Held(pipe[fds[p][waiting[p].fd]])
    BY DEF EofWithoutWriters
  <2>1. PICK f \in Pipes : f = fds[p][waiting[p].fd]
    OBVIOUS
  <2>2. /\ AtEof(f) \/ bytes[f] > 0
        /\ bytes' = IF ~AtEof(f) THEN [bytes EXCEPT ![f] = @ - 1] ELSE bytes
    BY <2>1, OnlyPollAnswers DEF PollRead, Panic
  <2>3. f \in Files /\ pipe[f] \in Files /\ pipe[f] # None /\ bytes[f] \in Nat /\ f \in DOMAIN bytes
    BY NextIsFresh DEF DescriptorsInv, TypeOK
  <2>4. AtEof(f)
    BY <2>2, <2>3
  <2>5. ~(count[pipe[f]] > 0)
    BY <2>3, <2>4 DEF AtEof, DescriptorsInv, PeerUntilClosed
  <2> QED BY <2>1, <2>3, <2>5, CountTellsHeld
<1> QED BY <1>1, DescriptorsInvariance, PTL DEF Spec, EofOnlyWithoutWriters
=============================================================================
