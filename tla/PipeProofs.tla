----------------------------- MODULE PipeProofs -----------------------------
(***************************************************************************)
(* For every bound on sizes: the ends of a pipe never point to freed data, *)
(* the read index stays inside the buffer, and the bytes written, unread   *)
(* and delivered always add up.                                            *)
(***************************************************************************)
EXTENDS Pipe, SequenceTheorems, TLAPS

\* fop_generate_pipe establishes the invariant.
LEMMA InitPipeInv == ASSUME PipeInit PROVE PipeInv
<1>1. <<>> \in Seq(Nat) /\ Len(<<>>) = 0
  BY EmptySeq
<1>2. \A e \in Ends : Other(e) \in Ends
  BY DEF Ends, Other
<1> QED
  <2> USE DEF PipeInit
  <2>1. PipeTypeOK
    <3>1. buffer \in [Ends -> Seq(Nat)] /\ got \in [Ends -> Seq(Nat)]
      BY <1>1
    <3>2. next \in [Ends -> Nat] /\ \A e \in Ends : next[e] <= Len(buffer[e])
      <4>1. \A e \in Ends : next[e] = 0 /\ Len(buffer[e]) = 0
        BY <1>1
      <4> QED BY <4>1
    <3>3. live \in [Ends -> BOOLEAN] /\ other \in [Ends -> BOOLEAN]
      OBVIOUS
    <3>4. written \in [Ends -> Nat] /\ reads \in [Ends -> Nat]
      OBVIOUS
    <3> QED BY <3>1, <3>2, <3>3, <3>4 DEF PipeTypeOK
  <2> QED BY <1>1, <1>2, <2>1 DEF PipeInv, NoDanglingPeer, PeersAgree, UnreadConserved, Unread

\* What a write stores has exactly new_buffer_length bytes.
LEMMA WriteLength ==
  ASSUME PipeTypeOK, NEW e \in Ends, NEW num \in Nat
  PROVE  /\ SubSeq(Copied(e, num), 1, NewLength(e, num)) \in Seq(Nat)
         /\ Len(SubSeq(Copied(e, num), 1, NewLength(e, num))) = num + Unread(e)
         /\ Unread(e) \in Nat
<1>1. buffer[e] \in Seq(Nat) /\ next[e] \in Nat /\ next[e] <= Len(buffer[e]) /\ written[e] \in Nat
  BY DEF PipeTypeOK
<1>2. Stamps(e, num) \in Seq(Nat) /\ Len(Stamps(e, num)) = num
  <2>1. Stamps(e, num) = [i \in 1..num |-> written[e] + i]
    BY DEF Stamps
  <2>2. \A i \in 1..num : written[e] + i \in Nat
    BY <1>1
  <2> QED BY <2>1, <2>2
<1>3. Copied(e, num) \in Seq(Nat) /\ Len(Copied(e, num)) = Len(buffer[e]) + num
  <2> HIDE DEF Stamps
  <2> QED BY <1>1, <1>2, ConcatProperties DEF Copied
<1>4. NewLength(e, num) \in 0..Len(Copied(e, num)) /\ Unread(e) \in Nat
  BY <1>1, <1>3 DEF NewLength, Unread
<1>5. NewLength(e, num) = num + Unread(e)
  BY DEF NewLength
<1> HIDE DEF Copied, NewLength, Unread
<1> QED
  BY <1>3, <1>4, <1>5

\* A write, and the halt of a write to a closed end, keep the invariant.
LEMMA WritePipeInv ==
  ASSUME PipeInv, NEW e \in Ends, NEW num \in 0..MaxNum, pipe_write(e, num)
  PROVE  PipeInv'
<1> USE PipeAssumption DEF PipeInv
<1>1. num \in Nat
  OBVIOUS
<1>2. CASE UNCHANGED <<buffer, next, written>> /\ pipeHalted' = TRUE
  BY <1>2 DEF pipe_write, PipeTypeOK, NoDanglingPeer, PeersAgree, UnreadConserved, Unread
<1>3. CASE other[Other(e)] /\ UNCHANGED pipeHalted
  <2> DEFINE b == SubSeq(Copied(e, num), 1, NewLength(e, num))
  <2>1. b \in Seq(Nat) /\ Len(b) = num + Unread(e) /\ Unread(e) \in Nat
    BY <1>1, WriteLength
  <2> HIDE DEF b
  <2>2. /\ buffer' = [buffer EXCEPT ![e] = b]
        /\ next' = [next EXCEPT ![e] = 0]
        /\ written' = [written EXCEPT ![e] = @ + num]
        /\ UNCHANGED <<live, other, got, reads, pipeHalted>>
    BY <1>3 DEF pipe_write, b, PipeTypeOK
  <2>3. PipeTypeOK'
    BY <2>1, <2>2, <1>1 DEF PipeTypeOK
  <2>4. NoDanglingPeer' /\ PeersAgree'
    BY <2>2 DEF NoDanglingPeer, PeersAgree
  <2>5. UnreadConserved'
    <3> SUFFICES ASSUME NEW d \in Ends
                 PROVE  written'[d] = Len(buffer'[d]) - next'[d] + Len(got[d])
      BY <2>2 DEF UnreadConserved, Unread
    <3>1. written[d] = Len(buffer[d]) - next[d] + Len(got[d])
      BY DEF UnreadConserved, Unread
    <3>2. written[d] \in Nat /\ next[d] \in Nat /\ Len(buffer[d]) \in Nat /\ Len(got[d]) \in Nat
      BY DEF PipeTypeOK
    <3>3. CASE d = e
      <4>1. written'[d] = written[d] + num /\ next'[d] = 0 /\ buffer'[d] = b
        BY <2>2, <3>3 DEF PipeTypeOK
      <4>2. Len(b) = num + (Len(buffer[d]) - next[d])
        BY <2>1, <3>3 DEF Unread
      <4> QED BY <4>1, <4>2, <3>1, <3>2, <1>1
    <3>4. CASE d # e
      BY <2>2, <3>1, <3>4 DEF PipeTypeOK
    <3> QED BY <3>3, <3>4
  <2> QED BY <2>3, <2>4, <2>5
<1> QED BY <1>2, <1>3 DEF pipe_write

\* A read, whether it delivers, is not ready or sees EOF, keeps the invariant.
LEMMA ReadPipeInv ==
  ASSUME PipeInv, NEW e \in Ends, NEW num \in 0..MaxNum, pipe_read(e, num)
  PROVE  PipeInv'
<1> USE PipeAssumption DEF PipeInv
<1>1. CASE UNCHANGED <<next, got, reads>>
  BY <1>1 DEF pipe_read, PipeTypeOK, NoDanglingPeer, PeersAgree, UnreadConserved, Unread
<1>2. CASE ~UNCHANGED <<next, got, reads>>
  <2> DEFINE t == Takes(e, num)
  <2> DEFINE s == SubSeq(buffer[e], 1, t)
  <2>1. /\ buffer[e] \in Seq(Nat) /\ got[e] \in Seq(Nat) /\ next[e] \in Nat /\ reads[e] \in Nat
        /\ next[e] <= Len(buffer[e])
    BY DEF PipeTypeOK
  <2>2. t \in Nat /\ t <= Len(buffer[e]) - next[e]
    <3>1. num \in Nat
      OBVIOUS
    <3> QED BY <2>1, <3>1 DEF Takes, Unread
  <2>3. s \in Seq(Nat) /\ Len(s) = t
    <3> HIDE DEF t
    <3>1. t \in 0..Len(buffer[e])
      BY <2>1, <2>2
    <3> QED BY <2>1, <3>1
  <2>4. /\ got' = [got EXCEPT ![e] = @ \o s]
        /\ next' = [next EXCEPT ![e] = @ + t]
        /\ reads' = [reads EXCEPT ![e] = @ + 1]
        /\ UNCHANGED <<live, other, buffer, written, pipeHalted>>
    BY <1>2 DEF pipe_read
  <2> HIDE DEF s, t
  <2>5. got[e] \o s \in Seq(Nat) /\ Len(got[e] \o s) = Len(got[e]) + t
    BY <2>1, <2>3, ConcatProperties
  <2> DEFINE g == got[e] \o s
  <2>9. g \in Seq(Nat) /\ got' = [got EXCEPT ![e] = g]
    BY <2>4, <2>5
  <2> HIDE DEF g
  <2>6. PipeTypeOK'
    <3>1. got' \in [Ends -> Seq(Nat)]
      BY <2>9 DEF PipeTypeOK
    <3>2. next' \in [Ends -> Nat] /\ \A d \in Ends : next'[d] <= Len(buffer[d])
      <4>1. next[e] + t \in Nat /\ next[e] + t <= Len(buffer[e])
        BY <2>1, <2>2
      <4> QED BY <2>4, <4>1 DEF PipeTypeOK
    <3>3. reads' \in [Ends -> Nat]
      BY <2>1, <2>4 DEF PipeTypeOK
    <3> QED BY <2>4, <3>1, <3>2, <3>3 DEF PipeTypeOK
  <2>7. NoDanglingPeer' /\ PeersAgree'
    BY <2>4 DEF NoDanglingPeer, PeersAgree
  <2>8. UnreadConserved'
    <3> SUFFICES ASSUME NEW d \in Ends
                 PROVE  written[d] = Len(buffer[d]) - next'[d] + Len(got'[d])
      BY <2>4 DEF UnreadConserved, Unread
    <3>1. written[d] = Len(buffer[d]) - next[d] + Len(got[d])
      BY DEF UnreadConserved, Unread
    <3>2. written[d] \in Nat /\ next[d] \in Nat /\ Len(buffer[d]) \in Nat /\ Len(got[d]) \in Nat
      BY DEF PipeTypeOK
    <3>3. CASE d = e
      <4>1. next'[d] = next[d] + t /\ got'[d] = got[e] \o s
        BY <2>4, <3>3 DEF PipeTypeOK
      <4> QED BY <4>1, <2>2, <2>5, <3>1, <3>2, <3>3
    <3>4. CASE d # e
      BY <2>4, <3>1, <3>4 DEF PipeTypeOK
    <3> QED BY <3>3, <3>4
  <2> QED BY <2>6, <2>7, <2>8
<1> QED BY <1>1, <1>2

\* Closing an end keeps the invariant.
LEMMA ClosePipeInv ==
  ASSUME PipeInv, NEW e \in Ends, pipe_close(e)
  PROVE  PipeInv'
<1> USE DEF PipeInv
<1>1. /\ live' = [live EXCEPT ![e] = FALSE]
      /\ other' = IF other[e] THEN [other EXCEPT ![Other(e)] = FALSE] ELSE other
      /\ UNCHANGED <<buffer, next, written, got, reads, pipeHalted>>
  BY DEF pipe_close
<1>2. Other(e) \in Ends /\ Other(e) # e /\ \A d \in Ends : d = e \/ d = Other(e)
  BY DEF Other, Ends
<1>3. \A d \in Ends : Other(d) \in Ends /\ Other(Other(d)) = d
  BY DEF Other, Ends
<1> HIDE DEF Other, Ends
<1>4. live \in [Ends -> BOOLEAN] /\ other \in [Ends -> BOOLEAN]
  BY DEF PipeTypeOK
<1>5. PipeTypeOK'
  BY <1>1, <1>2, <1>4 DEF PipeTypeOK
<1>6. NoDanglingPeer'
  <2> SUFFICES ASSUME NEW d \in Ends, live'[d], other'[d]
               PROVE  live'[Other(d)]
    BY DEF NoDanglingPeer
  <2>1. CASE d = e
    BY <1>1, <1>4, <2>1
  <2>2. CASE d = Other(e)
    <3>1. Other(d) = e /\ live[d] /\ live[e]
      BY <1>1, <1>2, <1>3, <1>4, <2>2 DEF pipe_close
    <3>2. ~other[e]
      BY <1>1, <1>2, <1>4, <2>2
    <3> QED BY <1>3, <2>2, <3>1, <3>2 DEF PeersAgree
  <2> QED BY <1>2, <2>1, <2>2
<1>8. PeersAgree'
  BY <1>1, <1>2, <1>3, <1>4 DEF PeersAgree
<1>7. UnreadConserved'
  BY <1>1 DEF UnreadConserved, Unread
<1> QED BY <1>5, <1>6, <1>7, <1>8

\* Every reachable state satisfies the pipe invariant, whatever the sizes of the
\* reads and writes and the order in which the ends are closed.
THEOREM PipeInvariance == PipeSpec => []PipeInv
<1>1. PipeInv /\ [PipeNext]_pipeVars => PipeInv'
  <2> SUFFICES ASSUME PipeInv, [PipeNext]_pipeVars PROVE PipeInv'
    OBVIOUS
  <2>1. CASE UNCHANGED pipeVars
    BY <2>1 DEF pipeVars, PipeInv, PipeTypeOK, NoDanglingPeer, PeersAgree, UnreadConserved, Unread
  <2>2. CASE PipeNext
    BY <2>1, <2>2, WritePipeInv, ReadPipeInv, ClosePipeInv DEF PipeNext, Done
  <2> QED BY <2>1, <2>2
<1> QED BY <1>1, InitPipeInv, PTL DEF PipeSpec

\* pipe_close never leaves a live end with a pointer to freed PipeSpecialData,
\* and pipe_write and pipe_read lose and invent no byte of the count.
THEOREM PipeCorrect == PipeSpec => []PipeConsistent
<1>1. PipeInv => PipeConsistent
  BY DEF PipeInv, PipeConsistent
<1> QED BY <1>1, PipeInvariance, PTL

\* A write before the first read appends the next stamps to an ordered buffer.
LEMMA WriteInOrder ==
  ASSUME PipeInv, NEW e \in Ends, NEW num \in Nat,
         next[e] = 0, got[e] = <<>>, InOrder(buffer[e])
  PROVE  InOrder(SubSeq(Copied(e, num), 1, NewLength(e, num)))
<1>1. /\ buffer[e] \in Seq(Nat) /\ written[e] \in Nat
      /\ written[e] = Len(buffer[e]) /\ Unread(e) = Len(buffer[e])
  <2>1. buffer[e] \in Seq(Nat) /\ written[e] \in Nat
    BY DEF PipeInv, PipeTypeOK
  <2>2. written[e] = Unread(e) + Len(got[e]) /\ Len(got[e]) = 0
    BY DEF PipeInv, UnreadConserved
  <2> QED BY <2>1, <2>2 DEF Unread
<1> DEFINE w == Stamps(e, num)
           n == Len(buffer[e])
<1>2. w \in Seq(Nat) /\ Len(w) = num /\ \A i \in 1..num : w[i] = n + i
  <2>1. w = [i \in 1..num |-> written[e] + i]
    BY DEF Stamps
  <2>2. \A i \in 1..num : written[e] + i \in Nat
    BY <1>1
  <2> QED BY <2>1, <2>2, <1>1
<1> HIDE DEF w
<1>3. /\ n \in Nat /\ Copied(e, num) = buffer[e] \o w
      /\ buffer[e] \o w \in Seq(Nat)
      /\ Len(buffer[e] \o w) = n + num
      /\ \A i \in 1..(n + num) :
            (buffer[e] \o w)[i] = IF i <= n THEN buffer[e][i] ELSE w[i - n]
  <2>1. Copied(e, num) = buffer[e] \o w
    BY DEF Copied, w
  <2> DEFINE b == buffer[e]
  <2>2. b \in Seq(Nat) /\ w \in Seq(Nat)
    BY <1>1, <1>2
  <2> HIDE DEF b
  <2>3. b \o w \in Seq(Nat) /\ Len(b \o w) = Len(b) + Len(w)
    BY <2>2, ConcatProperties
  <2>4. \A i \in 1..(Len(b) + Len(w)) :
            (b \o w)[i] = IF i <= Len(b) THEN b[i] ELSE w[i - Len(b)]
    BY <2>2, ConcatProperties
  <2> QED BY <1>1, <1>2, <2>1, <2>3, <2>4 DEF b
<1> DEFINE c == buffer[e] \o w
<1>4. \A i \in 1..(n + num) : c[i] = i
  <2> SUFFICES ASSUME NEW i \in 1..(n + num) PROVE c[i] = i
    OBVIOUS
  <2>1. CASE i <= n
    <3>1. i \in 1..n
      BY <1>3, <2>1
    <3> QED BY <2>1, <3>1, <1>3 DEF InOrder
  <2>2. CASE ~(i <= n)
    <3>1. i - n \in 1..num /\ n + (i - n) = i
      BY <1>3, <2>2
    <3> QED BY <2>2, <3>1, <1>2, <1>3
  <2> QED BY <2>1, <2>2
<1>5. NewLength(e, num) = n + num
  BY <1>1, <1>3 DEF NewLength
<1> HIDE DEF c, n
<1>6. c \in Seq(Nat) /\ Len(c) = n + num /\ n \in Nat
  BY <1>3 DEF c, n
<1>7. /\ Len(SubSeq(c, 1, n + num)) = n + num
      /\ \A i \in 1..(n + num) : SubSeq(c, 1, n + num)[i] = c[i]
  BY <1>6
<1> QED
  <2>1. SubSeq(Copied(e, num), 1, NewLength(e, num)) = SubSeq(c, 1, n + num)
    BY <1>3, <1>5 DEF c
  <2> QED BY <1>4, <1>7, <2>1 DEF InOrder

\* fop_generate_pipe: nothing written, nothing read.
LEMMA InitOrder == ASSUME PipeInit PROVE OrderUntilRead
<1>1. \A e \in Ends : next[e] = 0 /\ got[e] = <<>> /\ buffer[e] = <<>>
  BY DEF PipeInit
<1>2. InOrder(<<>>)
  BY EmptySeq DEF InOrder
<1> QED BY <1>1, <1>2 DEF OrderUntilRead

\* A write keeps the order of what is not yet read.
LEMMA WriteOrder ==
  ASSUME PipeInv, OrderUntilRead, NEW e \in Ends, NEW num \in 0..MaxNum, pipe_write(e, num)
  PROVE  OrderUntilRead'
<1>1. num \in Nat
  BY PipeAssumption
<1>2. UNCHANGED <<got, reads>>
  BY DEF pipe_write
<1>3. CASE UNCHANGED <<buffer, next>>
  BY <1>2, <1>3 DEF OrderUntilRead, InOrder
<1>4. CASE other[Other(e)] /\ UNCHANGED pipeHalted
  <2> DEFINE b == SubSeq(Copied(e, num), 1, NewLength(e, num))
  <2>1. buffer' = [buffer EXCEPT ![e] = b] /\ next' = [next EXCEPT ![e] = 0]
    BY <1>4 DEF pipe_write
  <2>2. reads[e] = 0 => InOrder(b)
    BY <1>1, WriteInOrder DEF OrderUntilRead
  <2> HIDE DEF b
  <2>3. buffer \in [Ends -> Seq(Nat)] /\ next \in [Ends -> Nat]
    BY DEF PipeInv, PipeTypeOK
  <2> SUFFICES ASSUME NEW d \in Ends
               PROVE  /\ reads[d] = 0 => next'[d] = 0 /\ got[d] = <<>> /\ InOrder(buffer'[d])
                      /\ reads[d] <= 1 => InOrder(got[d])
    BY <1>2 DEF OrderUntilRead, InOrder
  <2>4. CASE d = e
    <3>1. next'[d] = 0 /\ buffer'[d] = b
      BY <2>1, <2>3, <2>4
    <3> QED BY <2>2, <2>4, <3>1 DEF OrderUntilRead
  <2>5. CASE d # e
    <3>1. next'[d] = next[d] /\ buffer'[d] = buffer[d]
      BY <2>1, <2>3, <2>5
    <3> QED BY <3>1 DEF OrderUntilRead
  <2> QED BY <2>4, <2>5
<1> QED BY <1>3, <1>4 DEF pipe_write

\* The first read of an end delivers a prefix of an ordered buffer; of later
\* reads nothing is claimed.
LEMMA ReadOrder ==
  ASSUME PipeInv, OrderUntilRead, NEW e \in Ends, NEW num \in 0..MaxNum, pipe_read(e, num)
  PROVE  OrderUntilRead'
<1>1. UNCHANGED buffer
  BY DEF pipe_read
<1>2. CASE UNCHANGED <<next, got, reads>>
  BY <1>1, <1>2 DEF OrderUntilRead, InOrder
<1>3. CASE ~UNCHANGED <<next, got, reads>>
  <2> DEFINE t == Takes(e, num)
             s == SubSeq(buffer[e], 1, t)
  <2>1. /\ got' = [got EXCEPT ![e] = got[e] \o s]
        /\ next' = [next EXCEPT ![e] = next[e] + t]
        /\ reads' = [reads EXCEPT ![e] = reads[e] + 1]
    BY <1>3 DEF pipe_read
  <2>2. /\ buffer[e] \in Seq(Nat) /\ next[e] \in Nat /\ next[e] <= Len(buffer[e])
        /\ reads \in [Ends -> Nat] /\ got \in [Ends -> Seq(Nat)] /\ next \in [Ends -> Nat]
    BY DEF PipeInv, PipeTypeOK
  <2>3. t \in 0..Len(buffer[e])
    <3>1. num \in Nat
      BY PipeAssumption
    <3> QED BY <2>2, <3>1 DEF Takes, Unread
  <2> HIDE DEF t
  <2>4. s \in Seq(Nat) /\ Len(s) = t /\ \A i \in 1..t : s[i] = buffer[e][i]
    BY <2>2, <2>3
  <2>5. InOrder(buffer[e]) => InOrder(s)
    BY <2>2, <2>3, <2>4 DEF InOrder
  <2> HIDE DEF s
  <2> SUFFICES ASSUME NEW d \in Ends
               PROVE  /\ reads'[d] = 0 => next'[d] = 0 /\ got'[d] = <<>> /\ InOrder(buffer[d])
                      /\ reads'[d] <= 1 => InOrder(got'[d])
    BY <1>1 DEF OrderUntilRead, InOrder
  <2>6. CASE d # e
    <3>1. next'[d] = next[d] /\ got'[d] = got[d] /\ reads'[d] = reads[d]
      BY <2>1, <2>2, <2>6
    <3> QED BY <3>1 DEF OrderUntilRead
  <2>7. CASE d = e
    <3>1. reads'[d] = reads[e] + 1 /\ reads[e] \in Nat /\ got'[d] = got[e] \o s
      BY <2>1, <2>2, <2>7
    <3>2. reads'[d] # 0
      BY <3>1
    <3>3. ASSUME reads'[d] <= 1 PROVE InOrder(got'[d])
      <4>1. reads[e] = 0
        BY <3>1, <3>3
      <4>2. got[e] = <<>> /\ InOrder(buffer[e])
        BY <4>1 DEF OrderUntilRead
      <4>3. <<>> \o s = s
        BY <2>4, ConcatEmptySeq
      <4> QED BY <2>5, <3>1, <4>2, <4>3
    <3> QED BY <3>2, <3>3
  <2> QED BY <2>6, <2>7
<1> QED BY <1>2, <1>3

\* pipe_write and pipe_read: until an end is read a second time, its reader got
\* the first bytes written, in order, through any number of writes of any size
\* and whatever happens at the other end.
THEOREM FirstReadCorrect == PipeSpec => []FirstReadInOrder
<1>1. PipeInv /\ OrderUntilRead /\ [PipeNext]_pipeVars => OrderUntilRead'
  <2> SUFFICES ASSUME PipeInv, OrderUntilRead, [PipeNext]_pipeVars PROVE OrderUntilRead'
    OBVIOUS
  <2>1. CASE UNCHANGED pipeVars
    BY <2>1 DEF pipeVars, OrderUntilRead, InOrder
  <2>2. ASSUME NEW e \in Ends, pipe_close(e) PROVE OrderUntilRead'
    BY <2>2 DEF pipe_close, OrderUntilRead, InOrder
  <2>3. CASE PipeNext
    BY <2>1, <2>2, <2>3, WriteOrder, ReadOrder DEF PipeNext, Done
  <2> QED BY <2>1, <2>3
<1>2. OrderUntilRead => FirstReadInOrder
  BY DEF OrderUntilRead, FirstReadInOrder
<1> QED BY <1>1, <1>2, InitOrder, PipeInvariance, PTL DEF PipeSpec
=============================================================================
