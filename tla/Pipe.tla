-------------------------------- MODULE Pipe --------------------------------
(***************************************************************************)
(* One pipe: stuos/src/pipes_and_files.c, fop_generate_pipe, pipe_write,   *)
(* pipe_read and pipe_close.  A pipe is two ends, each with the buffer it  *)
(* reads from; writing to an end appends to the other end's buffer.        *)
(*                                                                         *)
(* The k-th byte written towards an end has the value k, so what a reader  *)
(* got tells which bytes were lost, repeated or reordered.                 *)
(***************************************************************************)
EXTENDS Integers, Sequences

CONSTANTS
    MaxWritten,    \* bound on the bytes written towards each end
    MaxNum         \* largest byte count a read or a write asks for

ASSUME PipeAssumption == MaxWritten \in Nat /\ MaxNum \in Nat

VARIABLES
    live,          \* live[e]: the PipeSpecialData of end e is allocated
    other,         \* other[e]: other_pipe_data of end e is not NULL
    buffer,        \* buffer[e]: the buffer end e reads from
    next,          \* next[e]: reader_next_byte
    written,       \* history: bytes written towards e
    got,           \* history: bytes delivered to the readers of e
    reads,         \* history: reads of e that delivered bytes
    pipeHalted     \* HCF

pipeVars == <<live, other, buffer, next, written, got, reads, pipeHalted>>

Ends == {0, 1}

Other(e) == 1 - e

\* fop_generate_pipe.
PipeInit ==
    /\ live = [e \in Ends |-> TRUE]
    /\ other = [e \in Ends |-> TRUE]
    /\ buffer = [e \in Ends |-> <<>>]
    /\ next = [e \in Ends |-> 0]
    /\ written = [e \in Ends |-> 0]
    /\ got = [e \in Ends |-> <<>>]
    /\ reads = [e \in Ends |-> 0]
    /\ pipeHalted = FALSE

Unread(e) == Len(buffer[e]) - next[e]

Stamps(e, num) == [i \in 1..num |-> written[e] + i]

\* new_buffer_length: room for what is unread and for the new bytes.
NewLength(e, num) == num + Unread(e)

MutPrepends(e, num) == Stamps(e, num) \o buffer[e]

\* The two memcpys: the whole old buffer, then the new bytes behind it.
Copied(e, num) == buffer[e] \o Stamps(e, num)

\* A write through end 1-e.  What does not fit is stored outside new_buffer.
pipe_write(e, num) ==
    /\ ~pipeHalted /\ live[Other(e)]
    /\ written[e] + num <= MaxWritten
    /\ \/ /\ ~other[Other(e)]
          /\ pipeHalted' = TRUE
          /\ UNCHANGED <<buffer, next, written>>
       \/ /\ other[Other(e)]
          /\ buffer' = [buffer EXCEPT ![e] =
                            SubSeq(Copied(e, num), 1, NewLength(e, num))]
          /\ next' = [next EXCEPT ![e] = 0]
          /\ written' = [written EXCEPT ![e] = @ + num]
          /\ UNCHANGED pipeHalted
    /\ UNCHANGED <<live, other, got, reads>>

\* max_bytes_to_read.
Takes(e, num) == IF num < Unread(e) THEN num ELSE Unread(e)

\* A poll of a read of end e: EOF (0 bytes) if the other end is closed or
\* nothing was asked for, not ready while nothing is unread, else bytes from
\* the start of the buffer.
pipe_read(e, num) ==
    /\ ~pipeHalted /\ live[e]
    /\ \/ /\ ~other[e] \/ num = 0 \/ Takes(e, num) = 0
          /\ UNCHANGED <<next, got, reads>>
       \/ /\ other[e] /\ num # 0 /\ Takes(e, num) # 0
          /\ got' = [got EXCEPT ![e] = @ \o SubSeq(buffer[e], 1, Takes(e, num))]
          /\ next' = [next EXCEPT ![e] = @ + Takes(e, num)]
          /\ reads' = [reads EXCEPT ![e] = @ + 1]
    /\ UNCHANGED <<live, other, buffer, written, pipeHalted>>

MutKeepsPointer(e) ==
    /\ ~pipeHalted /\ live[e]
    /\ live' = [live EXCEPT ![e] = FALSE]
    /\ UNCHANGED <<other, buffer, next, written, got, reads, pipeHalted>>

\* The other end can no longer reach the freed data.
pipe_close(e) ==
    /\ ~pipeHalted /\ live[e]
    /\ live' = [live EXCEPT ![e] = FALSE]
    /\ other' = IF other[e] THEN [other EXCEPT ![Other(e)] = FALSE] ELSE other
    /\ UNCHANGED <<buffer, next, written, got, reads, pipeHalted>>

\* Nothing happens any more: both ends are freed, or the kernel halted.
Done == (pipeHalted \/ \A e \in Ends : ~live[e]) /\ UNCHANGED pipeVars

PipeNext ==
    \/ \E e \in Ends, num \in 0..MaxNum : pipe_write(e, num) \/ pipe_read(e, num)
    \/ \E e \in Ends : pipe_close(e)
    \/ Done

PipeSpec == PipeInit /\ [][PipeNext]_pipeVars

-----------------------------------------------------------------------------
\* next[e] never runs past the buffer.
PipeTypeOK ==
    /\ live \in [Ends -> BOOLEAN] /\ other \in [Ends -> BOOLEAN]
    /\ buffer \in [Ends -> Seq(Nat)] /\ got \in [Ends -> Seq(Nat)]
    /\ next \in [Ends -> Nat] /\ \A e \in Ends : next[e] <= Len(buffer[e])
    /\ written \in [Ends -> Nat] /\ reads \in [Ends -> Nat]
    /\ pipeHalted \in BOOLEAN

\* A live end only points to a live end: neither read nor write nor a second
\* close ever touches freed data, in whatever order the ends are closed.
NoDanglingPeer == \A e \in Ends : live[e] /\ other[e] => live[Other(e)]

\* No byte is counted twice or forgotten: the length bookkeeping of writes and
\* partial reads adds up, whatever the buffer holds.
UnreadConserved == \A e \in Ends : written[e] = Unread(e) + Len(got[e])

\* pipes_and_files.c: through reads, writes and closes of both ends in every
\* order, the pointers and the lengths of a pipe stay right.
PipeConsistent == NoDanglingPeer /\ UnreadConserved

InOrder(s) == \A i \in 1..Len(s) : s[i] = i

\* Until an end is read a second time, its reader got the first bytes written,
\* in order, however many writes delivered them (the case pipe_test covers).
FirstReadInOrder == \A e \in Ends : reads[e] <= 1 => InOrder(got[e])

\* "Test 1 Read: Read data must match written data." (ports/fuzzing/
\* pipe_test.c), for every read and not only the first one.
ReadsMatchWrites == \A e \in Ends : InOrder(got[e])

\* While both ends are live they know each other, so that a close always
\* reaches the pointer it has to clear.
PeersAgree == \A e \in Ends : live[e] /\ live[Other(e)] => other[e]

\* What FirstReadInOrder rests on: until the first read of an end its buffer is
\* exactly what was written, and nothing of it has been consumed.
OrderUntilRead ==
    \A e \in Ends :
        /\ reads[e] = 0 => next[e] = 0 /\ got[e] = <<>> /\ InOrder(buffer[e])
        /\ reads[e] <= 1 => InOrder(got[e])

\* The inductive invariant of the proofs: NoDanglingPeer alone is not kept by
\* pipe_close, which clears the peer's pointer only if it knows the peer.
PipeInv ==
    /\ PipeTypeOK /\ NoDanglingPeer /\ PeersAgree /\ UnreadConserved
=============================================================================
