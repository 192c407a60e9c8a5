----------------------------- MODULE ByteStore ------------------------------
(***************************************************************************)
(* What a block device file promises its caller: an array of bytes, a      *)
(* write that replaces exactly what it covers and a read that returns      *)
(* exactly what is there, each at once and one request at a time.          *)
(***************************************************************************)
EXTENDS Integers, Sequences

CONSTANTS Size, Contents, Requests      \* Requests: records op, off, num, buf

VARIABLES image,    \* the bytes, 0 .. Size - 1
          request,  \* the request being served
          answer    \* what the last read returned, until the next request

None == [op |-> "none", off |-> 0, num |-> 0, buf |-> <<>>]

Init == image \in Contents /\ request = None /\ answer = <<>>

Ask == request = None /\ request' \in Requests /\ answer' = <<>> /\ UNCHANGED image

(* A request for a byte beyond the end is never answered. *)
Served == request' = None /\ (request.num = 0 \/ request.off + request.num <= Size)

Write ==
    /\ request.op = "write" /\ Served
    /\ image' = [i \in 0 .. Size - 1 |->
                   IF i \in request.off .. request.off + request.num - 1
                   THEN request.buf[i - request.off + 1] ELSE image[i]]
    /\ UNCHANGED answer

Read ==
    /\ request.op = "read" /\ Served
    /\ answer' = [i \in 1 .. request.num |-> image[request.off + i - 1]]
    /\ UNCHANGED image

Next == Ask \/ Write \/ Read
Spec == Init /\ [][Next]_<<image, request, answer>>
=============================================================================
