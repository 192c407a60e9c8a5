------------------------------- MODULE Virtio -------------------------------
(***************************************************************************)
(* The virtio block driver (virtio_driver.c).  One request at a time, in   *)
(* descriptors 0, 1 and 2 of the queue; the driver polls the status byte   *)
(* of its packet and never looks at the used ring.                         *)
(***************************************************************************)
EXTENDS BlockIO

CONSTANTS
    QueueSize,      \* queue_size, as the device reports it
    IndexSpan       \* the ring indices count modulo this (2^16)
ASSUME QueueAssumption == QueueSize \in Nat \ {0} /\ IndexSpan \in Nat \ {0}
                          /\ IndexSpan % QueueSize = 0

VARIABLES
    vq,             \* the queue: buffers, available ring and index, used index
    packet,         \* the BlockDevicePacket in its page
    serving         \* the device (external): its place in the ring, its request
virtioVars == <<vq, packet, serving>>

PLACEHOLDER_STATUS == 69
FreePacket == [type |-> "none", sector |-> 0, data |-> <<>>, status |-> 0]

(* The chain for a request: header, data, status byte.  The device may     *)
(* write the data of a read and the status.                                *)
Chain(op) ==
    [i \in 0 .. 2 |-> [part  |-> <<"header", "data", "status">>[i + 1],
                       write |-> i = 2 \/ (i = 1 /\ op = "read"),
                       next  |-> IF i = 2 THEN -1 ELSE i + 1]]

(* virtio_block_read and virtio_block_write, up to the notification. *)
virtio_block_call ==
    /\ ~halted /\ blk.st = "call"
    /\ Accept
    /\ packet' = [type |-> blk.op, sector |-> blk.lba, data |-> blk.data,
                  status |-> PLACEHOLDER_STATUS]
    /\ vq' = [vq EXCEPT !.buffers = Chain(blk.op),
                        !.ring[vq.avail % QueueSize] = 0,
                        !.avail = (vq.avail + 1) % IndexSpan,
                        !.notified = TRUE]
    /\ UNCHANGED <<serving, disk, faults, halted>>

(* The poll sees another status; the page is freed. *)
virtio_poll ==
    /\ ~halted /\ blk.st = "busy" /\ packet.status # PLACEHOLDER_STATUS
    /\ IF packet.status = 0 THEN Return(packet.data) /\ UNCHANGED halted
       ELSE halted' = TRUE /\ UNCHANGED blk
    /\ packet' = FreePacket
    /\ UNCHANGED <<vq, serving, disk, faults>>

-----------------------------------------------------------------------------
(* The device (external) takes a chain, does it, and only then enters it   *)
(* in the used ring.                                                       *)
VirtioFetch ==
    /\ serving.st = "idle" /\ vq.notified /\ serving.seen # vq.avail
    /\ serving' = [st |-> "serve", seen |-> (serving.seen + 1) % IndexSpan,
                   head |-> vq.ring[serving.seen % QueueSize]]
    /\ UNCHANGED <<vq, packet, blk, disk, faults, halted>>

VirtioServe ==
    /\ serving.st = "serve"
    /\ LET h == vq.buffers[serving.head]
           d == vq.buffers[h.next]
           s == vq.buffers[d.next]
           legal == h.part = "header" /\ d.part = "data" /\ s.part = "status" /\ s.write
                    /\ d.write = (packet.type = "read")
       IN \E bad \in MayFail :
            LET refused == Refuses(packet.sector, bad) \/ ~legal IN
            /\ faults' = faults + (IF bad THEN 1 ELSE 0)
            /\ packet' = [packet EXCEPT
                            !.data = IF refused \/ packet.type = "write" THEN @
                                     ELSE disk[packet.sector],
                            !.status = IF refused THEN 1 ELSE 0]
            /\ disk' = IF refused \/ packet.type = "read" THEN disk
                       ELSE [disk EXCEPT ![packet.sector] = packet.data]
    /\ serving' = [serving EXCEPT !.st = "finish"]
    /\ UNCHANGED <<vq, blk, halted>>

VirtioUsed ==
    /\ serving.st = "finish"
    /\ vq' = [vq EXCEPT !.used = (vq.used + 1) % IndexSpan]
    /\ serving' = [serving EXCEPT !.st = "idle"]
    /\ UNCHANGED <<packet, blk, disk, faults, halted>>

(* initialise_virtio: the device is reset, acknowledged, and given a zeroed *)
(* queue with interrupts off.                                              *)
initialise_queue ==
    /\ vq = [buffers |-> Chain("read"), ring |-> [i \in 0 .. QueueSize - 1 |-> 0],
             avail |-> 0, used |-> 0, notified |-> FALSE]
    /\ packet = FreePacket
    /\ serving = [st |-> "idle", seen |-> 0, head |-> 0]
=============================================================================
