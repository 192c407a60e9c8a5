----------------------------- MODULE UsbStorage -----------------------------
(***************************************************************************)
(* A USB disk (xhci_msd.c): every command is three bulk transfers, command *)
(* block out, data in or out, status in, each put on a ring and waited for *)
(* in the same stack frame.                                                *)
(***************************************************************************)
EXTENDS Xhci

CONSTANT TagSpan     \* next_free_tag counts modulo this (2^32)
ASSUME TagAssumption == TagSpan \in Nat \ {0}

VARIABLES
    mem,            \* the pages given to the controller: command, response, status
    tag,            \* next_free_tag
    msd,            \* the slot of the disk and its last_lba, -1 until known
    unit            \* the disk itself (external): phase, command, status to send

usbVars == <<mem, tag, msd, unit>>

(* Pages that are not in use. *)
NoCommand == [op |-> "none", lba |-> 0, tag |-> 0]
NoStatus  == [tag |-> 0, status |-> 0]
FreePages == [command |-> NoCommand, response |-> <<>>, status |-> NoStatus]

BulkLabels == {"cbw", "data", "csw"}
IsRead(op) == op # "write"
NormalTrb(b) == [type |-> "normal", ioc |-> TRUE, buf |-> b]

(* The ring and the page each of the three transfers uses. *)
BulkRing(q) == IF q = "csw" \/ (q = "data" /\ IsRead(mem.command.op)) THEN InIndex ELSE OutIndex
BulkPage == [cbw |-> "command", data |-> "response", csw |-> "status"]

(* One of send_bbb's transfers.  Only the first sets the slot's handler;   *)
(* the others reuse the frame, cleared.                                    *)
send_bbb ==
    /\ ~halted /\ ~req.waiting /\ todo # <<>> /\ Head(todo) \in BulkLabels
    /\ LET q == Head(todo) IN
       Send(<<msd.slot, BulkRing(q)>>, <<NormalTrb(BulkPage[q])>>, msd.slot,
            IF q = "cbw" THEN "copy" ELSE slots[msd.slot].handler)
    /\ UNCHANGED <<hw, ehb, irq, changes, stages, todo, cur, port, reports, stale, halted,
                   usbVars, blk, disk, faults>>

(* Fill in the command block and the page to write, and go through the     *)
(* three transfers before whatever comes next.                             *)
Command(op, lba, data) ==
    /\ mem' = [command  |-> [op |-> op, lba |-> lba, tag |-> tag],
               response |-> data,
               status   |-> NoStatus]
    /\ tag' = (tag + 1) % TagSpan
    /\ todo' = <<"cbw", "data", "csw">> \o todo

(* READ CAPACITY, at the end of initialise_msd. *)
read_capacity ==
    /\ ~halted /\ ~req.waiting /\ todo # <<>> /\ Head(todo) = "capacity"
    /\ mem' = [command |-> [op |-> "capacity", lba |-> 0, tag |-> tag],
               response |-> <<>>, status |-> NoStatus]
    /\ tag' = (tag + 1) % TagSpan
    /\ todo' = <<"cbw", "data", "csw">> \o Tail(todo)
    /\ msd' = [slot |-> cur, last |-> -1]
    /\ UNCHANGED <<busVars, slots, req, cur, port, reports, stale, halted,
                   unit, blk, disk, faults>>

(* Mutant: the last sector is refused. *)
MutLbaInRange(lba) == lba < msd.last
LbaInRange(lba) == lba <= msd.last

(* block_read and block_write. *)
block_call ==
    /\ ~halted /\ ~req.waiting /\ blk.st = "call" /\ msd.last >= 0
    /\ Accept
    /\ IF LbaInRange(blk.lba)
       THEN Command(blk.op, blk.lba, blk.data) /\ UNCHANGED halted
       ELSE halted' = TRUE /\ UNCHANGED <<mem, tag, todo>>
    /\ UNCHANGED <<busVars, slots, req, cur, port, reports, stale, msd, unit, disk, faults>>

(* A transfer's event came.  After the last, the status is checked, the    *)
(* pages are freed, the frame returns and the slot has no handler.         *)
BulkDone ==
    /\ ~halted /\ req.waiting /\ req.done /\ Head(todo) \in BulkLabels
    /\ req' = Idle
    /\ todo' = Tail(todo)
    /\ LET q  == Head(todo)
           c  == mem.command
           ok == /\ req.result.type = "transfer" /\ req.result.code = 1
                 /\ q = "csw" => mem.status.tag = c.tag /\ mem.status.status = 0
       IN /\ halted' = ~ok
          /\ IF ok /\ q = "csw"
             THEN /\ slots' = [slots EXCEPT ![msd.slot].handler = "null",
                                            ![msd.slot].data = "dead"]
                  /\ mem' = FreePages
                  /\ IF c.op = "capacity"
                     THEN msd' = [msd EXCEPT !.last = mem.response[1]] /\ UNCHANGED blk
                     ELSE Return(mem.response) /\ UNCHANGED msd
             ELSE UNCHANGED <<slots, msd, blk, mem>>
    /\ UNCHANGED <<busVars, cur, port, reports, stale, tag, unit, disk, faults>>

-----------------------------------------------------------------------------
(* The disk (external): the bulk-only transport's three phases.            *)
CtlBulk(s, e) ==
    /\ slots[s].kind = "disk" /\ e \in slots[s].running /\ Ready(<<s, e>>)
    /\ LET b == Taken(rings[<<s, e>>], hw[<<s, e>>]).buf
           c == unit.command
       IN \/ /\ unit.phase = "command" /\ e = OutIndex
             /\ \E bad \in MayFail :
                  /\ unit' = [phase |-> IF mem[b].op = "write" THEN "out" ELSE "in",
                              command |-> mem[b], refused |-> Refuses(mem[b].lba, bad)]
                  /\ faults' = faults + (IF bad THEN 1 ELSE 0)
             /\ UNCHANGED <<mem, disk>>
          \/ /\ unit.phase = "out" /\ e = OutIndex
             /\ disk' = IF unit.refused THEN disk ELSE [disk EXCEPT ![c.lba] = mem[b]]
             /\ unit' = [unit EXCEPT !.phase = "status"]
             /\ UNCHANGED <<mem, faults>>
          \/ /\ unit.phase = "in" /\ e = InIndex
             /\ mem' = [mem EXCEPT ![b] = IF c.op = "capacity" THEN <<LastLba>>
                                          ELSE IF unit.refused THEN @ ELSE disk[c.lba]]
             /\ unit' = [unit EXCEPT !.phase = "status"]
             /\ UNCHANGED <<disk, faults>>
          \/ /\ unit.phase = "status" /\ e = InIndex
             /\ mem' = [mem EXCEPT ![b] = [tag |-> c.tag,
                                           status |-> IF unit.refused THEN 1 ELSE 0]]
             /\ unit' = [unit EXCEPT !.phase = "command"]
             /\ UNCHANGED <<disk, faults>>
    /\ PostFor(<<s, e>>, [type |-> "transfer", slot |-> s, code |-> 1, ed |-> FALSE])
    /\ Served(<<s, e>>)
    /\ UNCHANGED <<changes, stages, drvVars, halted, tag, msd, blk>>

UsbInit ==
    /\ mem = FreePages
    /\ tag = 0 /\ msd = [slot |-> 0, last |-> -1]
    /\ unit = [phase |-> "command", command |-> NoCommand, refused |-> FALSE]
=============================================================================
