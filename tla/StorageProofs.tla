--------------------------- MODULE StorageProofs ----------------------------
(***************************************************************************)
(* For every ring length, set of slots and ports, disk size, partition     *)
(* table and series of file operations: completions reach only a frame     *)
(* that waits, the kernel stops only for a cause, the sector cache agrees  *)
(* with the medium, and a device file is an array of bytes.                *)
(***************************************************************************)
EXTENDS Storage, SequenceTheorems, WellFoundedInduction, TLAPS

-----------------------------------------------------------------------------
(* A ring the driver fills, seen from both ends: r is the ring in memory    *)
(* with the driver's position, p the position of the controller.           *)

\* The TRBs before the link, and the controller's position past the link.
Cells == Count - 1
Place(p) == IF p.idx = Cells THEN [idx |-> 0, cycle |-> Toggle(p.cycle)] ELSE p

RingType(r) ==
    /\ DOMAIN r = {"trb", "bit", "idx", "cycle"} /\ DOMAIN r.trb = 0 .. Count - 1
    /\ r.bit \in [0 .. Count - 1 -> {0, 1}]
    /\ r.idx \in 0 .. Count - 1 /\ r.cycle \in {0, 1}
PosType(p) == p = [idx |-> p.idx, cycle |-> p.cycle] /\ p.idx \in 0 .. Count - 1 /\ p.cycle \in {0, 1}

\* The TRBs written since the driver last came round carry its cycle bit,
\* the older ones the other; the controller is at most one round behind.
RingOK(r, p) ==
    /\ RingType(r) /\ r.idx < Cells /\ PosType(p)
    /\ r.trb[Cells].type = "link" /\ r.bit[Cells] = Toggle(r.cycle)
    /\ \A i \in 0 .. Cells - 1 : r.trb[i].type # "link"
    /\ \A i \in 0 .. Cells - 1 : r.bit[i] = IF i < r.idx THEN r.cycle ELSE Toggle(r.cycle)
    /\ p.idx = Cells => r.cycle = Toggle(p.cycle)
    /\ IF Place(p).cycle = r.cycle THEN Place(p).idx <= r.idx ELSE r.idx <= Place(p).idx

\* How many TRBs wait for the controller, and the j-th of them.
Load(r, p) == IF Place(p).cycle = r.cycle THEN r.idx - Place(p).idx ELSE r.idx + Cells - Place(p).idx
Cell(p, j) == IF Place(p).idx + j - 1 < Cells THEN Place(p).idx + j - 1 ELSE Place(p).idx + j - 1 - Cells
Item(r, p, j) == r.trb[Cell(p, j)]

\* The event ring: the controller writes at p, the driver reads at r.idx.
EventOK(r, p) ==
    /\ RingType(r) /\ PosType(p)
    /\ \A i \in 0 .. Count - 1 : r.bit[i] = IF i < p.idx THEN p.cycle ELSE Toggle(p.cycle)
    /\ IF p.cycle = r.cycle THEN r.idx <= p.idx ELSE p.idx < r.idx
EventLoad(r, p) == IF p.cycle = r.cycle THEN p.idx - r.idx ELSE p.idx + Count - r.idx
EventItem(r, j) == r.trb[IF r.idx + j - 1 < Count THEN r.idx + j - 1 ELSE r.idx + j - 1 - Count]

-----------------------------------------------------------------------------
(* The USB side of the stack: what holds of rings, slots and the request    *)
(* being waited for.                                                       *)

\* What waits on each ring the driver fills, and the events it has not taken.
Queued(r, p) == [j \in 1 .. Load(r, p) |-> Item(r, p, j)]
Queue == [n \in DOMAIN rings \ {EventRing} |-> Queued(rings[n], hw[n])]
Posted(r, p) == [j \in 1 .. EventLoad(r, p) |-> EventItem(r, j)]
Evs == Posted(rings[EventRing], hw[EventRing])

\* Slots whose events go to the keyboard driver.
Armed == {s \in Slots : slots[s].handler = "packet_recv"}

\* The request at the head of the list: its slot, its ring and its TRBs.
Kind == Plugged[port]
Now == Head(todo)
Target == IF Now \in BulkLabels THEN msd.slot ELSE cur
RingOf(q) == IF q \in CommandLabels THEN CmdRing
             ELSE IF q \in ControlLabels THEN <<cur, 0>> ELSE <<msd.slot, BulkRing(q)>>
TrbsOf(q) == IF q \in CommandLabels THEN <<CommandTrb(q)>>
             ELSE IF q \in ControlLabels THEN make_request(q) ELSE <<NormalTrb(BulkPage[q])>>
ReqRing == RingOf(Now)
ReqTrbs == TrbsOf(Now)
Answered == Queue[ReqRing] = <<>>

\* What the set-up asks for, in order; k is what is plugged in.
CurLabels == (CommandLabels \ {"enable_slot"}) \cup ControlLabels \cup {"capacity", "arm_keyboard"}
Labels == CommandLabels \cup ControlLabels \cup BulkLabels \cup {"capacity", "register", "arm_keyboard"}
Following(k) ==
    [q \in Labels |->
       CASE q = "enable_slot" -> "address_blocked" [] q = "address_blocked" -> "address"
         [] q = "address" -> "descriptor_head" [] q = "descriptor_head" -> "evaluate"
         [] q = "evaluate" -> "descriptor" [] q = "descriptor" -> "config_head"
         [] q = "config_head" -> "config"
         [] q = "config" -> IF k = "disk" THEN "configure" ELSE "set_configuration"
         [] q = "configure" -> IF k = "disk" THEN "set_configuration" ELSE "arm_keyboard"
         [] q = "set_configuration" -> IF k = "disk" THEN "max_lun" ELSE "set_idle"
         [] q = "set_idle" -> "set_protocol" [] q = "set_protocol" -> "configure"
         [] q = "max_lun" -> "capacity" [] q = "capacity" -> "register"
         [] q = "cbw" -> "data" [] q = "data" -> "csw"
         [] OTHER -> "register"]
Final == {"config", "register", "arm_keyboard", "csw"}
Follows(k, a, b) == a \notin {"config", "register", "arm_keyboard"} /\ b = Following(k)[a]
Linked(t, k) ==
    /\ t \in Seq(Labels)
    /\ t # <<>> => t[Len(t)] \in Final
    /\ \A i \in 1 .. Len(t) - 1 : Follows(k, t[i], t[i + 1])

\* How far a slot has come: enabled, default, addressed, with the class
\* driver's endpoints, configured.
Ends(k) == IF k = "disk" THEN {0, InIndex, OutIndex} ELSE {0, InIndex}
Stage(s, g, k) ==
    /\ g = 1 => s.state = "enabled" /\ s.running = {} /\ s.eps = {0} /\ s.entries = 1
    /\ g = 2 => s.state = "default" /\ s.running = {0} /\ s.eps = {0} /\ s.entries = 1
    /\ g = 3 => s.state = "addressed" /\ s.running = {0} /\ s.eps = {0} /\ s.entries = 1
    /\ g = 4 => s.state = "addressed" /\ s.running = {0} /\ s.eps = Ends(k)
                /\ \A e \in Ends(k) : e < s.entries
    /\ g = 5 => s.state = "configured" /\ s.running = Ends(k) /\ s.eps = Ends(k)
\* The stage at which a request is made, and the one the controller leaves.
Rank(q, k) == CASE q = "address_blocked" -> 1 [] q = "address" -> 2 [] q = "configure" -> 4
                [] q \in {"max_lun", "capacity", "arm_keyboard"} -> 5
                [] q = "set_configuration" /\ k = "disk" -> 5
                [] OTHER -> 3
Reached(q, k) == CASE q = "address_blocked" -> 2 [] q = "configure" -> 5
                   [] q \in {"address", "evaluate"} -> 3 [] OTHER -> Rank(q, k)

SlotType == [handler : {"to_slot_0", "copy", "packet_recv", "null"},
             data : {"null", "frame", "dead", "keyboard"},
             state : {"off", "enabled", "default", "addressed", "configured"},
             kind : {"disk", "keyboard", "none"},
             running : SUBSET (0 .. 30), eps : SUBSET (0 .. 30), entries : 0 .. 31]
EventType == [type : {"none", "port", "command", "transfer"}, slot : Slots \cup {0}, code : Nat, ed : BOOLEAN]

BusOK ==
    /\ rings = [n \in DOMAIN rings |-> rings[n]] /\ hw = [n \in DOMAIN rings |-> hw[n]]
    /\ EventRing \in DOMAIN rings
    /\ \A n \in DOMAIN rings \ {EventRing} : RingOK(rings[n], hw[n])
    /\ EventOK(rings[EventRing], hw[EventRing])

RingsOK ==
    /\ CmdRing \in DOMAIN Queue
    /\ \A s \in Slots : \A e \in slots[s].eps : <<s, e>> \in DOMAIN Queue

SlotsOK ==
    /\ slots \in [Slots \cup {0} -> SlotType]
    /\ slots[0].handler = "to_slot_0" /\ slots[0].data \in {"null", "frame"}
    /\ \A s \in Slots : slots[s].state = "off" => slots[s] = FreshSlot
    /\ \A s \in Armed : slots[s].kind = "keyboard" /\ InIndex \in slots[s].eps
                        /\ slots[s].state = "configured"

\* Where the driver is in its script, and the slot it is setting up.
ScriptOK ==
    /\ Linked(todo, Kind)
    /\ todo # <<>> /\ Now \in CurLabels \cup {"enable_slot"} =>
         port \in Ports /\ Kind \in {"disk", "keyboard"}
    /\ todo # <<>> /\ Now \in CurLabels =>
         /\ cur \in Slots /\ slots[cur].kind = Kind
         /\ slots[cur].handler \in {"to_slot_0", "copy"}
         /\ Stage(slots[cur], IF req.waiting /\ Answered THEN Reached(Now, Kind) ELSE Rank(Now, Kind), Kind)
         /\ Now \in {"max_lun", "capacity"} => Kind = "disk"
         /\ Now \in {"set_idle", "set_protocol", "arm_keyboard"} => Kind = "keyboard"

DiskOK ==
    /\ msd = [slot |-> msd.slot, last |-> msd.last] /\ msd.slot \in Slots \cup {0}
    /\ msd.slot # 0 => Stage(slots[msd.slot], 5, "disk") /\ slots[msd.slot].kind = "disk"
    /\ (todo # <<>> /\ Now \in BulkLabels) \/ msd.last # -1 => msd.slot # 0
    /\ todo # <<>> /\ Now \in {"data", "csw"} => slots[msd.slot].handler = "copy"

\* The events that answer the request: enabling a slot may give any that
\* has just been enabled.
Enabled == {s \in Slots : slots[s] = [FreshSlot EXCEPT !.state = "enabled"]}
Replies == {[type |-> IF Now \in CommandLabels THEN "command" ELSE "transfer", slot |-> s, code |-> 1,
             ed |-> Now \in ControlLabels] : s \in IF Now = "enable_slot" THEN Enabled ELSE {Target}}

\* The last TRBs of a request, and the stages of a control transfer taken
\* when they are left.
Rest(m, left) == [j \in 1 .. left |-> m[Len(m) - left + j]]
StagesOf(m, left) == [i \in 1 .. (IF left = 0 THEN 0 ELSE Len(m) - left) |-> m[i].type]

RequestOK ==
    /\ req \in [waiting : BOOLEAN, done : BOOLEAN, result : EventType]
    /\ ~req.waiting => req = Idle
    /\ req.waiting =>
         /\ todo # <<>> /\ Now \in CommandLabels \cup ControlLabels \cup BulkLabels
         /\ IF Now = "enable_slot" THEN slots[0].data = "frame"
            ELSE slots[Target].handler = "copy" /\ slots[Target].data = "frame"
         /\ Len(Queue[ReqRing]) <= Len(ReqTrbs) /\ Queue[ReqRing] = Rest(ReqTrbs, Len(Queue[ReqRing]))
    /\ req.done => Answered /\ req.result \in Replies

\* No control transfer is under way but the one waited for.
StagesOK ==
    stages = [s \in Slots |-> IF req.waiting /\ Now \in ControlLabels /\ s = cur
                             THEN StagesOf(ReqTrbs, Len(Queue[ReqRing])) ELSE <<>>]

\* TRBs wait only on the ring of the request, or for a keyboard's report.
FlowOK ==
    /\ \A n \in DOMAIN Queue : Queue[n] # <<>> =>
         \/ req.waiting /\ n = ReqRing
         \/ \E s \in Armed : n = <<s, InIndex>>
    /\ \A s \in Armed : Len(Queue[<<s, InIndex>>]) <= 1

\* Every event is a port's, a keyboard's with its TRB taken, or the answer to
\* the request waited for; each keyboard and the request have at most one.
KeyEvent(e) == /\ e.slot \in Armed /\ Queue[<<e.slot, InIndex>>] = <<>>
               /\ e = [type |-> "transfer", slot |-> e.slot, code |-> 1, ed |-> FALSE]
AnswerEvent(e) == req.waiting /\ ~req.done /\ Answered /\ e \in Replies
Owner(e) == IF e.slot \in Armed THEN e.slot ELSE 0
EventsOK ==
    /\ \A j \in 1 .. Len(Evs) : Evs[j].type = "port" \/ KeyEvent(Evs[j]) \/ AnswerEvent(Evs[j])
    /\ \A i, j \in 1 .. Len(Evs) :
         Evs[i].type # "port" /\ Evs[j].type # "port" /\ Owner(Evs[i]) = Owner(Evs[j]) => i = j

\* Where the driver is while devfs calls it.
CallOK ==
    /\ backend \in {"usb", "virtio"}
    /\ backend = "virtio" => todo = <<>>
    /\ blk.st \in {"call", "done"} \/ fs.st = "loop" => todo = <<>> \/ todo = <<"register">>
    /\ fs.st \in {"idle", "loop"} => blk.st = "idle"
    /\ todo # <<>> /\ Now \in BulkLabels => mem.command.op = "capacity" \/ blk.st = "busy"
    /\ backend = "usb" /\ fs.st = "table" => todo # <<>> /\ todo[Len(todo)] = "register"

TrafficOK == BusOK /\ RingsOK /\ SlotsOK /\ RequestOK /\ StagesOK /\ FlowOK /\ EventsOK
SideOK == ~stale /\ port \in Int /\ changes \in Nat /\ DOMAIN mem = {"command", "response", "status"}
UsbInv == TrafficOK /\ ScriptOK /\ DiskOK /\ CallOK /\ SideOK

-----------------------------------------------------------------------------
(* A ring's operations on what waits on it.                                 *)

\* The fields of the records the operations make.
LEMMA RingFacts ==
  /\ Count \in Nat /\ Count >= 6 /\ Cells \in Nat /\ Cells = Count - 1 /\ Cells >= 5
  /\ Toggle(0) = 1 /\ Toggle(1) = 0
BY XhciAssumption DEF Cells, Toggle

\* The controller's position past the link, on a ring in order.
LEMMA PlaceType ==
  ASSUME NEW r, NEW p, RingOK(r, p)
  PROVE  /\ Place(p).idx \in 0 .. Cells - 1 /\ Place(p).cycle \in {0, 1}
         /\ Place(p) = [idx |-> Place(p).idx, cycle |-> Place(p).cycle]
         /\ Load(r, p) \in 0 .. Cells
         /\ r.idx \in 0 .. Cells - 1 /\ r.cycle \in {0, 1}
<1>1. p.idx \in 0 .. Cells /\ p.cycle \in {0, 1} /\ p = [idx |-> p.idx, cycle |-> p.cycle]
  BY RingFacts DEF RingOK, PosType
<1>2. r.idx \in 0 .. Cells - 1 /\ r.cycle \in {0, 1}
  BY RingFacts DEF RingOK, RingType
<1>3. /\ Place(p).idx \in 0 .. Cells - 1 /\ Place(p).cycle \in {0, 1}
      /\ Place(p) = [idx |-> Place(p).idx, cycle |-> Place(p).cycle]
  BY <1>1, RingFacts DEF Place, Toggle
<1>4. IF Place(p).cycle = r.cycle THEN Place(p).idx <= r.idx ELSE r.idx <= Place(p).idx
  BY DEF RingOK
<1>5. Load(r, p) \in 0 .. Cells
  BY <1>2, <1>3, <1>4, RingFacts DEF Load
<1> QED BY <1>2, <1>3, <1>5

\* Fetching follows the link exactly when it is reached.
LEMMA FetchIsPlace ==
  ASSUME NEW r, NEW p, RingOK(r, p)
  PROVE  Fetch(r, p) = Place(p)
<1>1. p.idx \in 0 .. Cells /\ p.cycle \in {0, 1}
  BY RingFacts DEF RingOK, PosType
<1>2. CASE p.idx = Cells
  <2>1. r.trb[Cells].type = "link" /\ r.bit[Cells] = Toggle(r.cycle) /\ r.cycle = Toggle(p.cycle)
    BY <1>2 DEF RingOK
  <2> QED BY <1>1, <1>2, <2>1 DEF Fetch, Place, Toggle
<1>3. CASE p.idx # Cells
  <2>1. r.trb[p.idx].type # "link"
    BY <1>1, <1>3, RingFacts DEF RingOK
  <2> QED BY <1>3, <2>1 DEF Fetch, Place
<1> QED BY <1>2, <1>3

\* A ring just made is empty.
LEMMA CreateRing ==
  RingOK(create_ring, StartPos) /\ Queued(create_ring, StartPos) = <<>>
<1>1. /\ create_ring.trb = [i \in 0 .. Count - 1 |-> IF i = Count - 1 THEN Link ELSE Blank]
      /\ create_ring.bit = [i \in 0 .. Count - 1 |-> 0]
      /\ create_ring.idx = 0 /\ create_ring.cycle = 1
      /\ StartPos.idx = 0 /\ StartPos.cycle = 1
      /\ Place(StartPos) = StartPos
  BY RingFacts DEF create_ring, StartPos, Place
<1>2. RingType(create_ring) /\ PosType(StartPos)
  BY <1>1, RingFacts DEF RingType, PosType, create_ring, StartPos
<1>3. RingOK(create_ring, StartPos)
  BY <1>1, <1>2, RingFacts DEF RingOK, Link, Blank
<1>4. Load(create_ring, StartPos) = 0
  BY <1>1 DEF Load
<1> QED BY <1>3, <1>4 DEF Queued

\* Putting a TRB on a ring adds it behind the others, unless it fills the
\* ring: a controller waiting at the link would not see it flipped twice.
LEMMA EnqueueRing ==
  ASSUME NEW r, NEW p, NEW t, RingOK(r, p), Load(r, p) < Cells - 1, t.type # "link"
  PROVE  /\ RingOK(enqueue_ring(r, t), p)
         /\ Load(enqueue_ring(r, t), p) = Load(r, p) + 1
         /\ Queued(enqueue_ring(r, t), p) =
              [j \in 1 .. Load(r, p) + 1 |-> IF j = Load(r, p) + 1 THEN t ELSE Queued(r, p)[j]]
<1> DEFINE q == enqueue_ring(r, t)
           wraps == r.idx + 1 = Count - 1
<1>1. /\ Place(p).idx \in 0 .. Cells - 1 /\ Place(p).cycle \in {0, 1}
      /\ Load(r, p) \in 0 .. Cells
      /\ r.idx \in 0 .. Cells - 1 /\ r.cycle \in {0, 1}
  BY PlaceType
<1>2. /\ q.trb = [r.trb EXCEPT ![r.idx] = t]
      /\ q.bit = [i \in 0 .. Count - 1 |->
                  IF i = r.idx THEN r.cycle
                  ELSE IF wraps /\ i = Count - 1 THEN Toggle(r.bit[i]) ELSE r.bit[i]]
      /\ q.idx = (IF wraps THEN 0 ELSE r.idx + 1)
      /\ q.cycle = (IF wraps THEN Toggle(r.cycle) ELSE r.cycle)
      /\ DOMAIN q = {"trb", "bit", "idx", "cycle"}
  BY DEF enqueue_ring
<1> HIDE DEF q
<1>3. /\ DOMAIN r.trb = 0 .. Count - 1 /\ r.bit \in [0 .. Count - 1 -> {0, 1}]
      /\ r.trb[Cells].type = "link" /\ r.bit[Cells] = Toggle(r.cycle)
      /\ \A i \in 0 .. Cells - 1 : r.trb[i].type # "link"
      /\ \A i \in 0 .. Cells - 1 : r.bit[i] = IF i < r.idx THEN r.cycle ELSE Toggle(r.cycle)
      /\ p.idx = Cells => r.cycle = Toggle(p.cycle)
      /\ IF Place(p).cycle = r.cycle THEN Place(p).idx <= r.idx ELSE r.idx <= Place(p).idx
      /\ PosType(p)
  BY DEF RingOK, RingType
<1>4. /\ DOMAIN q.trb = 0 .. Count - 1
      /\ \A i \in 0 .. Count - 1 : q.trb[i] = IF i = r.idx THEN t ELSE r.trb[i]
  BY <1>1, <1>2, <1>3, RingFacts
<1>5. q.idx \in 0 .. Cells - 1 /\ q.cycle \in {0, 1} /\ q.bit \in [0 .. Count - 1 -> {0, 1}]
  BY <1>1, <1>2, <1>3, RingFacts DEF Toggle
<1>6. RingType(q)
  BY <1>2, <1>4, <1>5, RingFacts DEF RingType
<1>7. q.trb[Cells].type = "link" /\ \A i \in 0 .. Cells - 1 : q.trb[i].type # "link"
  BY <1>1, <1>3, <1>4, RingFacts
<1>8. q.bit[Cells] = Toggle(q.cycle)
  BY <1>1, <1>2, <1>3, RingFacts DEF Toggle
<1>9. \A i \in 0 .. Cells - 1 : q.bit[i] = IF i < q.idx THEN q.cycle ELSE Toggle(q.cycle)
  BY <1>1, <1>2, <1>3, RingFacts DEF Toggle
<1>10. PICK a, c, i, d : a = Place(p).idx /\ c = Place(p).cycle /\ i = r.idx /\ d = r.cycle
  OBVIOUS
<1>11. /\ a \in 0 .. Cells - 1 /\ c \in {0, 1} /\ i \in 0 .. Cells - 1 /\ d \in {0, 1}
       /\ IF c = d THEN a <= i ELSE i <= a
       /\ Load(r, p) = (IF c = d THEN i - a ELSE i + Cells - a)
       /\ Load(r, p) < Cells - 1
       /\ Load(q, p) = (IF c = q.cycle THEN q.idx - a ELSE q.idx + Cells - a)
  BY <1>1, <1>3, <1>10 DEF Load
<1>12. q.idx = (IF i = Cells - 1 THEN 0 ELSE i + 1) /\ q.cycle = (IF i = Cells - 1 THEN 1 - d ELSE d)
  BY <1>1, <1>2, <1>10, RingFacts DEF Toggle
<1>13. /\ IF c = q.cycle THEN a <= q.idx ELSE q.idx <= a
       /\ Load(q, p) = Load(r, p) + 1
  BY <1>11, <1>12, RingFacts
<1>16. p.idx = Cells => q.cycle = Toggle(p.cycle)
  <2> SUFFICES ASSUME p.idx = Cells PROVE q.cycle = Toggle(p.cycle)
    OBVIOUS
  <2>1. d = Toggle(p.cycle)
    BY <1>3, <1>10
  <2>2. a = 0 /\ c = Toggle(p.cycle)
    BY <1>10 DEF Place
  <2>3. i # Cells - 1
    BY <1>11, <2>1, <2>2, RingFacts
  <2> QED BY <1>12, <2>1, <2>3
<1>17. RingOK(q, p)
  <2>1. q.idx < Cells
    BY <1>5, RingFacts
  <2>2. IF Place(p).cycle = q.cycle THEN Place(p).idx <= q.idx ELSE q.idx <= Place(p).idx
    BY <1>10, <1>13
  <2> QED BY <1>3, <1>6, <1>7, <1>8, <1>9, <1>16, <2>1, <2>2 DEF RingOK
<1>18. \A j \in 1 .. Load(r, p) : Item(q, p, j) = Item(r, p, j)
  <2> SUFFICES ASSUME NEW j \in 1 .. Load(r, p) PROVE Item(q, p, j) = Item(r, p, j)
    OBVIOUS
  <2>1. Cell(p, j) = IF a + j - 1 < Cells THEN a + j - 1 ELSE a + j - 1 - Cells
    BY <1>10 DEF Cell
  <2>2. Cell(p, j) \in 0 .. Count - 1 /\ Cell(p, j) # i
    BY <1>11, <2>1, RingFacts
  <2> QED BY <1>4, <1>10, <2>2 DEF Item
<1>14. Item(q, p, Load(r, p) + 1) = t
  <2>1. Cell(p, Load(r, p) + 1) = IF a + Load(r, p) < Cells THEN a + Load(r, p) ELSE a + Load(r, p) - Cells
    BY <1>10, <1>11, RingFacts DEF Cell
  <2>2. Cell(p, Load(r, p) + 1) = i /\ i \in 0 .. Count - 1
    BY <1>11, <2>1, RingFacts
  <2> QED BY <1>4, <1>10, <2>2 DEF Item
<1>15. Queued(q, p) = [j \in 1 .. Load(r, p) + 1 |-> IF j = Load(r, p) + 1 THEN t ELSE Queued(r, p)[j]]
  BY <1>1, <1>13, <1>14, <1>18 DEF Queued
<1> QED BY <1>13, <1>15, <1>17 DEF q

\* There is a TRB to fetch exactly when one waits, and it is the first.
LEMMA AvailableIs ==
  ASSUME NEW r, NEW p, RingOK(r, p)
  PROVE  /\ Available(r, p) <=> Load(r, p) > 0
         /\ Load(r, p) > 0 => Taken(r, p) = Queued(r, p)[1]
<1>1. Fetch(r, p) = Place(p)
  BY FetchIsPlace
<1>2. PICK a, c, i, d : a = Place(p).idx /\ c = Place(p).cycle /\ i = r.idx /\ d = r.cycle
  OBVIOUS
<1>3. /\ a \in 0 .. Cells - 1 /\ c \in {0, 1} /\ i \in 0 .. Cells - 1 /\ d \in {0, 1}
      /\ Load(r, p) \in 0 .. Cells
  BY <1>2, PlaceType
<1>4. /\ IF c = d THEN a <= i ELSE i <= a
      /\ Load(r, p) = (IF c = d THEN i - a ELSE i + Cells - a)
  BY <1>2 DEF Load, RingOK
<1>5. r.trb[a].type # "link" /\ r.bit[a] = (IF a < i THEN d ELSE 1 - d)
  BY <1>2, <1>3 DEF RingOK, Toggle
<1>6. Available(r, p) <=> r.bit[a] = c
  BY <1>1, <1>2, <1>5 DEF Available
<1>7. Available(r, p) <=> Load(r, p) > 0
  BY <1>3, <1>4, <1>5, <1>6, RingFacts
<1>8. Load(r, p) > 0 => Taken(r, p) = Queued(r, p)[1]
  <2> SUFFICES ASSUME Load(r, p) > 0 PROVE Taken(r, p) = Queued(r, p)[1]
    OBVIOUS
  <2>1. Queued(r, p)[1] = Item(r, p, 1)
    BY <1>3 DEF Queued
  <2>2. Cell(p, 1) = a
    BY <1>2, <1>3, RingFacts DEF Cell
  <2> QED BY <1>1, <1>2, <2>1, <2>2 DEF Taken, Item
<1> QED BY <1>7, <1>8

\* Two rings that differ at most in what the controller has taken.
Same(r, q, p) ==
    /\ RingType(q) /\ q.bit = r.bit /\ q.idx = r.idx /\ q.cycle = r.cycle
    /\ \A i \in 0 .. Count - 1 : i # Place(p).idx => q.trb[i] = r.trb[i]
    /\ q.trb[Place(p).idx].type # "link"

\* Once the first TRB is taken the others wait.
LEMMA TakeRing ==
  ASSUME NEW r, NEW p, NEW q, RingOK(r, p), Load(r, p) > 0, Same(r, q, p)
  PROVE  /\ RingOK(q, After(r, p))
         /\ Queued(q, After(r, p)) = [j \in 1 .. Load(r, p) - 1 |-> Queued(r, p)[j + 1]]
<1> DEFINE z == After(r, p)
<1>1. Fetch(r, p) = Place(p)
  BY FetchIsPlace
<1>2. PICK a, c, i, d : a = Place(p).idx /\ c = Place(p).cycle /\ i = r.idx /\ d = r.cycle
  OBVIOUS
<1>3. /\ a \in 0 .. Cells - 1 /\ c \in {0, 1} /\ i \in 0 .. Cells - 1 /\ d \in {0, 1}
      /\ Load(r, p) \in 0 .. Cells
      /\ Place(p) = [idx |-> a, cycle |-> c]
  BY <1>2, PlaceType
<1>4. /\ IF c = d THEN a <= i ELSE i <= a
      /\ Load(r, p) = (IF c = d THEN i - a ELSE i + Cells - a)
  BY <1>2 DEF Load, RingOK
<1>5. z = [idx |-> a + 1, cycle |-> c]
  BY <1>1, <1>3 DEF After
<1> HIDE DEF z
<1>6. Place(z).idx = (IF a + 1 = Cells THEN 0 ELSE a + 1) /\ Place(z).cycle = (IF a + 1 = Cells THEN 1 - c ELSE c)
  BY <1>5 DEF Place, Toggle
<1>7. q.bit = r.bit /\ q.idx = i /\ q.cycle = d /\ RingType(q)
  BY <1>2 DEF Same
<1>8. /\ IF Place(z).cycle = d THEN Place(z).idx <= i ELSE i <= Place(z).idx
      /\ a + 1 = Cells => d = 1 - c
      /\ (IF Place(z).cycle = d THEN i - Place(z).idx ELSE i + Cells - Place(z).idx) = Load(r, p) - 1
  BY <1>3, <1>4, <1>6, RingFacts
<1>9. PosType(z)
  BY <1>3, <1>5, RingFacts DEF PosType
<1>10. Load(q, z) = Load(r, p) - 1
  BY <1>7, <1>8 DEF Load
<1>11. /\ r.trb[Cells].type = "link" /\ r.bit[Cells] = Toggle(d)
       /\ \A k \in 0 .. Cells - 1 : r.trb[k].type # "link"
       /\ \A k \in 0 .. Cells - 1 : r.bit[k] = IF k < i THEN d ELSE Toggle(d)
  BY <1>2 DEF RingOK
<1>12. q.trb[Cells].type = "link" /\ \A k \in 0 .. Cells - 1 : q.trb[k].type # "link"
  BY <1>2, <1>3, <1>11, RingFacts DEF Same
<1>13. z.idx = Cells => q.cycle = Toggle(z.cycle)
  BY <1>5, <1>7, <1>8 DEF Toggle
<1>14. IF Place(z).cycle = q.cycle THEN Place(z).idx <= q.idx ELSE q.idx <= Place(z).idx
  BY <1>7, <1>8
<1>15. q.idx < Cells /\ q.bit[Cells] = Toggle(q.cycle)
       /\ \A k \in 0 .. Cells - 1 : q.bit[k] = IF k < q.idx THEN q.cycle ELSE Toggle(q.cycle)
  BY <1>3, <1>7, <1>11, RingFacts
<1>16. RingOK(q, z)
  BY <1>7, <1>9, <1>12, <1>13, <1>14, <1>15 DEF RingOK
<1>17. \A j \in 1 .. Load(r, p) - 1 : Item(q, z, j) = Item(r, p, j + 1)
  <2> SUFFICES ASSUME NEW j \in 1 .. Load(r, p) - 1 PROVE Item(q, z, j) = Item(r, p, j + 1)
    OBVIOUS
  <2>1. /\ Cell(z, j) = (IF Place(z).idx + j - 1 < Cells THEN Place(z).idx + j - 1 ELSE Place(z).idx + j - 1 - Cells)
        /\ Cell(p, j + 1) = IF a + j < Cells THEN a + j ELSE a + j - Cells
    BY <1>2, <1>3, RingFacts DEF Cell
  <2>2. Cell(z, j) = Cell(p, j + 1) /\ Cell(p, j + 1) \in 0 .. Count - 1 /\ Cell(p, j + 1) # a
    BY <1>3, <1>4, <1>6, <2>1, RingFacts
  <2>3. q.trb[Cell(p, j + 1)] = r.trb[Cell(p, j + 1)]
    BY <1>2, <2>2 DEF Same
  <2> QED BY <2>2, <2>3 DEF Item
<1>18. Queued(q, z) = [j \in 1 .. Load(r, p) - 1 |-> Queued(r, p)[j + 1]]
  <2>1. \A j \in 1 .. Load(r, p) - 1 : Queued(r, p)[j + 1] = Item(r, p, j + 1)
    BY <1>3 DEF Queued
  <2> QED BY <1>10, <1>17, <2>1 DEF Queued
<1> QED BY <1>16, <1>18 DEF z

\* What the controller has taken, blanked or not, makes no difference.
LEMMA SpentRing ==
  ASSUME NEW r, NEW p, RingOK(r, p)
  PROVE  Same(r, r, p) /\ Same(r, Spent(r, p), p)
<1>1. Fetch(r, p) = Place(p)
  BY FetchIsPlace
<1>2. Place(p).idx \in 0 .. Cells - 1 /\ Place(p).idx \in 0 .. Count - 1
  BY PlaceType, RingFacts
<1>3. RingType(r) /\ r.trb[Place(p).idx].type # "link"
  BY <1>2 DEF RingOK
<1>4. /\ DOMAIN Spent(r, p) = {"trb", "bit", "idx", "cycle"}
      /\ Spent(r, p).trb = [r.trb EXCEPT ![Place(p).idx] = Blank]
      /\ Spent(r, p).bit = r.bit /\ Spent(r, p).idx = r.idx /\ Spent(r, p).cycle = r.cycle
  BY <1>1, <1>3 DEF Spent, RingType
<1>5. /\ DOMAIN Spent(r, p).trb = 0 .. Count - 1
      /\ \A i \in 0 .. Count - 1 : Spent(r, p).trb[i] = IF i = Place(p).idx THEN Blank ELSE r.trb[i]
  BY <1>3, <1>4 DEF RingType
<1>6. Spent(r, p).trb[Place(p).idx].type # "link"
  BY <1>2, <1>5 DEF Blank
<1>7. RingType(Spent(r, p))
  BY <1>3, <1>4, <1>5 DEF RingType
<1>8. Same(r, Spent(r, p), p)
  BY <1>4, <1>5, <1>6, <1>7 DEF Same
<1> QED BY <1>3, <1>8 DEF Same

\* A request's TRBs go on the ring one after another.
IsRun(g, r, ts) == g = [k \in 0 .. Len(ts) |-> IF k = 0 THEN r ELSE enqueue_ring(g[k - 1], ts[k])]
Steps(g, r, ts, n) == /\ EnqueueAll(r, ts) = g[n] /\ g[0] = r
                      /\ \A k \in 1 .. n : g[k] = enqueue_ring(g[k - 1], ts[k])
\* Every request that is made can be put on a ring so.
LEMMA EnqueueSteps ==
  ASSUME NEW r, NEW ts, NEW n \in 1 .. 4, n = Len(ts)
  PROVE  \E g : Steps(g, r, ts, n)
<1> DEFINE a == enqueue_ring(r, ts[1])
           b == enqueue_ring(a, ts[2])
           c == enqueue_ring(b, ts[3])
           d == enqueue_ring(c, ts[4])
           f == [k \in 0 .. n |-> IF k = 0 THEN r ELSE IF k = 1 THEN a ELSE IF k = 2 THEN b
                                        ELSE IF k = 3 THEN c ELSE d]
<1>1. f = [k \in 0 .. n |-> f[k]] /\ f[0] = r
  OBVIOUS
<1>2. \A k \in 1 .. n : f[k] = enqueue_ring(f[k - 1], ts[k])
  <2> SUFFICES ASSUME NEW k \in 1 .. n PROVE f[k] = enqueue_ring(f[k - 1], ts[k])
    OBVIOUS
  <2>1. k \in {1, 2, 3, 4} /\ k - 1 \in 0 .. n /\ k \in 0 .. n
    <3> HIDE DEF f
    <3> QED OBVIOUS
  <2>2. CASE k = 1
    <3>1. f[1] = a /\ f[0] = r
      BY <2>1, <2>2
    <3> QED BY <2>2, <3>1
  <2>3. CASE k = 2
    <3>1. f[2] = b /\ f[1] = a
      BY <2>1, <2>3
    <3> QED BY <2>3, <3>1
  <2>4. CASE k = 3
    <3>1. f[3] = c /\ f[2] = b
      BY <2>1, <2>4
    <3> QED BY <2>4, <3>1
  <2>5. CASE k = 4
    <3>1. f[4] = d /\ f[3] = c
      BY <2>1, <2>5
    <3> QED BY <2>5, <3>1
  <2> QED BY <2>1, <2>2, <2>3, <2>4, <2>5
<1> HIDE DEF f
<1>3. IsRun(f, r, ts)
  <2>1. \A k \in 0 .. n : f[k] = IF k = 0 THEN r ELSE enqueue_ring(f[k - 1], ts[k])
    <3> SUFFICES ASSUME NEW k \in 0 .. n PROVE f[k] = IF k = 0 THEN r ELSE enqueue_ring(f[k - 1], ts[k])
      OBVIOUS
    <3>1. k = 0 \/ k \in 1 .. n
      OBVIOUS
    <3> QED BY <1>1, <1>2, <3>1
  <2> QED BY <1>1, <2>1 DEF IsRun
<1>4. PICK g : g = CHOOSE h : IsRun(h, r, ts)
  OBVIOUS
<1>5. IsRun(g, r, ts)
  BY <1>3, <1>4
<1>6. EnqueueAll(r, ts) = g[n]
  BY <1>4 DEF EnqueueAll, IsRun
<1>7. g[0] = r /\ \A k \in 1 .. n : g[k] = enqueue_ring(g[k - 1], ts[k])
  BY <1>5 DEF IsRun
<1> QED BY <1>6, <1>7 DEF Steps

\* On an empty ring they are then all that waits.
Holds(r, p, ts, k) == RingOK(r, p) /\ Load(r, p) = k /\ \A j \in 1 .. k : Queued(r, p)[j] = ts[j]
\* One more TRB on a ring that held only the first ones of a request.
LEMMA HoldsMore ==
  ASSUME NEW r, NEW p, NEW ts, NEW k \in 0 .. 3, Holds(r, p, ts, k), ts[k + 1].type # "link"
  PROVE  Holds(enqueue_ring(r, ts[k + 1]), p, ts, k + 1)
<1>1. RingOK(r, p) /\ Load(r, p) = k /\ Load(r, p) < Cells - 1
  BY RingFacts DEF Holds
<1>2. PICK t : t = ts[k + 1]
  OBVIOUS
<1>3. /\ RingOK(enqueue_ring(r, t), p) /\ Load(enqueue_ring(r, t), p) = k + 1
      /\ Queued(enqueue_ring(r, t), p) = [j \in 1 .. k + 1 |-> IF j = k + 1 THEN t ELSE Queued(r, p)[j]]
  BY <1>1, <1>2, EnqueueRing
<1>4. \A j \in 1 .. k + 1 : Queued(enqueue_ring(r, t), p)[j] = ts[j]
  BY <1>2, <1>3 DEF Holds
<1> QED BY <1>2, <1>3, <1>4 DEF Holds

IsRequest(ts, n) == /\ n \in 1 .. 4 /\ n = Len(ts) /\ ts = [j \in 1 .. n |-> ts[j]]
                    /\ \A i \in 1 .. n : ts[i].type # "link"
\* The TRBs of a request are then what waits.
LEMMA EnqueueRequest ==
  ASSUME NEW r, NEW p, NEW ts, NEW n, IsRequest(ts, n), RingOK(r, p), Queued(r, p) = <<>>
  PROVE  RingOK(EnqueueAll(r, ts), p) /\ Queued(EnqueueAll(r, ts), p) = ts
<1>a. n \in 1 .. 4 /\ \A i \in 1 .. n : ts[i].type # "link"
  BY DEF IsRequest
<1>b. n = Len(ts)
  BY DEF IsRequest
<1>0. PICK g : Steps(g, r, ts, n)
  BY <1>a, <1>b, EnqueueSteps
<1>1. /\ EnqueueAll(r, ts) = g[n] /\ g[0] = r
      /\ \A k \in 1 .. n : g[k] = enqueue_ring(g[k - 1], ts[k])
  BY <1>0 DEF Steps
<1>2. Load(r, p) = 0
  <2>1. Load(r, p) \in 0 .. Cells
    BY PlaceType
  <2>2. DOMAIN Queued(r, p) = 1 .. Load(r, p)
    BY DEF Queued
  <2> QED BY <2>1, <2>2, RingFacts
<1>3. Holds(g[0], p, ts, 0)
  BY <1>1, <1>2 DEF Holds
<1>4. ASSUME NEW k \in 0 .. 3, k < n, Holds(g[k], p, ts, k) PROVE Holds(g[k + 1], p, ts, k + 1)
  <2>1. k + 1 \in 1 .. n /\ g[k + 1] = enqueue_ring(g[k], ts[k + 1]) /\ ts[k + 1].type # "link"
    BY <1>a, <1>1, <1>4
  <2> QED BY <1>4, <2>1, HoldsMore
<1>5. Holds(g[1], p, ts, 1)
  BY <1>a, <1>3, <1>4
<1>6. n > 1 => Holds(g[2], p, ts, 2)
  BY <1>a, <1>4, <1>5
<1>7. n > 2 => Holds(g[3], p, ts, 3)
  BY <1>a, <1>4, <1>6
<1>8. n > 3 => Holds(g[4], p, ts, 4)
  BY <1>a, <1>4, <1>7
<1>9. Holds(g[n], p, ts, n)
  <2>1. n = 1 \/ n = 2 \/ n = 3 \/ n = 4
    BY <1>a
  <2> QED BY <1>5, <1>6, <1>7, <1>8, <2>1
<1>10. RingOK(EnqueueAll(r, ts), p) /\ Load(EnqueueAll(r, ts), p) = n
       /\ \A j \in 1 .. n : Queued(EnqueueAll(r, ts), p)[j] = ts[j]
  BY <1>1, <1>9 DEF Holds
<1>11. Queued(EnqueueAll(r, ts), p) = ts
  <2>1. ts = [j \in 1 .. n |-> ts[j]]
    BY DEF IsRequest
  <2>2. Queued(EnqueueAll(r, ts), p) = [j \in 1 .. n |-> Queued(EnqueueAll(r, ts), p)[j]]
    BY <1>10 DEF Queued
  <2> QED BY <1>10, <2>1, <2>2
<1> QED BY <1>10, <1>11

-----------------------------------------------------------------------------
(* The event ring's operations on the events not taken.                     *)

\* Posting, with room, adds an event behind the others.
LEMMA PostEvent ==
  ASSUME NEW r, NEW p, NEW e, EventOK(r, p), AfterPost(p).idx # r.idx
  PROVE  /\ EventOK(PostTo(r, p, e), AfterPost(p))
         /\ EventLoad(r, p) \in Nat
         /\ Posted(PostTo(r, p, e), AfterPost(p)) =
              [j \in 1 .. EventLoad(r, p) + 1 |-> IF j = EventLoad(r, p) + 1 THEN e ELSE Posted(r, p)[j]]
<1> DEFINE q == PostTo(r, p, e)
           z == AfterPost(p)
<1>1. PICK a, c, i, d : a = p.idx /\ c = p.cycle /\ i = r.idx /\ d = r.cycle
  OBVIOUS
<1>2. /\ RingType(r) /\ PosType(p)
      /\ a \in 0 .. Count - 1 /\ c \in {0, 1} /\ i \in 0 .. Count - 1 /\ d \in {0, 1}
      /\ IF c = d THEN i <= a ELSE a < i
      /\ \A k \in 0 .. Count - 1 : r.bit[k] = IF k < a THEN c ELSE Toggle(c)
      /\ EventLoad(r, p) = IF c = d THEN a - i ELSE a + Count - i
  BY <1>1 DEF EventOK, RingType, PosType, EventLoad
<1>3. z.idx = (IF a + 1 = Count THEN 0 ELSE a + 1) /\ z.cycle = (IF a + 1 = Count THEN 1 - c ELSE c)
      /\ z = [idx |-> z.idx, cycle |-> z.cycle]
  BY <1>1, <1>2 DEF AfterPost, Toggle, PosType
<1>4. /\ DOMAIN q = {"trb", "bit", "idx", "cycle"}
      /\ q.trb = [r.trb EXCEPT ![a] = e] /\ q.bit = [r.bit EXCEPT ![a] = c]
      /\ q.idx = i /\ q.cycle = d
  BY <1>1, <1>2 DEF PostTo, RingType
<1>5. z.idx # i
  BY <1>1
<1> HIDE DEF q, z
<1>6. /\ DOMAIN q.trb = 0 .. Count - 1
      /\ \A k \in 0 .. Count - 1 : q.trb[k] = IF k = a THEN e ELSE r.trb[k]
      /\ q.bit \in [0 .. Count - 1 -> {0, 1}]
      /\ \A k \in 0 .. Count - 1 : q.bit[k] = IF k = a THEN c ELSE r.bit[k]
  BY <1>2, <1>4 DEF RingType
<1>7. RingType(q)
  BY <1>2, <1>4, <1>6 DEF RingType
<1>8. PosType(z)
  BY <1>2, <1>3, RingFacts DEF PosType
<1>9. \A k \in 0 .. Count - 1 : q.bit[k] = IF k < z.idx THEN z.cycle ELSE Toggle(z.cycle)
  BY <1>2, <1>3, <1>6, RingFacts DEF Toggle
<1>10. /\ IF z.cycle = d THEN i <= z.idx ELSE z.idx < i
       /\ EventLoad(r, p) \in Nat
       /\ (IF z.cycle = d THEN z.idx - i ELSE z.idx + Count - i) = EventLoad(r, p) + 1
  BY <1>2, <1>3, <1>5, RingFacts
<1>11. EventOK(q, z)
  BY <1>4, <1>7, <1>8, <1>9, <1>10 DEF EventOK
<1>12. EventLoad(q, z) = EventLoad(r, p) + 1
  BY <1>4, <1>10 DEF EventLoad
<1>13. ASSUME NEW j \in 1 .. EventLoad(r, p) + 1
       PROVE  EventItem(q, j) = IF j = EventLoad(r, p) + 1 THEN e ELSE EventItem(r, j)
  <2>1. PICK k : k = IF i + j - 1 < Count THEN i + j - 1 ELSE i + j - 1 - Count
    OBVIOUS
  <2>2. EventItem(q, j) = q.trb[k] /\ EventItem(r, j) = r.trb[k]
    BY <1>1, <1>4, <2>1 DEF EventItem
  <2>3. k \in 0 .. Count - 1 /\ (k = a <=> j = EventLoad(r, p) + 1)
    BY <1>2, <1>3, <1>5, <2>1, RingFacts
  <2> QED BY <1>6, <2>2, <2>3
<1>14. Posted(q, z) = [j \in 1 .. EventLoad(r, p) + 1 |-> IF j = EventLoad(r, p) + 1 THEN e ELSE Posted(r, p)[j]]
  BY <1>10, <1>12, <1>13 DEF Posted
<1> QED BY <1>10, <1>11, <1>14 DEF q, z

\* The driver sees an event exactly when one is there, and takes the first.
LEMMA TakeEvent ==
  ASSUME NEW r, NEW p, EventOK(r, p)
  PROVE  /\ EventLoad(r, p) \in Nat
         /\ Dequeuable(r) <=> EventLoad(r, p) > 0
         /\ EventLoad(r, p) > 0 =>
              /\ r.trb[r.idx] = Posted(r, p)[1]
              /\ EventOK(dequeue_ring(r), p)
              /\ Posted(dequeue_ring(r), p) = [j \in 1 .. EventLoad(r, p) - 1 |-> Posted(r, p)[j + 1]]
<1> DEFINE q == dequeue_ring(r)
<1>1. PICK a, c, i, d : a = p.idx /\ c = p.cycle /\ i = r.idx /\ d = r.cycle
  OBVIOUS
<1>2. /\ RingType(r) /\ PosType(p)
      /\ a \in 0 .. Count - 1 /\ c \in {0, 1} /\ i \in 0 .. Count - 1 /\ d \in {0, 1}
      /\ IF c = d THEN i <= a ELSE a < i
      /\ \A k \in 0 .. Count - 1 : r.bit[k] = IF k < a THEN c ELSE 1 - c
      /\ EventLoad(r, p) = IF c = d THEN a - i ELSE a + Count - i
  BY <1>1 DEF EventOK, RingType, PosType, EventLoad, Toggle
<1>3. EventLoad(r, p) \in Nat /\ (Dequeuable(r) <=> EventLoad(r, p) > 0)
  BY <1>1, <1>2, RingFacts DEF Dequeuable
<1> SUFFICES ASSUME EventLoad(r, p) > 0
             PROVE  /\ r.trb[r.idx] = Posted(r, p)[1]
                    /\ EventOK(q, p)
                    /\ Posted(q, p) = [j \in 1 .. EventLoad(r, p) - 1 |-> Posted(r, p)[j + 1]]
  BY <1>3
<1>4. r.trb[r.idx] = Posted(r, p)[1]
  <2>1. EventItem(r, 1) = r.trb[i]
    <3>1. i + 1 - 1 = i /\ i < Count
      BY <1>2, RingFacts
    <3> QED BY <1>1, <3>1 DEF EventItem
  <2> QED BY <1>1, <1>3, <2>1 DEF Posted
<1>5. /\ DOMAIN q = {"trb", "bit", "idx", "cycle"}
      /\ q.trb = [r.trb EXCEPT ![i] = Blank] /\ q.bit = r.bit
      /\ q.idx = (IF i + 1 = Count THEN 0 ELSE i + 1)
      /\ q.cycle = (IF i + 1 = Count THEN 1 - d ELSE d)
  BY <1>1, <1>2 DEF dequeue_ring, RingType, Toggle
<1> HIDE DEF q
<1>6. /\ DOMAIN q.trb = 0 .. Count - 1
      /\ \A k \in 0 .. Count - 1 : k # i => q.trb[k] = r.trb[k]
  BY <1>2, <1>5 DEF RingType
<1>7. RingType(q)
  BY <1>2, <1>5, <1>6, RingFacts DEF RingType
<1>8. /\ IF c = q.cycle THEN q.idx <= a ELSE a < q.idx
      /\ (IF c = q.cycle THEN a - q.idx ELSE a + Count - q.idx) = EventLoad(r, p) - 1
  BY <1>2, <1>5, RingFacts
<1>9. \A k \in 0 .. Count - 1 : q.bit[k] = IF k < p.idx THEN p.cycle ELSE Toggle(p.cycle)
  BY <1>5 DEF EventOK
<1>10. IF p.cycle = q.cycle THEN q.idx <= p.idx ELSE p.idx < q.idx
  BY <1>1, <1>8
<1>11. EventOK(q, p)
  BY <1>2, <1>7, <1>9, <1>10 DEF EventOK
<1>12. EventLoad(q, p) = EventLoad(r, p) - 1
  BY <1>1, <1>8 DEF EventLoad
<1>13. ASSUME NEW j \in 1 .. EventLoad(r, p) - 1
       PROVE  EventItem(q, j) = EventItem(r, j + 1)
  <2>1. PICK k : k = IF i + j < Count THEN i + j ELSE i + j - Count
    OBVIOUS
  <2>2. EventItem(r, j + 1) = r.trb[k]
    <3>1. i + (j + 1) - 1 = i + j
      BY <1>2
    <3> QED BY <1>1, <2>1, <3>1 DEF EventItem
  <2>3. (IF q.idx + j - 1 < Count THEN q.idx + j - 1 ELSE q.idx + j - 1 - Count) = k
    BY <1>2, <1>5, <2>1, RingFacts
  <2>4. EventItem(q, j) = q.trb[k]
    BY <2>3 DEF EventItem
  <2>5. k \in 0 .. Count - 1 /\ k # i
    BY <1>2, <2>1, RingFacts
  <2> QED BY <1>6, <2>2, <2>4, <2>5
<1>14. Posted(q, p) = [j \in 1 .. EventLoad(r, p) - 1 |-> Posted(r, p)[j + 1]]
  BY <1>3, <1>12, <1>13 DEF Posted
<1> QED BY <1>4, <1>11, <1>14

\* The event ring starts empty.
LEMMA CreateEvents ==
  EventOK(create_ring, StartPos) /\ Posted(create_ring, StartPos) = <<>>
<1>1. RingType(create_ring) /\ PosType(StartPos)
  BY CreateRing DEF RingOK
<1>2. /\ create_ring.bit = [i \in 0 .. Count - 1 |-> 0]
      /\ create_ring.idx = 0 /\ create_ring.cycle = 1
      /\ StartPos.idx = 0 /\ StartPos.cycle = 1
  BY DEF create_ring, StartPos
<1>3. EventOK(create_ring, StartPos)
  BY <1>1, <1>2, RingFacts DEF EventOK
<1>4. EventLoad(create_ring, StartPos) = 0
  BY <1>2 DEF EventLoad
<1> QED BY <1>3, <1>4 DEF Posted

-----------------------------------------------------------------------------
(* What each kind of step does to the queues and the events.                *)

Dropped(s) == [j \in 1 .. Len(s) - 1 |-> s[j + 1]]
Added(s, e) == [j \in 1 .. Len(s) + 1 |-> IF j = Len(s) + 1 THEN e ELSE s[j]]

\* A function on 1 .. k is a sequence of length k.
LEMMA LengthIs ==
  ASSUME NEW s, NEW k \in Nat, s = [j \in 1 .. k |-> s[j]]
  PROVE  Len(s) = k /\ (s = <<>> <=> k = 0)
<1>1. s \in Seq({s[j] : j \in 1 .. k})
  OBVIOUS
<1>2. DOMAIN s = 1 .. k
  OBVIOUS
<1>3. Len(s) = k
  BY <1>1, <1>2
<1> QED BY <1>2, <1>3

\* The queues and the events are sequences.
LEMMA QueueSeqs ==
  ASSUME BusOK
  PROVE  /\ DOMAIN Queue = DOMAIN rings \ {EventRing}
         /\ \A n \in DOMAIN Queue :
              /\ Queue[n] = Queued(rings[n], hw[n]) /\ RingOK(rings[n], hw[n])
              /\ Len(Queue[n]) = Load(rings[n], hw[n]) /\ Len(Queue[n]) \in Nat
              /\ Queue[n] = <<>> <=> Len(Queue[n]) = 0
         /\ Len(Evs) = EventLoad(rings[EventRing], hw[EventRing]) /\ Len(Evs) \in Nat
<1>1. DOMAIN Queue = DOMAIN rings \ {EventRing}
  BY DEF Queue
<1>2. ASSUME NEW n \in DOMAIN Queue
      PROVE  /\ Queue[n] = Queued(rings[n], hw[n]) /\ RingOK(rings[n], hw[n])
             /\ Len(Queue[n]) = Load(rings[n], hw[n]) /\ Len(Queue[n]) \in Nat
             /\ Queue[n] = <<>> <=> Len(Queue[n]) = 0
  <2>1. Queue[n] = Queued(rings[n], hw[n]) /\ RingOK(rings[n], hw[n])
    BY <1>1 DEF Queue, BusOK
  <2>2. PICK k : k = Load(rings[n], hw[n])
    OBVIOUS
  <2>3. k \in Nat
    BY <2>1, <2>2, PlaceType, RingFacts
  <2>4. Queue[n] = [j \in 1 .. k |-> Queue[n][j]]
    BY <2>1, <2>2 DEF Queued
  <2>5. Len(Queue[n]) = k /\ (Queue[n] = <<>> <=> k = 0)
    BY <2>3, <2>4, LengthIs
  <2> QED BY <2>1, <2>2, <2>3, <2>5
<1>3. Len(Evs) = EventLoad(rings[EventRing], hw[EventRing]) /\ Len(Evs) \in Nat
  <2>1. PICK k : k = EventLoad(rings[EventRing], hw[EventRing])
    OBVIOUS
  <2>2. k \in Nat
    BY <2>1, TakeEvent DEF BusOK
  <2>3. Evs = [j \in 1 .. k |-> Evs[j]]
    BY <2>1 DEF Evs, Posted
  <2>4. Len(Evs) = k
    BY <2>2, <2>3, LengthIs
  <2> QED BY <2>1, <2>2, <2>4
<1> QED BY <1>1, <1>2, <1>3

\* Rings other than those of S keep what waits on them.
LEMMA QueueStep ==
  ASSUME BusOK, rings' = [m \in DOMAIN rings |-> rings'[m]], hw' = [m \in DOMAIN rings |-> hw'[m]],
         NEW n \in DOMAIN Queue, NEW s,
         \A m \in DOMAIN rings \ {EventRing, n} : rings'[m] = rings[m] /\ hw'[m] = hw[m],
         RingOK(rings'[n], hw'[n]), Queued(rings'[n], hw'[n]) = s,
         EventOK(rings'[EventRing], hw'[EventRing])
  PROVE  BusOK' /\ Queue' = [Queue EXCEPT ![n] = s]
<1>1. DOMAIN rings' = DOMAIN rings /\ EventRing \in DOMAIN rings
  BY DEF BusOK
<1>2. DOMAIN Queue = DOMAIN rings \ {EventRing}
  BY DEF Queue
<1>3. \A m \in DOMAIN rings \ {EventRing} : RingOK(rings'[m], hw'[m])
  BY <1>2 DEF BusOK
<1>4. BusOK'
  BY <1>1, <1>3 DEF BusOK
<1>5. \A m \in DOMAIN rings \ {EventRing} :
         Queued(rings'[m], hw'[m]) = IF m = n THEN s ELSE Queued(rings[m], hw[m])
  BY <1>2
<1>6. Queue' = [m \in DOMAIN rings \ {EventRing} |-> Queued(rings'[m], hw'[m])]
  BY <1>1 DEF Queue
<1>7. Queue' = [Queue EXCEPT ![n] = s]
  BY <1>2, <1>5, <1>6 DEF Queue
<1> QED BY <1>4, <1>7

\* The rings and positions as functions, and the ring n among them.
LEMMA BusFacts ==
  ASSUME BusOK, NEW n \in DOMAIN Queue
  PROVE  /\ rings = [m \in DOMAIN rings |-> rings[m]] /\ hw = [m \in DOMAIN rings |-> hw[m]]
         /\ DOMAIN hw = DOMAIN rings /\ n \in DOMAIN rings /\ n # EventRing
         /\ EventRing \in DOMAIN rings
         /\ EventOK(rings[EventRing], hw[EventRing])
BY DEF BusOK, Queue

\* Sending a request puts its TRBs on its ring.
LEMMA SendStep ==
  ASSUME BusOK, NEW n \in DOMAIN Queue, Queue[n] = <<>>, NEW ts, NEW k, IsRequest(ts, k),
         rings' = [rings EXCEPT ![n] = EnqueueAll(@, ts)], hw' = hw
  PROVE  BusOK' /\ Queue' = [Queue EXCEPT ![n] = ts] /\ Evs' = Evs
<1>1. /\ rings = [m \in DOMAIN rings |-> rings[m]] /\ hw = [m \in DOMAIN rings |-> hw[m]]
      /\ n \in DOMAIN rings /\ n # EventRing /\ EventRing \in DOMAIN rings
      /\ EventOK(rings[EventRing], hw[EventRing])
  BY BusFacts
<1>2. /\ rings' = [m \in DOMAIN rings |-> rings'[m]] /\ hw' = [m \in DOMAIN rings |-> hw'[m]]
      /\ rings'[n] = EnqueueAll(rings[n], ts)
      /\ \A m \in DOMAIN rings \ {n} : rings'[m] = rings[m]
  BY <1>1
<1>3. RingOK(rings[n], hw[n]) /\ Queued(rings[n], hw[n]) = <<>>
  BY QueueSeqs
<1>4. PICK r, p : r = rings[n] /\ p = hw[n]
  OBVIOUS
<1>5. RingOK(EnqueueAll(r, ts), p) /\ Queued(EnqueueAll(r, ts), p) = ts
  <2>1. RingOK(r, p) /\ Queued(r, p) = <<>>
    BY <1>3, <1>4
  <2> QED BY <2>1, EnqueueRequest
<1>6. BusOK' /\ Queue' = [Queue EXCEPT ![n] = ts]
  BY <1>1, <1>2, <1>4, <1>5, QueueStep
<1> QED BY <1>1, <1>2, <1>6 DEF Evs

\* One TRB on an empty ring.
LEMMA EnqueueOne ==
  ASSUME NEW r, NEW p, NEW t, RingOK(r, p), Queued(r, p) = <<>>, t.type # "link"
  PROVE  RingOK(enqueue_ring(r, t), p) /\ Queued(enqueue_ring(r, t), p) = <<t>>
<1>1. Load(r, p) = 0
  <2>1. Load(r, p) \in 0 .. Cells
    BY PlaceType
  <2>2. DOMAIN Queued(r, p) = 1 .. Load(r, p)
    BY DEF Queued
  <2> QED BY <2>1, <2>2, RingFacts
<1>2. /\ RingOK(enqueue_ring(r, t), p)
      /\ Queued(enqueue_ring(r, t), p) = [j \in 1 .. Load(r, p) + 1 |->
                                            IF j = Load(r, p) + 1 THEN t ELSE Queued(r, p)[j]]
  <2>1. Load(r, p) < Cells - 1
    BY <1>1, RingFacts
  <2> QED BY <2>1, EnqueueRing
<1>3. [j \in 1 .. Load(r, p) + 1 |-> IF j = Load(r, p) + 1 THEN t ELSE Queued(r, p)[j]] = <<t>>
  BY <1>1
<1> QED BY <1>2, <1>3

\* A TRB put on an empty ring is the only one that waits there.
LEMMA ReportStep ==
  ASSUME BusOK, NEW n \in DOMAIN Queue, Queue[n] = <<>>, NEW t, t.type # "link",
         rings' = [rings EXCEPT ![n] = enqueue_ring(@, t)], hw' = hw
  PROVE  BusOK' /\ Queue' = [Queue EXCEPT ![n] = <<t>>] /\ Evs' = Evs
<1>1. /\ rings = [m \in DOMAIN rings |-> rings[m]] /\ hw = [m \in DOMAIN rings |-> hw[m]]
      /\ n \in DOMAIN rings /\ n # EventRing /\ EventRing \in DOMAIN rings
      /\ EventOK(rings[EventRing], hw[EventRing])
  BY BusFacts
<1>2. /\ rings' = [m \in DOMAIN rings |-> rings'[m]] /\ hw' = [m \in DOMAIN rings |-> hw'[m]]
      /\ rings'[n] = enqueue_ring(rings[n], t)
      /\ \A m \in DOMAIN rings \ {n} : rings'[m] = rings[m]
  BY <1>1
<1>3. RingOK(rings[n], hw[n]) /\ Queued(rings[n], hw[n]) = <<>>
  BY QueueSeqs
<1>4. RingOK(rings'[n], hw'[n]) /\ Queued(rings'[n], hw'[n]) = <<t>>
  BY <1>2, <1>3, EnqueueOne
<1>5. BusOK' /\ Queue' = [Queue EXCEPT ![n] = <<t>>]
  BY <1>1, <1>2, <1>4, QueueStep
<1> QED BY <1>1, <1>2, <1>5 DEF Evs

\* Taking a TRB, blanked or not, leaves those behind it.
LEMMA TakeOne ==
  ASSUME BusOK, NEW n \in DOMAIN Queue, Available(rings[n], hw[n])
  PROVE  /\ Len(Queue[n]) > 0 /\ Queue[n] # <<>> /\ Taken(rings[n], hw[n]) = Queue[n][1]
         /\ RingOK(rings[n], After(rings[n], hw[n]))
         /\ Queued(rings[n], After(rings[n], hw[n])) = Dropped(Queue[n])
         /\ RingOK(Spent(rings[n], hw[n]), After(rings[n], hw[n]))
         /\ Queued(Spent(rings[n], hw[n]), After(rings[n], hw[n])) = Dropped(Queue[n])
<1>1. PICK r, p : r = rings[n] /\ p = hw[n]
  OBVIOUS
<1>2. RingOK(r, p) /\ Queue[n] = Queued(r, p) /\ Len(Queue[n]) = Load(r, p) /\ Len(Queue[n]) \in Nat
      /\ (Queue[n] = <<>> <=> Len(Queue[n]) = 0)
  BY <1>1, QueueSeqs
<1>3. Load(r, p) > 0 /\ Taken(r, p) = Queued(r, p)[1]
  BY <1>1, <1>2, AvailableIs
<1>4. Same(r, r, p) /\ Same(r, Spent(r, p), p)
  BY <1>2, SpentRing
<1>5. /\ RingOK(r, After(r, p))
      /\ Queued(r, After(r, p)) = [j \in 1 .. Load(r, p) - 1 |-> Queued(r, p)[j + 1]]
  BY <1>2, <1>3, <1>4, TakeRing
<1>6. PICK q : q = Spent(r, p)
  OBVIOUS
<1>7. /\ RingOK(q, After(r, p))
      /\ Queued(q, After(r, p)) = [j \in 1 .. Load(r, p) - 1 |-> Queued(r, p)[j + 1]]
  BY <1>2, <1>3, <1>4, <1>6, TakeRing
<1>8. [j \in 1 .. Load(r, p) - 1 |-> Queued(r, p)[j + 1]] = Dropped(Queue[n])
  BY <1>2 DEF Dropped
<1> QED BY <1>1, <1>2, <1>3, <1>5, <1>6, <1>7, <1>8

\* The controller takes the first TRB of a ring; nothing else moves.
LEMMA TakeStep ==
  ASSUME BusOK, NEW n \in DOMAIN Queue, Available(rings[n], hw[n]), rings' = rings, hw' = Take(n)
  PROVE  BusOK' /\ Queue' = [Queue EXCEPT ![n] = Dropped(Queue[n])] /\ Evs' = Evs
<1>1. /\ rings = [m \in DOMAIN rings |-> rings[m]] /\ hw = [m \in DOMAIN rings |-> hw[m]]
      /\ n \in DOMAIN rings /\ n # EventRing /\ EventRing \in DOMAIN rings
      /\ EventOK(rings[EventRing], hw[EventRing])
  BY BusFacts
<1>2. /\ rings' = [m \in DOMAIN rings |-> rings'[m]] /\ hw' = [m \in DOMAIN rings |-> hw'[m]]
      /\ hw'[n] = After(rings[n], hw[n])
      /\ \A m \in DOMAIN rings \ {n} : hw'[m] = hw[m]
  BY <1>1 DEF Take
<1>3. RingOK(rings'[n], hw'[n]) /\ Queued(rings'[n], hw'[n]) = Dropped(Queue[n])
  BY <1>2, TakeOne
<1>4. PICK s : s = Dropped(Queue[n])
  OBVIOUS
<1>5. BusOK' /\ Queue' = [Queue EXCEPT ![n] = s]
  BY <1>1, <1>2, <1>3, <1>4, QueueStep
<1> QED BY <1>1, <1>2, <1>4, <1>5 DEF Evs

\* An event posted comes last.
LEMMA PostedIs ==
  ASSUME BusOK, NEW e, Room
  PROVE  /\ EventOK(PostTo(rings[EventRing], hw[EventRing], e), AfterPost(hw[EventRing]))
         /\ Posted(PostTo(rings[EventRing], hw[EventRing], e), AfterPost(hw[EventRing])) = Added(Evs, e)
<1>1. PICK r, p : r = rings[EventRing] /\ p = hw[EventRing]
  OBVIOUS
<1>2. EventOK(r, p) /\ AfterPost(p).idx # r.idx
  BY <1>1 DEF BusOK, Room
<1>3. /\ EventOK(PostTo(r, p, e), AfterPost(p))
      /\ Posted(PostTo(r, p, e), AfterPost(p)) =
              [j \in 1 .. EventLoad(r, p) + 1 |-> IF j = EventLoad(r, p) + 1 THEN e ELSE Posted(r, p)[j]]
  BY <1>2, PostEvent
<1>4. Evs = Posted(r, p) /\ Len(Evs) = EventLoad(r, p)
  BY <1>1, QueueSeqs DEF Evs
<1> QED BY <1>1, <1>3, <1>4 DEF Added

\* The controller takes a TRB and posts its event behind those not yet seen.
LEMMA PostForStep ==
  ASSUME BusOK, NEW n \in DOMAIN Queue, Available(rings[n], hw[n]), NEW e, PostFor(n, e)
  PROVE  BusOK' /\ Queue' = [Queue EXCEPT ![n] = Dropped(Queue[n])] /\ Evs' = Added(Evs, e)
<1>1. /\ rings = [m \in DOMAIN rings |-> rings[m]] /\ hw = [m \in DOMAIN rings |-> hw[m]]
      /\ n \in DOMAIN rings /\ n # EventRing /\ EventRing \in DOMAIN rings
      /\ EventOK(rings[EventRing], hw[EventRing])
  BY BusFacts
<1>2. PICK r1, r2, h1, h2 : /\ r1 = Spent(rings[n], hw[n]) /\ h1 = After(rings[n], hw[n])
                            /\ r2 = PostTo(rings[EventRing], hw[EventRing], e) /\ h2 = AfterPost(hw[EventRing])
  OBVIOUS
<1>3. /\ Room
      /\ rings' = [[rings EXCEPT ![n] = r1] EXCEPT ![EventRing] = PostTo(@, hw[EventRing], e)]
      /\ hw' = [[hw EXCEPT ![n] = h1] EXCEPT ![EventRing] = AfterPost(@)]
  BY <1>1, <1>2 DEF PostFor, Post, Take
<1>4. /\ rings' = [m \in DOMAIN rings |-> rings'[m]] /\ hw' = [m \in DOMAIN rings |-> hw'[m]]
      /\ rings'[n] = r1 /\ hw'[n] = h1
      /\ rings'[EventRing] = r2 /\ hw'[EventRing] = h2
      /\ \A m \in DOMAIN rings \ {EventRing, n} : rings'[m] = rings[m] /\ hw'[m] = hw[m]
  BY <1>1, <1>2, <1>3
<1>5. RingOK(r1, h1) /\ Queued(r1, h1) = Dropped(Queue[n])
  BY <1>2, TakeOne
<1>6. EventOK(r2, h2) /\ Posted(r2, h2) = Added(Evs, e)
  BY <1>2, <1>3, PostedIs
<1>7. PICK s : s = Dropped(Queue[n])
  OBVIOUS
<1>8. BusOK' /\ Queue' = [Queue EXCEPT ![n] = s]
  BY <1>4, <1>5, <1>6, <1>7, QueueStep
<1>9. Evs' = Posted(r2, h2)
  BY <1>4 DEF Evs
<1> QED BY <1>6, <1>7, <1>8, <1>9

\* Rings and positions that keep all but the event ring's.
LEMMA QueueKept ==
  ASSUME BusOK, rings' = [m \in DOMAIN rings |-> rings'[m]], hw' = [m \in DOMAIN rings |-> hw'[m]],
         \A m \in DOMAIN rings \ {EventRing} : rings'[m] = rings[m] /\ hw'[m] = hw[m],
         EventOK(rings'[EventRing], hw'[EventRing])
  PROVE  BusOK' /\ Queue' = Queue
<1>1. DOMAIN rings' = DOMAIN rings /\ EventRing \in DOMAIN rings
  BY DEF BusOK
<1>2. BusOK'
  BY <1>1 DEF BusOK
<1>3. Queue' = [m \in DOMAIN rings \ {EventRing} |-> Queued(rings'[m], hw'[m])]
  BY <1>1 DEF Queue
<1> QED BY <1>2, <1>3 DEF Queue

\* An event without a TRB is posted behind those not yet seen.
LEMMA PostStep ==
  ASSUME BusOK, NEW e, Post(e, rings, hw)
  PROVE  BusOK' /\ Queue' = Queue /\ Evs' = Added(Evs, e)
<1>1. /\ rings = [m \in DOMAIN rings |-> rings[m]] /\ hw = [m \in DOMAIN rings |-> hw[m]]
      /\ EventRing \in DOMAIN rings
  BY DEF BusOK
<1>2. PICK r2, h2 : r2 = PostTo(rings[EventRing], hw[EventRing], e) /\ h2 = AfterPost(hw[EventRing])
  OBVIOUS
<1>3. /\ Room
      /\ rings' = [rings EXCEPT ![EventRing] = r2] /\ hw' = [hw EXCEPT ![EventRing] = h2]
  BY <1>1, <1>2 DEF Post
<1>4. /\ rings' = [m \in DOMAIN rings |-> rings'[m]] /\ hw' = [m \in DOMAIN rings |-> hw'[m]]
      /\ rings'[EventRing] = r2 /\ hw'[EventRing] = h2
      /\ \A m \in DOMAIN rings \ {EventRing} : rings'[m] = rings[m] /\ hw'[m] = hw[m]
  BY <1>1, <1>3
<1>5. EventOK(r2, h2) /\ Posted(r2, h2) = Added(Evs, e)
  BY <1>2, <1>3, PostedIs
<1>6. BusOK' /\ Queue' = Queue
  BY <1>4, <1>5, QueueKept
<1> QED BY <1>4, <1>5, <1>6 DEF Evs

\* The driver takes the first event.
LEMMA DequeuedIs ==
  ASSUME BusOK, Dequeuable(rings[EventRing])
  PROVE  /\ Len(Evs) > 0 /\ rings[EventRing].trb[rings[EventRing].idx] = Evs[1]
         /\ EventOK(dequeue_ring(rings[EventRing]), hw[EventRing])
         /\ Posted(dequeue_ring(rings[EventRing]), hw[EventRing]) = Dropped(Evs)
<1>1. PICK r, p : r = rings[EventRing] /\ p = hw[EventRing]
  OBVIOUS
<1>2. EventOK(r, p) /\ Dequeuable(r)
  BY <1>1 DEF BusOK
<1>3. Evs = Posted(r, p) /\ Len(Evs) = EventLoad(r, p)
  BY <1>1, QueueSeqs DEF Evs
<1>4. /\ EventLoad(r, p) > 0 /\ r.trb[r.idx] = Posted(r, p)[1]
      /\ EventOK(dequeue_ring(r), p)
      /\ Posted(dequeue_ring(r), p) = [j \in 1 .. EventLoad(r, p) - 1 |-> Posted(r, p)[j + 1]]
  BY <1>2, TakeEvent
<1> QED BY <1>1, <1>3, <1>4 DEF Dropped

\* The handler takes the first event; the other rings stay.
LEMMA DequeueStep ==
  ASSUME BusOK, Dequeuable(rings[EventRing]),
         rings' = [rings EXCEPT ![EventRing] = dequeue_ring(@)], hw' = hw
  PROVE  BusOK' /\ Queue' = Queue /\ Evs' = Dropped(Evs)
<1>1. /\ rings = [m \in DOMAIN rings |-> rings[m]] /\ hw = [m \in DOMAIN rings |-> hw[m]]
      /\ EventRing \in DOMAIN rings
  BY DEF BusOK
<1>2. PICK r2 : r2 = dequeue_ring(rings[EventRing])
  OBVIOUS
<1>3. /\ rings' = [m \in DOMAIN rings |-> rings'[m]] /\ hw' = [m \in DOMAIN rings |-> hw'[m]]
      /\ rings'[EventRing] = r2
      /\ \A m \in DOMAIN rings \ {EventRing} : rings'[m] = rings[m]
  BY <1>1, <1>2
<1>4. EventOK(r2, hw[EventRing]) /\ Posted(r2, hw[EventRing]) = Dropped(Evs)
  BY <1>2, DequeuedIs
<1>5. BusOK' /\ Queue' = Queue
  BY <1>3, <1>4, QueueKept
<1> QED BY <1>3, <1>4, <1>5 DEF Evs

\* It takes an event and puts the report's TRB on ring n again.
LEMMA RearmStep ==
  ASSUME BusOK, Dequeuable(rings[EventRing]), NEW n \in DOMAIN Queue, Queue[n] = <<>>,
         NEW t, t.type # "link",
         rings' = [rings EXCEPT ![EventRing] = dequeue_ring(@), ![n] = enqueue_ring(@, t)], hw' = hw
  PROVE  BusOK' /\ Queue' = [Queue EXCEPT ![n] = <<t>>] /\ Evs' = Dropped(Evs)
<1>1. /\ rings = [m \in DOMAIN rings |-> rings[m]] /\ hw = [m \in DOMAIN rings |-> hw[m]]
      /\ n \in DOMAIN rings /\ n # EventRing /\ EventRing \in DOMAIN rings
  BY BusFacts
<1>2. PICK r1, r2 : r1 = enqueue_ring(rings[n], t) /\ r2 = dequeue_ring(rings[EventRing])
  OBVIOUS
<1>3. /\ rings' = [m \in DOMAIN rings |-> rings'[m]] /\ hw' = [m \in DOMAIN rings |-> hw'[m]]
      /\ rings'[EventRing] = r2 /\ rings'[n] = r1
      /\ \A m \in DOMAIN rings \ {EventRing, n} : rings'[m] = rings[m]
  BY <1>1, <1>2
<1>4. RingOK(rings[n], hw[n]) /\ Queued(rings[n], hw[n]) = <<>>
  BY QueueSeqs
<1>5. RingOK(r1, hw[n]) /\ Queued(r1, hw[n]) = <<t>>
  BY <1>2, <1>4, EnqueueOne
<1>6. EventOK(r2, hw[EventRing]) /\ Posted(r2, hw[EventRing]) = Dropped(Evs)
  BY <1>2, DequeuedIs
<1>7. BusOK' /\ Queue' = [Queue EXCEPT ![n] = <<t>>]
  BY <1>3, <1>5, <1>6, QueueStep
<1> QED BY <1>3, <1>6, <1>7 DEF Evs

\* Rings made anew are empty.
LEMMA MakeStep ==
  ASSUME BusOK, NEW S,
         rings' = [n \in DOMAIN rings \cup S |-> IF n \in DOMAIN rings THEN rings[n] ELSE create_ring],
         hw' = [n \in DOMAIN hw \cup S |-> IF n \in DOMAIN hw THEN hw[n] ELSE StartPos]
  PROVE  /\ BusOK' /\ Evs' = Evs
         /\ EventRing \notin S =>
              Queue' = [n \in DOMAIN Queue \cup S |-> IF n \in DOMAIN Queue THEN Queue[n] ELSE <<>>]
<1>1. /\ DOMAIN hw = DOMAIN rings /\ EventRing \in DOMAIN rings
      /\ EventOK(rings[EventRing], hw[EventRing])
  BY DEF BusOK
<1>2. DOMAIN rings' = DOMAIN rings \cup S /\ DOMAIN hw' = DOMAIN rings \cup S
  BY <1>1
<1>3. rings'[EventRing] = rings[EventRing] /\ hw'[EventRing] = hw[EventRing]
  BY <1>1
<1>4. \A n \in DOMAIN rings' \ {EventRing} :
         /\ RingOK(rings'[n], hw'[n])
         /\ Queued(rings'[n], hw'[n]) = IF n \in DOMAIN rings THEN Queued(rings[n], hw[n]) ELSE <<>>
  BY <1>1, CreateRing DEF BusOK
<1>5. rings' = [n \in DOMAIN rings' |-> rings'[n]] /\ hw' = [n \in DOMAIN rings' |-> hw'[n]]
  BY <1>1
<1>6. BusOK'
  BY <1>1, <1>2, <1>3, <1>4, <1>5 DEF BusOK
<1>7. EventRing \notin S =>
        Queue' = [n \in DOMAIN Queue \cup S |-> IF n \in DOMAIN Queue THEN Queue[n] ELSE <<>>]
  <2> SUFFICES ASSUME EventRing \notin S
               PROVE  Queue' = [n \in DOMAIN Queue \cup S |-> IF n \in DOMAIN Queue THEN Queue[n] ELSE <<>>]
    OBVIOUS
  <2>1. DOMAIN Queue = DOMAIN rings \ {EventRing} /\ \A n \in DOMAIN Queue : Queue[n] = Queued(rings[n], hw[n])
    BY DEF Queue
  <2>2. Queue' = [n \in DOMAIN rings' \ {EventRing} |-> Queued(rings'[n], hw'[n])]
    BY DEF Queue
  <2>3. DOMAIN rings' \ {EventRing} = DOMAIN Queue \cup S
    BY <1>2, <2>1
  <2> QED BY <1>4, <2>1, <2>2, <2>3
<1> QED BY <1>3, <1>6, <1>7 DEF Evs

-----------------------------------------------------------------------------
(* Labels, requests and their rings.                                        *)

RequestLabels == CommandLabels \cup ControlLabels \cup BulkLabels

\* The two bulk endpoints, and slot 0, which no device has.
LEMMA IndexFacts == InIndex = 2 /\ OutIndex = 3 /\ 0 \notin Slots /\ Slots \subseteq Nat
BY XhciAssumption DEF InIndex, OutIndex, calculate_endpoint_index

\* Sequences with the same elements are the same.
LEMMA SameSeq ==
  ASSUME NEW T, NEW s \in Seq(T), NEW u \in Seq(T), NEW k \in Nat, Len(s) = k, Len(u) = k,
         \A i \in 1 .. k : s[i] = u[i]
  PROVE  s = u
<1>1. s = [i \in 1 .. k |-> s[i]] /\ u = [i \in 1 .. k |-> u[i]]
  OBVIOUS
<1> QED BY <1>1

\* A request's TRBs, put together.
LEMMA Concats ==
  ASSUME NEW a, NEW b, NEW c, NEW d
  PROVE  /\ <<a>> \o <<b>> \o <<c, d>> = <<a, b, c, d>>
         /\ <<a>> \o <<>> \o <<c, d>> = <<a, c, d>>
<1> DEFINE T == {a, b, c, d}
<1>1. <<a>> \in Seq(T) /\ <<b>> \in Seq(T) /\ <<c, d>> \in Seq(T) /\ <<>> \in Seq(T)
  OBVIOUS
<1>2. <<a>> \o <<b>> = <<a, b>>
  <2>1. Len(<<a>> \o <<b>>) = 2 /\ (<<a>> \o <<b>>)[1] = a /\ (<<a>> \o <<b>>)[2] = b
    BY <1>1
  <2>2. <<a>> \o <<b>> \in Seq(T)
    BY <1>1
  <2>3. <<a, b>> \in Seq(T) /\ Len(<<a, b>>) = 2 /\ <<a, b>>[1] = a /\ <<a, b>>[2] = b
    OBVIOUS
  <2>4. \A i \in 1 .. 2 : (<<a>> \o <<b>>)[i] = <<a, b>>[i]
    <3>1. \A i \in 1 .. 2 : i = 1 \/ i = 2
      OBVIOUS
    <3> QED BY <2>1, <2>3, <3>1
  <2> HIDE DEF T
  <2> QED BY <2>1, <2>2, <2>3, <2>4, SameSeq
<1>3. <<a>> \o <<>> = <<a>>
  <2>1. Len(<<a>> \o <<>>) = 1 /\ (<<a>> \o <<>>)[1] = a
    BY <1>1
  <2>2. <<a>> \o <<>> \in Seq(T)
    BY <1>1
  <2> QED BY <2>1, <2>2
<1>4. <<a, b>> \o <<c, d>> = <<a, b, c, d>>
  <2> DEFINE s == <<a, b>> \o <<c, d>>
  <2>1. <<a, b>> \in Seq(T)
    OBVIOUS
  <2>2. Len(s) = 4 /\ s[1] = a /\ s[2] = b /\ s[3] = c /\ s[4] = d
    BY <1>1, <2>1
  <2>3. s \in Seq(T)
    BY <1>1, <2>1
  <2> DEFINE u == <<a, b, c, d>>
  <2>4. u \in Seq(T) /\ Len(u) = 4 /\ u[1] = a /\ u[2] = b /\ u[3] = c /\ u[4] = d
    OBVIOUS
  <2>5. \A i \in 1 .. 4 : i = 1 \/ i = 2 \/ i = 3 \/ i = 4
    OBVIOUS
  <2> HIDE DEF s, u, T
  <2>6. \A i \in 1 .. 4 : s[i] = u[i]
    BY <2>2, <2>4, <2>5
  <2>7. s = u
    BY <2>2, <2>3, <2>4, <2>6, SameSeq
  <2> QED BY <2>7 DEF s, u
<1>5. <<a>> \o <<c, d>> = <<a, c, d>>
  <2> DEFINE s == <<a>> \o <<c, d>>
  <2>2. Len(s) = 3 /\ s[1] = a /\ s[2] = c /\ s[3] = d
    BY <1>1
  <2>3. s \in Seq(T)
    BY <1>1
  <2> DEFINE u == <<a, c, d>>
  <2>4. u \in Seq(T) /\ Len(u) = 3 /\ u[1] = a /\ u[2] = c /\ u[3] = d
    OBVIOUS
  <2>5. \A i \in 1 .. 3 : i = 1 \/ i = 2 \/ i = 3
    OBVIOUS
  <2> HIDE DEF s, u, T
  <2>6. \A i \in 1 .. 3 : s[i] = u[i]
    BY <2>2, <2>4, <2>5
  <2>7. s = u
    BY <2>2, <2>3, <2>4, <2>6, SameSeq
  <2> QED BY <2>7 DEF s, u
<1> QED BY <1>2, <1>3, <1>4, <1>5

\* The TRBs of every request fit a ring and are not links.
LEMMA RequestTrbs ==
  ASSUME NEW q \in RequestLabels
  PROVE  /\ \E k : IsRequest(TrbsOf(q), k)
         /\ q \notin ControlLabels => Len(TrbsOf(q)) = 1
         /\ q \in ControlLabels => TrbsOf(q) = make_request(q)
<1>1. CASE q \in CommandLabels
  <2>1. q \notin ControlLabels /\ q # "link"
    BY <1>1 DEF CommandLabels, ControlLabels
  <2>2. PICK t : t = CommandTrb(q)
    OBVIOUS
  <2>3. TrbsOf(q) = <<t>>
    BY <1>1, <2>2 DEF TrbsOf
  <2>4. t.type # "link"
    BY <2>1, <2>2 DEF CommandTrb
  <2>5. IsRequest(<<t>>, 1)
    BY <2>4 DEF IsRequest
  <2>6. Len(<<t>>) = 1
    OBVIOUS
  <2> QED BY <2>1, <2>3, <2>5, <2>6
<1>2. CASE q \in BulkLabels
  <2>1. q \notin ControlLabels /\ q \notin CommandLabels
    BY <1>2 DEF CommandLabels, ControlLabels, BulkLabels
  <2>2. PICK t : t = NormalTrb(BulkPage[q])
    OBVIOUS
  <2>3. TrbsOf(q) = <<t>>
    BY <2>1, <2>2 DEF TrbsOf
  <2>4. t.type # "link"
    BY <2>2 DEF NormalTrb
  <2>5. IsRequest(<<t>>, 1)
    BY <2>4 DEF IsRequest
  <2>6. Len(<<t>>) = 1
    OBVIOUS
  <2> QED BY <2>1, <2>3, <2>5, <2>6
<1>3. CASE q \in ControlLabels
  <2>1. q \notin CommandLabels
    BY <1>3 DEF CommandLabels, ControlLabels
  <2>2. TrbsOf(q) = make_request(q)
    BY <1>3, <2>1 DEF TrbsOf
  <2>3. PICK a, b, c, d : /\ a = [type |-> IF q \in WithData THEN "setup_in" ELSE "setup_none", ioc |-> FALSE]
                          /\ b = [type |-> "data_in", ioc |-> FALSE]
                          /\ c = [type |-> IF q \in WithData THEN "status_out" ELSE "status_in", ioc |-> FALSE]
                          /\ d = [type |-> "event_data", ioc |-> TRUE]
    OBVIOUS
  <2>4. a.type # "link" /\ b.type # "link" /\ c.type # "link" /\ d.type # "link"
    BY <2>3
  <2>5. CASE q \in WithData
    <3>1. make_request(q) = <<a>> \o <<b>> \o <<c, d>>
      BY <2>3, <2>5 DEF make_request
    <3>2. <<a>> \o <<b>> \o <<c, d>> = <<a, b, c, d>>
      BY Concats
    <3>3. IsRequest(<<a, b, c, d>>, 4)
      BY <2>4 DEF IsRequest
    <3> QED BY <1>3, <2>2, <3>1, <3>2, <3>3
  <2>6. CASE q \notin WithData
    <3>1. make_request(q) = <<a>> \o <<>> \o <<c, d>>
      BY <2>3, <2>6 DEF make_request
    <3>2. <<a>> \o <<>> \o <<c, d>> = <<a, c, d>>
      BY Concats
    <3>3. IsRequest(<<a, c, d>>, 3)
      BY <2>4 DEF IsRequest
    <3> QED BY <1>3, <2>2, <3>1, <3>2, <3>3
  <2> QED BY <2>5, <2>6
<1> QED BY <1>1, <1>2, <1>3 DEF RequestLabels

\* The parts of the invariant a request depends on.
SetUpInv == BusOK /\ RingsOK /\ SlotsOK /\ ScriptOK /\ DiskOK

\* A request's ring is there, its slot is not a keyboard's.
LEMMA RequestRing ==
  ASSUME SetUpInv, todo # <<>>, Now \in RequestLabels
  PROVE  /\ ReqRing \in DOMAIN Queue
         /\ Now # "enable_slot" => Target \in Slots /\ Target \notin Armed
         /\ \A s \in Armed : ReqRing # <<s, InIndex>>
<1> USE DEF SetUpInv, ReqRing
<1>1. Armed \subseteq Slots /\ 0 \notin Armed
  BY IndexFacts DEF Armed
<1>2. CASE Now \in CommandLabels
  <2>1. RingOf(Now) = CmdRing /\ Now \notin BulkLabels
    BY <1>2 DEF RingOf, CommandLabels, BulkLabels
  <2>2. Now # "enable_slot" => cur \in Slots /\ cur \notin Armed
    BY <1>2 DEF ScriptOK, CurLabels, Armed
  <2>3. \A s \in Armed : CmdRing # <<s, InIndex>>
    BY <1>1 DEF CmdRing
  <2> QED BY <2>1, <2>2, <2>3 DEF RingsOK, Target
<1>3. CASE Now \in ControlLabels
  <2>1. RingOf(Now) = <<cur, 0>> /\ Now \notin BulkLabels /\ Now # "enable_slot" /\ Now \in CurLabels
    BY <1>3 DEF RingOf, CommandLabels, ControlLabels, BulkLabels, CurLabels
  <2>2. cur \in Slots /\ cur \notin Armed
    BY <2>1 DEF ScriptOK, Armed
  <2>3. PICK g : g = (IF req.waiting /\ Answered THEN Reached(Now, Kind) ELSE Rank(Now, Kind)) /\ Stage(slots[cur], g, Kind)
    BY <2>1 DEF ScriptOK
  <2>4. g \in {3, 5}
    BY <1>3, <2>3 DEF Reached, Rank, ControlLabels
  <2>5. 0 \in slots[cur].eps
    BY <2>3, <2>4 DEF Stage, Ends
  <2>6. \A s \in Armed : <<cur, 0>> # <<s, InIndex>>
    BY IndexFacts
  <2> QED BY <2>1, <2>2, <2>5, <2>6 DEF RingsOK, Target
<1>4. CASE Now \in BulkLabels
  <2>1. RingOf(Now) = <<msd.slot, BulkRing(Now)>> /\ Now # "enable_slot"
    BY <1>4 DEF RingOf, CommandLabels, ControlLabels, BulkLabels
  <2>2. msd.slot \in Slots /\ slots[msd.slot].kind = "disk" /\ slots[msd.slot].eps = {0, InIndex, OutIndex}
    BY <1>4 DEF DiskOK, Stage, Ends
  <2>3. msd.slot \notin Armed
    BY <2>2 DEF SlotsOK
  <2>4. BulkRing(Now) \in {InIndex, OutIndex}
    BY DEF BulkRing
  <2> QED BY <1>4, <2>1, <2>2, <2>3, <2>4 DEF RingsOK, Target
<1> QED BY <1>2, <1>3, <1>4 DEF RequestLabels

\* Before a request is made nothing waits on its ring.
LEMMA RequestRingEmpty ==
  ASSUME SetUpInv, FlowOK, todo # <<>>, Now \in RequestLabels, ~req.waiting
  PROVE  Queue[ReqRing] = <<>>
BY RequestRing DEF FlowOK

-----------------------------------------------------------------------------
(* What a step that leaves the rings alone preserves.                       *)

\* What a request depends on is what it was.
RequestKept == todo' = todo /\ cur' = cur /\ msd' = msd /\ mem'.command = mem.command
\* Such a step leaves the request under way what it was.
LEMMA NowKept ==
  ASSUME RequestKept
  PROVE  Now' = Now /\ Target' = Target /\ ReqRing' = ReqRing /\ ReqTrbs' = ReqTrbs
<1>1. Now' = Now /\ Target' = Target
  BY DEF RequestKept, Now, Target
<1>2. ReqRing' = ReqRing
  BY <1>1 DEF RequestKept, ReqRing, RingOf, BulkRing
<1>3. ReqTrbs' = ReqTrbs
  BY <1>1 DEF RequestKept, ReqTrbs, TrbsOf, CommandTrb
<1> QED BY <1>1, <1>2, <1>3

\* The events that may answer it are the same too.
LEMMA RepliesKept ==
  ASSUME RequestKept, slots' = slots
  PROVE  Replies' = Replies
BY NowKept DEF Replies, Enabled

\* Rings, slots and the frame unchanged, and the request if there is one.
Quiet == /\ UNCHANGED <<rings, hw, slots, req, stages>>
         /\ req.waiting => RequestKept

\* Such a step keeps the traffic in order.
LEMMA QuietKeeps ==
  ASSUME TrafficOK, Quiet
  PROVE  TrafficOK'
<1>1. Queue' = Queue /\ Evs' = Evs /\ Armed' = Armed
  BY DEF Quiet, Queue, Evs, Armed
<1>2. BusOK' /\ SlotsOK'
  BY <1>1 DEF TrafficOK, Quiet, BusOK, SlotsOK
<1>3. RingsOK'
  BY <1>1 DEF TrafficOK, Quiet, RingsOK
<1>4. req' = req /\ slots' = slots /\ stages' = stages
  BY DEF Quiet
<1>5. CASE ~req.waiting
  <2>1. req = Idle /\ ~req.done
    BY <1>5 DEF TrafficOK, RequestOK, Idle
  <2>2. RequestOK'
    BY <1>4, <1>5, <2>1 DEF TrafficOK, RequestOK
  <2>3. StagesOK'
    BY <1>4, <1>5 DEF TrafficOK, StagesOK
  <2>4. FlowOK'
    BY <1>1, <1>4, <1>5 DEF TrafficOK, FlowOK
  <2>5. EventsOK'
    BY <1>1, <1>4, <1>5 DEF TrafficOK, EventsOK, KeyEvent, AnswerEvent, Owner
  <2> QED BY <1>2, <1>3, <2>2, <2>3, <2>4, <2>5 DEF TrafficOK
<1>6. CASE req.waiting
  <2>1. RequestKept /\ cur' = cur /\ todo' = todo
    BY <1>6 DEF Quiet, RequestKept
  <2>2. Now' = Now /\ Target' = Target /\ ReqRing' = ReqRing /\ ReqTrbs' = ReqTrbs /\ Replies' = Replies
    BY <1>4, <2>1, NowKept, RepliesKept
  <2>3. Answered' = Answered
    BY <1>1, <2>2 DEF Answered
  <2>4. RequestOK'
    BY <1>1, <1>4, <2>1, <2>2, <2>3 DEF TrafficOK, RequestOK
  <2>5. StagesOK'
    BY <1>1, <1>4, <2>1, <2>2 DEF TrafficOK, StagesOK
  <2>6. FlowOK'
    BY <1>1, <1>4, <2>2 DEF TrafficOK, FlowOK
  <2>7. EventsOK'
    BY <1>1, <1>4, <2>2, <2>3 DEF TrafficOK, EventsOK, KeyEvent, AnswerEvent, Owner
  <2> QED BY <1>2, <1>3, <2>4, <2>5, <2>6, <2>7 DEF TrafficOK
<1> QED BY <1>5, <1>6

\* With list, slots and answer as they were, so is the set-up.
LEMMA ScriptKept ==
  ASSUME ScriptOK, DiskOK, RequestKept, port' = port, slots' = slots,
         req'.waiting = req.waiting, req.waiting => Answered' = Answered
  PROVE  ScriptOK' /\ DiskOK'
<1>1. Now' = Now /\ Kind' = Kind
  BY NowKept DEF Kind
<1>2. ScriptOK'
  BY <1>1 DEF ScriptOK, RequestKept
<1>3. DiskOK'
  BY <1>1 DEF DiskOK, RequestKept
<1> QED BY <1>2, <1>3

\* Steps of devfs and of the virtio disk do not touch the USB side.
LEMMA OthersKeep ==
  ASSUME UsbInv, UNCHANGED <<busVars, drvVars>>, msd' = msd, mem' = mem
  PROVE  TrafficOK' /\ ScriptOK' /\ DiskOK' /\ SideOK'
<1>1. TrafficOK /\ ScriptOK /\ DiskOK /\ SideOK
  BY DEF UsbInv
<1>2. Quiet /\ RequestKept /\ port' = port /\ slots' = slots /\ req' = req
  BY DEF busVars, drvVars, Quiet, RequestKept
<1>3. TrafficOK'
  BY <1>1, <1>2, QuietKeeps
<1>4. Answered' = Answered
  BY <1>2, NowKept DEF Answered, Queue, Quiet
<1>5. ScriptOK' /\ DiskOK'
  BY <1>1, <1>2, <1>4, ScriptKept
<1>6. SideOK'
  BY <1>1 DEF SideOK, busVars, drvVars
<1> QED BY <1>3, <1>5, <1>6

-----------------------------------------------------------------------------
(* The list of requests.                                                    *)

\* What is left of a list after its first entry.
LEMMA LinkedTail ==
  ASSUME NEW t, NEW k, Linked(t, k), t # <<>>
  PROVE  /\ Linked(Tail(t), k) /\ Head(t) \in Labels /\ Len(t) \in Nat \ {0}
         /\ Tail(t) # <<>> => Follows(k, Head(t), Head(Tail(t))) /\ Tail(t)[Len(Tail(t))] = t[Len(t)]
         /\ Tail(t) = <<>> => Head(t) \in Final /\ Len(t) = 1
<1>1. t \in Seq(Labels) /\ Len(t) \in Nat \ {0} /\ Head(t) = t[1] /\ Head(t) \in Labels
  BY DEF Linked
<1>2. Tail(t) \in Seq(Labels) /\ Len(Tail(t)) = Len(t) - 1 /\ \A i \in 1 .. Len(t) - 1 : Tail(t)[i] = t[i + 1]
  BY <1>1
<1>3. t[Len(t)] \in Final /\ \A i \in 1 .. Len(t) - 1 : Follows(k, t[i], t[i + 1])
  BY DEF Linked
<1>4. PICK u, n, m : u = Tail(t) /\ n = Len(t) /\ m = Len(Tail(t))
  OBVIOUS
<1>5. n \in Nat \ {0} /\ m = n - 1 /\ \A i \in 1 .. n - 1 : u[i] = t[i + 1] /\ Follows(k, t[i], t[i + 1])
  BY <1>1, <1>2, <1>3, <1>4
<1>6. ASSUME NEW i \in 1 .. m - 1
      PROVE  Follows(k, u[i], u[i + 1])
  <2>1. i \in 1 .. n - 1 /\ i + 1 \in 1 .. n - 1
    BY <1>5
  <2>2. u[i] = t[i + 1] /\ u[i + 1] = t[i + 1 + 1] /\ Follows(k, t[i + 1], t[i + 1 + 1])
    BY <1>5, <2>1
  <2> QED BY <2>2
<1>7. u # <<>> => m # 0
  BY <1>2, <1>4
<1>8. u = <<>> => m = 0
  BY <1>2, <1>4
<1>9. m # 0 => 1 \in 1 .. n - 1 /\ m \in 1 .. n - 1 /\ m + 1 = n /\ 1 + 1 = 2
  BY <1>5
<1>10. m # 0 => u[1] = t[2] /\ u[m] = t[n] /\ Follows(k, t[1], t[2])
  BY <1>5, <1>9
<1>11. m = 0 => n = 1
  BY <1>5
<1>12. Linked(u, k)
  BY <1>2, <1>3, <1>4, <1>6, <1>7, <1>10 DEF Linked
<1>13. u # <<>> => Follows(k, Head(t), Head(u)) /\ u[m] = t[n]
  BY <1>1, <1>7, <1>10
<1>14. u = <<>> => Head(t) \in Final /\ n = 1
  BY <1>1, <1>3, <1>4, <1>8, <1>11
<1> QED BY <1>1, <1>4, <1>12, <1>13, <1>14

\* A list that starts with one of these is no longer than that.
LEMMA LinkedLast ==
  ASSUME NEW t, NEW k, Linked(t, k), t # <<>>, Head(t) \in {"config", "register", "arm_keyboard"}
  PROVE  Tail(t) = <<>> /\ t = <<Head(t)>>
<1>1. Tail(t) = <<>>
  BY LinkedTail DEF Follows
<1>2. t \in Seq(Labels) /\ Head(t) \in Labels /\ Len(t) = 1
  BY <1>1, LinkedTail DEF Linked
<1>3. Head(t) = t[1]
  BY <1>2
<1>4. PICK h : h = Head(t)
  OBVIOUS
<1>5. <<h>> \in Seq(Labels) /\ Len(<<h>>) = 1 /\ \A i \in 1 .. 1 : t[i] = <<h>>[i]
  BY <1>2, <1>3, <1>4
<1>6. t = <<h>>
  BY <1>2, <1>3, <1>5, SameSeq
<1> QED BY <1>1, <1>4, <1>6

\* The lists the drivers make.
LEMMA LinkedScripts ==
  /\ \A k : Linked(<<>>, k) /\ Linked(SetUpScript, k)
            /\ Linked(<<"cbw", "data", "csw">>, k) /\ Linked(<<"cbw", "data", "csw", "register">>, k)
            /\ Linked(<<"register">>, k)
  /\ Linked(initialise_msd, "disk") /\ Linked(initialise_keyboard, "keyboard")
<1> USE DEF Labels, CommandLabels, ControlLabels, BulkLabels
<1>1. ASSUME NEW k PROVE Linked(<<>>, k)
  BY DEF Linked, Final
<1>2. ASSUME NEW k PROVE Linked(SetUpScript, k)
  <2>1. SetUpScript \in Seq(Labels) /\ Len(SetUpScript) = 8
    BY DEF SetUpScript
  <2>2. \A i \in 1 .. 8 : i \in {1, 2, 3, 4, 5, 6, 7, 8}
    OBVIOUS
  <2> QED BY <2>1, <2>2 DEF Linked, Final, Follows, SetUpScript, Following
<1>3. ASSUME NEW k PROVE Linked(<<"cbw", "data", "csw">>, k)
  <2>1. \A i \in 1 .. 3 : i \in {1, 2, 3}
    OBVIOUS
  <2> QED BY <2>1 DEF Linked, Final, Follows, Following
<1>4. ASSUME NEW k PROVE Linked(<<"cbw", "data", "csw", "register">>, k)
  <2>1. \A i \in 1 .. 4 : i \in {1, 2, 3, 4}
    OBVIOUS
  <2> QED BY <2>1 DEF Linked, Final, Follows, Following
<1>5. Linked(initialise_msd, "disk")
  <2>1. initialise_msd \in Seq(Labels) /\ Len(initialise_msd) = 5
    BY DEF initialise_msd
  <2>2. \A i \in 1 .. 5 : i \in {1, 2, 3, 4, 5}
    OBVIOUS
  <2> QED BY <2>1, <2>2 DEF Linked, Final, Follows, initialise_msd, Following
<1>6. Linked(initialise_keyboard, "keyboard")
  <2>1. initialise_keyboard \in Seq(Labels) /\ Len(initialise_keyboard) = 5
    BY DEF initialise_keyboard
  <2>2. \A i \in 1 .. 5 : i \in {1, 2, 3, 4, 5}
    OBVIOUS
  <2> QED BY <2>1, <2>2 DEF Linked, Final, Follows, initialise_keyboard, Following
<1>7. ASSUME NEW k PROVE Linked(<<"register">>, k)
  BY DEF Linked, Final
<1> QED BY <1>1, <1>2, <1>3, <1>4, <1>5, <1>6, <1>7

\* Three bulk transfers before what is left of the list.
LEMMA BulkLists ==
  /\ <<"cbw", "data", "csw">> \o <<>> = <<"cbw", "data", "csw">>
  /\ <<"cbw", "data", "csw">> \o <<"register">> = <<"cbw", "data", "csw", "register">>
  /\ <<"cbw", "data", "csw", "register">>[Len(<<"cbw", "data", "csw", "register">>)] = "register"
  /\ Head(<<"cbw", "data", "csw">>) = "cbw" /\ Head(<<"cbw", "data", "csw", "register">>) = "cbw"
  /\ <<"cbw", "data", "csw">> # <<>> /\ <<"cbw", "data", "csw", "register">> # <<>>
  /\ <<"register">>[Len(<<"register">>)] = "register" /\ Head(<<"register">>) = "register" /\ <<"register">> # <<>>
  /\ Tail(<<"register">>) = <<>>
<1>1. <<"cbw", "data", "csw">> \o <<>> = <<"cbw", "data", "csw">>
  OBVIOUS
<1>2. <<"cbw", "data", "csw">> \o <<"register">> = <<"cbw", "data", "csw", "register">>
  <2> DEFINE s == <<"cbw", "data", "csw">> \o <<"register">>
             u == <<"cbw", "data", "csw", "register">>
  <2>1. s \in Seq(Labels) /\ u \in Seq(Labels) /\ Len(s) = 4 /\ Len(u) = 4
    BY DEF Labels, BulkLabels
  <2>2. \A i \in 1 .. 4 : i \in {1, 2, 3, 4}
    OBVIOUS
  <2>3. \A i \in 1 .. 4 : s[i] = u[i]
    BY <2>2
  <2> HIDE DEF s, u
  <2>4. s = u
    BY <2>1, <2>3, SameSeq
  <2> QED BY <2>4 DEF s, u
<1>3. /\ <<"cbw", "data", "csw", "register">>[Len(<<"cbw", "data", "csw", "register">>)] = "register"
      /\ Head(<<"cbw", "data", "csw">>) = "cbw" /\ Head(<<"cbw", "data", "csw", "register">>) = "cbw"
      /\ <<"cbw", "data", "csw">> # <<>> /\ <<"cbw", "data", "csw", "register">> # <<>>
      /\ <<"register">>[Len(<<"register">>)] = "register" /\ Head(<<"register">>) = "register" /\ <<"register">> # <<>>
  OBVIOUS
<1>4. Tail(<<"register">>) = <<>>
  OBVIOUS
<1> QED BY <1>1, <1>2, <1>3, <1>4

-----------------------------------------------------------------------------
(* The driver's steps between requests.                                     *)

\* The next port.
LEMMA SetUpPortKeeps ==
  ASSUME UsbInv, set_up_port, XhciRest, UsbRest, backend = "usb", fs.st = "idle"
  PROVE  UsbInv'
<1>1. /\ todo = <<>> /\ ~req.waiting /\ port + 1 \in Ports /\ port' = port + 1 /\ msd' = msd
      /\ UNCHANGED <<rings, hw, stages, slots, req, cur, stale, mem, blk, backend, fs>>
      /\ \/ Plugged[port + 1] = "none" /\ todo' = todo /\ changes' = changes
         \/ Plugged[port + 1] # "none" /\ todo' = SetUpScript /\ changes' = changes + 1
  BY DEF set_up_port, XhciRest, UsbRest, usbVars, fsVars
<1>2. TrafficOK'
  BY <1>1, QuietKeeps DEF UsbInv, Quiet
<1>3. SetUpScript # <<>> /\ Head(SetUpScript) = "enable_slot"
  BY DEF SetUpScript
<1>4. todo' # <<>> => Now' = "enable_slot" /\ Kind' \in {"disk", "keyboard"} /\ port' \in Ports
  BY <1>1, <1>3, XhciAssumption DEF Now, Kind
<1>5. "enable_slot" \notin CurLabels /\ "enable_slot" \notin BulkLabels
  BY DEF CurLabels, CommandLabels, ControlLabels, BulkLabels
<1>6. Linked(todo', Kind')
  BY <1>1, LinkedScripts
<1>7. ScriptOK'
  BY <1>4, <1>5, <1>6 DEF ScriptOK
<1>8. DiskOK'
  BY <1>1, <1>4, <1>5 DEF UsbInv, DiskOK
<1>9. CallOK'
  BY <1>1, <1>4, <1>5 DEF UsbInv, CallOK
<1>10. SideOK'
  BY <1>1 DEF UsbInv, SideOK
<1> QED BY <1>2, <1>7, <1>8, <1>9, <1>10 DEF UsbInv

\* READ CAPACITY is put together.
LEMMA ReadCapacityKeeps ==
  ASSUME UsbInv, read_capacity, UsbRest, backend = "usb"
  PROVE  UsbInv'
<1>1. /\ todo # <<>> /\ ~req.waiting /\ Now = "capacity" /\ msd' = [slot |-> cur, last |-> -1]
      /\ UNCHANGED <<rings, hw, stages, slots, req, cur, port, stale, changes, blk, backend, fs>>
      /\ todo' = <<"cbw", "data", "csw">> \o Tail(todo) /\ mem'.command.op = "capacity"
      /\ DOMAIN mem' = {"command", "response", "status"}
  BY DEF read_capacity, UsbRest, busVars, fsVars, Now
<1>2. TrafficOK'
  BY <1>1, QuietKeeps DEF UsbInv, Quiet
<1>3. Linked(todo, Kind) /\ "capacity" \in CurLabels /\ "capacity" \notin Final /\ "capacity" \in Labels
  BY DEF UsbInv, ScriptOK, CurLabels, Final, Labels
<1>4. Tail(todo) # <<>> /\ Head(Tail(todo)) = "register" /\ Linked(Tail(todo), Kind)
  <2>1. Tail(todo) # <<>> /\ Linked(Tail(todo), Kind) /\ Head(Tail(todo)) = Following(Kind)["capacity"]
    BY <1>1, <1>3, LinkedTail DEF Now, Follows
  <2> QED BY <1>3, <2>1 DEF Following
<1>5. Tail(todo) = <<"register">>
  BY <1>4, LinkedLast
<1>6. todo' = <<"cbw", "data", "csw", "register">> /\ Now' = "cbw" /\ todo' # <<>> /\ todo'[Len(todo')] = "register"
  BY <1>1, <1>5, BulkLists DEF Now
<1>7. /\ "cbw" \notin CurLabels /\ "cbw" # "enable_slot"
  BY DEF CurLabels, CommandLabels, ControlLabels
<1>8. ScriptOK'
  <2>1. Linked(todo', Kind')
    BY <1>6, LinkedScripts
  <2> QED BY <1>6, <1>7, <2>1 DEF ScriptOK
<1>9. cur \in Slots /\ slots[cur].kind = "disk" /\ Stage(slots[cur], 5, "disk")
  <2>1. /\ cur \in Slots /\ slots[cur].kind = Kind /\ Kind = "disk"
        /\ Stage(slots[cur], Rank(Now, Kind), Kind)
    BY <1>1, <1>3 DEF UsbInv, ScriptOK
  <2>2. Rank(Now, Kind) = 5
    BY <1>1 DEF Rank
  <2> QED BY <2>1, <2>2
<1>10. DiskOK'
  BY <1>1, <1>6, <1>9, IndexFacts DEF DiskOK
<1>11. todo # <<"register">>
  BY <1>1, BulkLists DEF Now
<1>12. CallOK'
  BY <1>1, <1>6, <1>11 DEF UsbInv, CallOK
<1>13. SideOK'
  BY <1>1 DEF UsbInv, SideOK
<1> QED BY <1>2, <1>8, <1>10, <1>12, <1>13 DEF UsbInv

\* devfs calls the driver.
LEMMA BlockCallKeeps ==
  ASSUME UsbInv, block_call, UsbRest, backend = "usb"
  PROVE  UsbInv'
<1>1. /\ ~req.waiting /\ blk.st = "call" /\ msd.last >= 0
      /\ UNCHANGED <<rings, hw, stages, slots, req, cur, port, stale, changes, msd, backend, fs>>
      /\ \/ todo' = todo /\ mem' = mem
         \/ todo' = <<"cbw", "data", "csw">> \o todo /\ DOMAIN mem' = {"command", "response", "status"}
      /\ blk' = [blk EXCEPT !.st = "busy"]
  BY DEF block_call, Command, Accept, UsbRest, busVars, fsVars
<1>2. TrafficOK'
  BY <1>1, QuietKeeps DEF UsbInv, Quiet
<1>3. todo = <<>> \/ todo = <<"register">>
  BY <1>1 DEF UsbInv, CallOK
<1>4. \/ todo' = <<>> \/ todo' = <<"register">>
      \/ todo' = <<"cbw", "data", "csw">> \/ todo' = <<"cbw", "data", "csw", "register">>
  BY <1>1, <1>3, BulkLists
<1>5. todo' = <<>> \/ Now' \in {"register", "cbw"}
  BY <1>4, BulkLists DEF Now
<1>6. Kind' = Kind /\ {"register", "cbw"} \cap (CurLabels \cup {"enable_slot"}) = {} /\ "register" \notin BulkLabels
  BY <1>1 DEF Kind, CurLabels, CommandLabels, ControlLabels, BulkLabels
<1>7. ScriptOK'
  <2>1. Linked(todo', Kind')
    BY <1>4, LinkedScripts
  <2> QED BY <1>5, <1>6, <2>1 DEF ScriptOK
<1>8. msd.slot # 0
  BY <1>1 DEF UsbInv, DiskOK
<1>9. DiskOK'
  BY <1>1, <1>5, <1>6, <1>8 DEF UsbInv, DiskOK
<1>10. CallOK'
  <2>1. blk'.st \in {"call", "done", "idle"} => FALSE
    BY <1>1 DEF UsbInv, CallOK
  <2>2. fs.st \notin {"idle", "loop"}
    BY <1>1 DEF UsbInv, CallOK
  <2>3. fs.st = "table" => todo' # <<>> /\ todo'[Len(todo')] = "register"
    BY <1>1, <1>3, BulkLists DEF UsbInv, CallOK
  <2> QED BY <1>1, <2>1, <2>2, <2>3 DEF CallOK
<1>11. SideOK'
  BY <1>1 DEF UsbInv, SideOK
<1> QED BY <1>2, <1>7, <1>9, <1>10, <1>11 DEF UsbInv

\* A driver that is done has its disk entered.
LEMMA RegisterKeeps ==
  ASSUME UsbInv, Register
  PROVE  UsbInv'
<1>1. /\ UNCHANGED <<rings, hw, stages, slots, req, cur, port, stale, changes, msd, mem, backend>>
      /\ \/ fs_dev_add_block_device /\ todo' = todo /\ (backend = "virtio" \/ (todo # <<>> /\ Now = "register"))
         \/ device_added /\ todo' = IF backend = "virtio" THEN todo ELSE Tail(todo)
  BY DEF Register, busVars, usbVars, Now
<1>3. CASE fs_dev_add_block_device /\ todo' = todo /\ (backend = "virtio" \/ (todo # <<>> /\ Now = "register"))
  <2>1. todo = <<>> \/ todo = <<"register">>
    BY <1>3, LinkedLast DEF UsbInv, ScriptOK, CallOK, Now
  <2>2. UNCHANGED <<busVars, drvVars>>
    BY <1>3 DEF Register, busVars, drvVars
  <2>3. TrafficOK' /\ ScriptOK' /\ DiskOK' /\ SideOK'
    BY <1>1, <2>2, OthersKeep
  <2>4. backend = "usb" \/ backend # "usb"
    OBVIOUS
  <2>5. blk'.st = "call" /\ fs'.st = "table"
    BY <1>3 DEF fs_dev_add_block_device, Call
  <2>6. CallOK'
    <3>1. todo' # <<>> => todo'[Len(todo')] = "register" /\ Now' = "register"
      BY <1>3, <2>1, BulkLists DEF Now
    <3>2. "register" \notin BulkLabels
      BY DEF BulkLabels
    <3>3. backend' = "usb" => todo' # <<>>
      BY <1>1, <1>3
    <3>4. backend' = "virtio" => todo' = <<>>
      BY <1>1, <1>3 DEF UsbInv, CallOK
    <3>5. backend' \in {"usb", "virtio"}
      BY <1>1 DEF UsbInv, CallOK
    <3> QED BY <1>3, <2>1, <2>5, <3>1, <3>2, <3>3, <3>4, <3>5 DEF CallOK
  <2> QED BY <2>3, <2>6 DEF UsbInv
<1>4. CASE device_added /\ todo' = IF backend = "virtio" THEN todo ELSE Tail(todo)
  <2>1. blk.st = "done" /\ blk'.st = "idle" /\ fs'.st = "idle" /\ fs.st = "table"
    BY <1>4 DEF device_added, NoCall, IdleFs
  <2>2. todo = <<>> \/ todo = <<"register">>
    BY <2>1 DEF UsbInv, CallOK
  <2>3. todo' = <<>> \/ (backend # "virtio" /\ todo = <<>> /\ todo' = Tail(todo))
    BY <1>4, <2>2, BulkLists DEF UsbInv, CallOK
  <2>4. req.waiting => todo # <<>> /\ Now \in CommandLabels \cup ControlLabels \cup BulkLabels
    BY DEF UsbInv, TrafficOK, RequestOK
  <2>5. ~req.waiting
    BY <2>2, <2>4, BulkLists DEF Now, CommandLabels, ControlLabels, BulkLabels
  <2>6. TrafficOK'
    BY <1>1, <2>5, QuietKeeps DEF UsbInv, Quiet
  <2>7. todo' = <<>>
    <3>1. backend = "usb" => todo # <<>>
      BY <2>1 DEF UsbInv, CallOK
    <3>2. backend \in {"usb", "virtio"}
      BY DEF UsbInv, CallOK
    <3> QED BY <2>3, <3>1, <3>2
  <2>8. ScriptOK'
    BY <2>7, LinkedScripts DEF ScriptOK
  <2>9. DiskOK'
    BY <1>1, <2>7 DEF UsbInv, DiskOK
  <2>10. CallOK'
    BY <1>1, <2>1, <2>7 DEF UsbInv, CallOK
  <2>11. SideOK'
    BY <1>1 DEF UsbInv, SideOK
  <2> QED BY <2>6, <2>8, <2>9, <2>10, <2>11 DEF UsbInv
<1> QED BY <1>1, <1>3, <1>4

\* devfs and the virtio disk.
LEMMA FsKeeps ==
  ASSUME UsbInv, Ask \/ FsKernel \/ VirtioKernel \/ VirtioDevice
  PROVE  UsbInv'
<1>1. UNCHANGED <<busVars, drvVars>> /\ msd' = msd /\ mem' = mem /\ backend' = backend
  BY DEF Ask, FsKernel, VirtioKernel, VirtioDevice, usbVars
<1>2. TrafficOK' /\ ScriptOK' /\ DiskOK' /\ SideOK'
  BY <1>1, OthersKeep
<1>3. todo' = todo
  BY <1>1 DEF drvVars
<1>4. Now' = Now /\ "register" \notin BulkLabels
  BY <1>3 DEF Now, BulkLabels
<1>5. CASE Ask \/ FsKernel
  <2>1. \/ blk' = blk /\ fs.st \in {"idle", "loop"} /\ fs'.st \in {"idle", "loop"} /\ todo = <<>>
        \/ blk' = blk /\ fs.st = "loop" /\ fs'.st \in {"idle", "loop"}
        \/ fs.st = "loop" /\ blk'.st = "call" /\ fs'.st \in {"fill", "modify"}
        \/ blk.st = "done" /\ blk'.st = "idle" /\ fs'.st = "loop"
        \/ blk.st = "done" /\ blk'.st = "call" /\ fs'.st = "put"
    <3>1. CASE Ask
      BY <3>1 DEF Ask, Started, blockdev_file
    <3>2. CASE FsKernel
      <4>1. CASE read_cached
        BY <4>1 DEF read_cached, InLoop, CopyOut, Advance
      <4>2. CASE read_uncached
        BY <4>2 DEF read_uncached, InLoop, Call
      <4>3. CASE filled
        BY <4>3 DEF filled, CopyOut, Advance, NoCall
      <4>4. CASE read_before_write
        BY <4>4 DEF read_before_write, InLoop, Call
      <4>5. CASE modify
        BY <4>5 DEF modify, Call
      <4>6. CASE written
        BY <4>6 DEF written, Advance, NoCall
      <4>7. CASE file_return
        BY <4>7 DEF file_return, IdleFs
      <4> QED BY <3>2, <4>1, <4>2, <4>3, <4>4, <4>5, <4>6, <4>7 DEF FsKernel, FsDevStep
    <3> QED BY <1>5, <3>1, <3>2
  <2>2. todo = <<>> \/ todo = <<"register">>
    BY <2>1 DEF UsbInv, CallOK
  <2>3. ~(todo' # <<>> /\ Now' \in BulkLabels)
    BY <1>3, <1>4, <2>2, BulkLists DEF Now
  <2>4. backend' = "virtio" => todo' = <<>>
    BY <1>1, <1>3 DEF UsbInv, CallOK
  <2>5. fs'.st \in {"idle", "loop"} => blk'.st = "idle"
    BY <2>1 DEF UsbInv, CallOK
  <2>6. fs'.st # "table"
    BY <2>1
  <2>7. CallOK'
    BY <1>1, <1>3, <2>2, <2>3, <2>4, <2>5, <2>6 DEF UsbInv, CallOK
  <2> QED BY <1>2, <2>7 DEF UsbInv
<1>6. CASE VirtioKernel \/ VirtioDevice
  <2>1. backend = "virtio" /\ fs' = fs
    BY <1>6 DEF VirtioKernel, VirtioDevice, fsVars
  <2>2. todo' = <<>>
    BY <1>3, <2>1 DEF UsbInv, CallOK
  <2>3. fs'.st \in {"idle", "loop"} => blk'.st = "idle"
    <3>1. blk.st = "call" \/ blk.st = "busy" \/ blk' = blk
      BY <1>6 DEF VirtioKernel, VirtioDevice, virtio_block_call, virtio_poll, VirtioFetch, VirtioServe, VirtioUsed
    <3> QED BY <2>1, <3>1 DEF UsbInv, CallOK
  <2> QED BY <1>1, <1>2, <2>1, <2>2, <2>3 DEF UsbInv, CallOK
<1> QED BY <1>5, <1>6

-----------------------------------------------------------------------------
(* A request is put on its ring.                                            *)

\* Slots that differ only in where their events go.
SameDevice(a, b) == /\ a.state = b.state /\ a.kind = b.kind /\ a.running = b.running
                    /\ a.eps = b.eps /\ a.entries = b.entries

\* They are equally far.
LEMMA SameStage ==
  ASSUME NEW a, NEW b, SameDevice(a, b), NEW g, NEW k, Stage(a, g, k)
  PROVE  Stage(b, g, k)
BY DEF SameDevice, Stage

\* Stages are numbered 1 to 5, and at each the slot is in use.
LEMMA StageFacts ==
  /\ \A q, k : Rank(q, k) \in 1 .. 5 /\ Reached(q, k) \in 1 .. 5
  /\ \A s, g, k : g \in 1 .. 5 /\ Stage(s, g, k) => s.state # "off" /\ 0 \in s.eps
<1>1. \A q, k : Rank(q, k) \in 1 .. 5 /\ Reached(q, k) \in 1 .. 5
  BY DEF Rank, Reached
<1>2. ASSUME NEW s, NEW g \in 1 .. 5, NEW k, Stage(s, g, k)
      PROVE  s.state # "off" /\ 0 \in s.eps
  <2>1. g \in {1, 2, 3, 4, 5} /\ 0 \in Ends(k)
    BY DEF Ends
  <2> QED BY <1>2, <2>1 DEF Stage
<1> QED BY <1>1, <1>2

\* Pointing a slot at the frame.
LEMMA PointedSlots ==
  ASSUME SlotsOK, NEW s \in Slots \cup {0}, NEW h \in {"to_slot_0", "copy", "packet_recv", "null"},
         NEW d \in {"null", "frame", "dead", "keyboard"},
         slots' = [slots EXCEPT ![s].data = d, ![s].handler = h]
  PROVE  /\ slots' \in [Slots \cup {0} -> SlotType]
         /\ slots'[s].data = d /\ slots'[s].handler = h
         /\ \A t \in (Slots \cup {0}) \ {s} : slots'[t] = slots[t]
         /\ \A t \in Slots \cup {0} : SameDevice(slots[t], slots'[t])
<1>1. PICK a : a = slots[s]
  OBVIOUS
<1>2. slots \in [Slots \cup {0} -> SlotType] /\ a \in SlotType
  BY <1>1 DEF SlotsOK
<1>3. PICK b : b = [a EXCEPT !.data = d, !.handler = h]
  OBVIOUS
<1>4. b \in SlotType /\ b.data = d /\ b.handler = h /\ SameDevice(a, b)
  BY <1>2, <1>3 DEF SlotType, SameDevice
<1>5. slots' = [slots EXCEPT ![s] = b]
  BY <1>1, <1>2, <1>3
<1>6. slots'[s] = b /\ \A t \in (Slots \cup {0}) \ {s} : slots'[t] = slots[t]
  BY <1>2, <1>5
<1>7. slots' \in [Slots \cup {0} -> SlotType]
  BY <1>2, <1>4, <1>5
<1>8. \A t \in Slots \cup {0} : SameDevice(slots[t], slots'[t])
  BY <1>1, <1>4, <1>6 DEF SameDevice
<1> QED BY <1>4, <1>6, <1>7, <1>8

\* The last TRBs of a request, all of them, and the stages taken then.
LEMMA RestAll ==
  ASSUME NEW m, NEW k, IsRequest(m, k)
  PROVE  Len(m) \in 1 .. 4 /\ m # <<>> /\ Rest(m, Len(m)) = m /\ StagesOf(m, Len(m)) = <<>>
<1>1. k \in 1 .. 4 /\ k = Len(m) /\ m = [j \in 1 .. k |-> m[j]]
  BY DEF IsRequest
<1>2. m # <<>>
  BY <1>1
<1>3. Rest(m, k) = m
  <2>1. Rest(m, k) = [j \in 1 .. k |-> m[k - k + j]]
    BY <1>1 DEF Rest
  <2>2. \A j \in 1 .. k : k - k + j = j
    BY <1>1
  <2>3. [j \in 1 .. k |-> m[k - k + j]] = [j \in 1 .. k |-> m[j]]
    BY <2>2
  <2> QED BY <1>1, <2>1, <2>3
<1>4. StagesOf(m, k) = <<>>
  <2>1. StagesOf(m, k) = [i \in 1 .. k - k |-> m[i].type]
    BY <1>1 DEF StagesOf
  <2>2. 1 .. k - k = {}
    BY <1>1
  <2> QED BY <2>1, <2>2
<1> QED BY <1>1, <1>2, <1>3, <1>4

\* What sending a request does, whichever it is.
Aimed == IF Now = "enable_slot" THEN 0 ELSE Target
Sends == /\ ~req.waiting /\ todo # <<>> /\ Now \in RequestLabels
         /\ rings' = [rings EXCEPT ![ReqRing] = EnqueueAll(@, ReqTrbs)]
         /\ slots' = [slots EXCEPT ![Aimed].data = "frame",
                                   ![Aimed].handler = IF Aimed = 0 THEN "to_slot_0" ELSE "copy"]
         /\ req' = [Idle EXCEPT !.waiting = TRUE]
         /\ UNCHANGED <<hw, changes, stages, todo, cur, port, stale, msd, mem, blk, backend, fs>>

\* A request sent is the one waited for, nothing of it answered.
LEMMA SendsKeeps ==
  ASSUME UsbInv, Sends
  PROVE  UsbInv' /\ ~Answered' /\ req'.waiting
<1>1. /\ BusOK /\ RingsOK /\ SlotsOK /\ RequestOK /\ StagesOK /\ FlowOK /\ EventsOK
      /\ ScriptOK /\ DiskOK /\ CallOK /\ SideOK /\ SetUpInv
  BY DEF UsbInv, TrafficOK, SetUpInv
<1>2. /\ ~req.waiting /\ todo # <<>> /\ Now \in RequestLabels /\ todo' = todo /\ cur' = cur /\ port' = port
      /\ stages' = stages /\ msd' = msd /\ mem' = mem
  BY DEF Sends
<1>3. RequestKept
  BY <1>2 DEF RequestKept
<1>4. Now' = Now /\ Target' = Target /\ ReqRing' = ReqRing /\ ReqTrbs' = ReqTrbs /\ Kind' = Kind
  BY <1>2, <1>3, NowKept DEF Kind
<1>5. /\ ReqRing \in DOMAIN Queue
      /\ Now # "enable_slot" => Target \in Slots /\ Target \notin Armed
      /\ \A s \in Armed : ReqRing # <<s, InIndex>>
  BY <1>1, <1>2, RequestRing
<1>6. Queue[ReqRing] = <<>>
  BY <1>1, <1>2, RequestRingEmpty
<1>7. PICK n, m, k : n = ReqRing /\ m = ReqTrbs /\ IsRequest(m, k)
  BY <1>2, RequestTrbs DEF ReqTrbs
<1>8. BusOK' /\ Queue' = [Queue EXCEPT ![n] = m] /\ Evs' = Evs
  BY <1>1, <1>5, <1>6, <1>7, SendStep DEF Sends
<1>9. DOMAIN Queue' = DOMAIN Queue /\ Queue'[n] = m /\ \A r \in DOMAIN Queue \ {n} : Queue'[r] = Queue[r]
  BY <1>5, <1>7, <1>8
<1>10. Len(m) \in 1 .. 4 /\ m # <<>> /\ Rest(m, Len(m)) = m /\ StagesOf(m, Len(m)) = <<>>
  BY <1>7, RestAll
<1>11. ~Answered'
  BY <1>4, <1>7, <1>9, <1>10 DEF Answered
<1>12. req'.waiting /\ ~req'.done /\ req' \in [waiting : BOOLEAN, done : BOOLEAN, result : EventType]
  BY DEF Sends, Idle, NoResult, EventType
<1>13. PICK s, h : s = Aimed /\ h = IF s = 0 THEN "to_slot_0" ELSE "copy"
  OBVIOUS
<1>14. s \in Slots \cup {0} /\ (s # 0 => s = Target /\ s \notin Armed) /\ (s = 0 <=> Now = "enable_slot")
  BY <1>5, <1>13, IndexFacts DEF Aimed
<1>15. /\ slots' \in [Slots \cup {0} -> SlotType]
       /\ slots'[s].data = "frame" /\ slots'[s].handler = h
       /\ \A t \in (Slots \cup {0}) \ {s} : slots'[t] = slots[t]
       /\ \A t \in Slots \cup {0} : SameDevice(slots[t], slots'[t])
  <2>1. slots' = [slots EXCEPT ![s].data = "frame", ![s].handler = h]
    BY <1>13 DEF Sends
  <2>2. h \in {"to_slot_0", "copy", "packet_recv", "null"} /\ "frame" \in {"null", "frame", "dead", "keyboard"}
    BY <1>13
  <2>3. SlotsOK /\ s \in Slots \cup {0}
    BY <1>1, <1>14
  <2> QED BY <2>1, <2>2, <2>3, PointedSlots
<1>16. \A t \in Slots : t # s => slots'[t] = slots[t]
  BY <1>15
<1>17. Armed' = Armed
  BY <1>13, <1>14, <1>15, <1>16, IndexFacts DEF Armed
<1>18. RingsOK'
  BY <1>1, <1>9, <1>15 DEF RingsOK, SameDevice
<1>19. s # 0 => slots[s].state # "off"
  <2>1. CASE Now \in BulkLabels
    <3>1. msd.slot \in Slots /\ Stage(slots[msd.slot], 5, "disk")
      BY <1>1, <1>2, <2>1 DEF DiskOK
    <3>2. s # 0 => s = msd.slot
      BY <1>14, <2>1 DEF Target
    <3> QED BY <3>1, <3>2, StageFacts
  <2>2. CASE Now \notin BulkLabels /\ Now # "enable_slot"
    <3>1. Now \in CurLabels
      BY <1>2, <2>2 DEF RequestLabels, CurLabels
    <3>2. Stage(slots[cur], Rank(Now, Kind), Kind)
      BY <1>1, <1>2, <3>1 DEF ScriptOK
    <3>3. s # 0 => s = cur
      BY <1>14, <2>2 DEF Target
    <3> QED BY <3>2, <3>3, StageFacts
  <2> QED BY <1>14, <2>1, <2>2
<1>20. SlotsOK'
  <2>1. slots'[0].handler = "to_slot_0" /\ slots'[0].data \in {"null", "frame"}
    BY <1>1, <1>13, <1>15 DEF SlotsOK
  <2>2. \A t \in Slots : slots'[t].state = "off" => slots'[t] = FreshSlot
    BY <1>1, <1>15, <1>16, <1>19, IndexFacts DEF SlotsOK, SameDevice
  <2>3. \A t \in Armed' : slots'[t].kind = "keyboard" /\ InIndex \in slots'[t].eps /\ slots'[t].state = "configured"
    BY <1>1, <1>15, <1>17 DEF SlotsOK, SameDevice, Armed
  <2> QED BY <1>15, <2>1, <2>2, <2>3 DEF SlotsOK
<1>21. RequestOK'
  <2>1. IF Now = "enable_slot" THEN slots'[0].data = "frame"
        ELSE slots'[Target].handler = "copy" /\ slots'[Target].data = "frame"
    BY <1>13, <1>14, <1>15
  <2>2. Len(Queue'[n]) <= Len(m) /\ Queue'[n] = Rest(m, Len(Queue'[n]))
    BY <1>9, <1>10
  <2> QED BY <1>2, <1>4, <1>7, <1>12, <2>1, <2>2 DEF RequestOK, RequestLabels
<1>22. StagesOK'
  <2>1. stages = [t \in Slots |-> <<>>]
    BY <1>1, <1>2 DEF StagesOK
  <2>2. StagesOf(ReqTrbs', Len(Queue'[ReqRing'])) = <<>>
    BY <1>4, <1>7, <1>9, <1>10
  <2>3. [t \in Slots |-> IF req'.waiting /\ Now' \in ControlLabels /\ t = cur'
                         THEN StagesOf(ReqTrbs', Len(Queue'[ReqRing'])) ELSE <<>>] = [t \in Slots |-> <<>>]
    BY <2>2
  <2> QED BY <1>2, <2>1, <2>3 DEF StagesOK
<1>23. FlowOK'
  <2>1. \A r \in DOMAIN Queue' : Queue'[r] # <<>> =>
          (req'.waiting /\ r = ReqRing') \/ \E t \in Armed' : r = <<t, InIndex>>
    BY <1>1, <1>2, <1>4, <1>7, <1>9, <1>12, <1>17 DEF FlowOK
  <2>2. \A t \in Armed' : Len(Queue'[<<t, InIndex>>]) <= 1
    <3>1. ASSUME NEW t \in Armed PROVE Len(Queue'[<<t, InIndex>>]) <= 1
      <4>1. <<t, InIndex>> # n /\ <<t, InIndex>> \in DOMAIN Queue
        BY <1>1, <1>5, <1>7 DEF RingsOK, SlotsOK, Armed
      <4> QED BY <1>1, <1>9, <4>1 DEF FlowOK
    <3> QED BY <1>17, <3>1
  <2> QED BY <2>1, <2>2 DEF FlowOK
<1>24. EventsOK'
  <2>0. PICK v : v = Evs /\ v = Evs'
    BY <1>8
  <2>1. \A j \in 1 .. Len(v) : v[j].type = "port" \/ KeyEvent(v[j])
    BY <1>1, <1>2, <2>0 DEF EventsOK, AnswerEvent
  <2>2. ASSUME NEW e, KeyEvent(e) PROVE KeyEvent(e)'
    <3>1. e.slot \in Armed /\ Queue[<<e.slot, InIndex>>] = <<>>
          /\ e = [type |-> "transfer", slot |-> e.slot, code |-> 1, ed |-> FALSE]
      BY <2>2 DEF KeyEvent
    <3>2. <<e.slot, InIndex>> # n /\ <<e.slot, InIndex>> \in DOMAIN Queue
      BY <1>1, <1>5, <1>7, <3>1 DEF RingsOK, SlotsOK, Armed
    <3>3. Queue'[<<e.slot, InIndex>>] = <<>>
      BY <1>9, <3>1, <3>2
    <3> QED BY <1>17, <3>1, <3>3 DEF KeyEvent
  <2>3. \A j \in 1 .. Len(v) : v[j].type = "port" \/ KeyEvent(v[j])'
    BY <2>1, <2>2
  <2>4. \A i, j \in 1 .. Len(v) :
         v[i].type # "port" /\ v[j].type # "port" /\ Owner(v[i]) = Owner(v[j]) => i = j
    BY <1>1, <2>0 DEF EventsOK
  <2> QED BY <1>17, <2>0, <2>3, <2>4 DEF EventsOK, Owner
<1>25. ScriptOK'
  <2> SUFFICES ASSUME Now \in CurLabels
               PROVE  /\ cur \in Slots /\ slots'[cur].kind = Kind
                      /\ slots'[cur].handler \in {"to_slot_0", "copy"}
                      /\ Stage(slots'[cur], Rank(Now, Kind), Kind)
                      /\ Now \in {"max_lun", "capacity"} => Kind = "disk"
                      /\ Now \in {"set_idle", "set_protocol", "arm_keyboard"} => Kind = "keyboard"
    BY <1>1, <1>2, <1>4, <1>11 DEF ScriptOK
  <2>1. /\ cur \in Slots /\ slots[cur].kind = Kind
        /\ slots[cur].handler \in {"to_slot_0", "copy"}
        /\ Stage(slots[cur], Rank(Now, Kind), Kind)
        /\ Now \in {"max_lun", "capacity"} => Kind = "disk"
        /\ Now \in {"set_idle", "set_protocol", "arm_keyboard"} => Kind = "keyboard"
    BY <1>1, <1>2 DEF ScriptOK
  <2>2. SameDevice(slots[cur], slots'[cur])
    BY <1>15, <2>1
  <2>3. Stage(slots'[cur], Rank(Now, Kind), Kind) /\ slots'[cur].kind = slots[cur].kind
    BY <2>1, <2>2, SameStage DEF SameDevice
  <2>4. slots'[cur].handler \in {"to_slot_0", "copy"}
    BY <1>13, <1>15, <1>16, <2>1
  <2> QED BY <2>1, <2>3, <2>4
<1>26. DiskOK'
  <2>1. msd.slot # 0 => SameDevice(slots[msd.slot], slots'[msd.slot])
    BY <1>1, <1>15 DEF DiskOK
  <2>2. msd.slot # 0 => Stage(slots'[msd.slot], 5, "disk") /\ slots'[msd.slot].kind = "disk"
    BY <1>1, <2>1, SameStage DEF DiskOK, SameDevice
  <2>3. Now \in {"data", "csw"} => slots'[msd.slot].handler = "copy"
    BY <1>13, <1>14, <1>15, IndexFacts DEF Target, BulkLabels
  <2> QED BY <1>1, <1>2, <1>4, <2>2, <2>3 DEF DiskOK
<1>27. CallOK' /\ SideOK'
  BY <1>1, <1>4 DEF CallOK, SideOK, Sends
<1> QED BY <1>8, <1>11, <1>12, <1>18, <1>20, <1>21, <1>22, <1>23, <1>24, <1>25, <1>26, <1>27 DEF UsbInv, TrafficOK

\* Every one of the driver's requests is sent like that.
LEMMA RequestsSend ==
  ASSUME UsbInv, UsbRest, \/ send_command_ring_trb /\ XhciRest
                          \/ send_control_transfer /\ XhciRest
                          \/ send_bbb
  PROVE  UsbInv' /\ ~Answered' /\ req'.waiting
<1>1. /\ UNCHANGED <<hw, changes, stages, todo, cur, port, stale, msd, mem, blk, backend, fs>>
      /\ ~req.waiting /\ todo # <<>>
  BY DEF send_command_ring_trb, send_control_transfer, send_bbb, XhciRest, UsbRest, usbVars, fsVars
<1>2. slots[0].handler = "to_slot_0"
  BY DEF UsbInv, TrafficOK, SlotsOK
<1>3. SetUpInv
  BY DEF UsbInv, TrafficOK, SetUpInv
<1>4. CASE send_command_ring_trb
  <2>1. /\ Now \in CommandLabels /\ Now \in RequestLabels /\ Now \notin BulkLabels
    BY <1>4 DEF send_command_ring_trb, Now, RequestLabels, CommandLabels, BulkLabels
  <2>2. ReqRing = CmdRing /\ ReqTrbs = <<CommandTrb(Now)>>
    BY <2>1 DEF ReqRing, ReqTrbs, RingOf, TrbsOf
  <2>3. Aimed = IF Now = "enable_slot" THEN 0 ELSE cur
    BY <2>1 DEF Aimed, Target
  <2>4. Send(CmdRing, <<CommandTrb(Now)>>, Aimed, IF Aimed = 0 THEN slots[0].handler ELSE "copy")
    BY <1>4, <2>3 DEF send_command_ring_trb, Now
  <2>5. Sends
    BY <1>1, <1>2, <2>1, <2>2, <2>4 DEF Sends, Send
  <2> QED BY <2>5, SendsKeeps
<1>5. CASE send_control_transfer
  <2>1. /\ Now \in ControlLabels /\ Now \in RequestLabels /\ Now \notin BulkLabels /\ Now \notin CommandLabels
        /\ Now # "enable_slot"
    BY <1>5 DEF send_control_transfer, Now, RequestLabels, CommandLabels, ControlLabels, BulkLabels
  <2>2. ReqRing = <<cur, 0>> /\ ReqTrbs = make_request(Now)
    BY <2>1 DEF ReqRing, ReqTrbs, RingOf, TrbsOf
  <2>3. Aimed = cur /\ cur # 0
    BY <1>1, <1>3, <2>1, RequestRing, IndexFacts DEF Aimed, Target
  <2>4. Send(<<cur, 0>>, make_request(Now), cur, "copy")
    BY <1>5 DEF send_control_transfer, Now
  <2>5. Sends
    BY <1>1, <2>1, <2>2, <2>3, <2>4 DEF Sends, Send
  <2> QED BY <2>5, SendsKeeps
<1>6. CASE send_bbb
  <2>1. /\ Now \in BulkLabels /\ Now \in RequestLabels /\ Now \notin ControlLabels /\ Now \notin CommandLabels
        /\ Now # "enable_slot"
    BY <1>6 DEF send_bbb, Now, RequestLabels, CommandLabels, ControlLabels, BulkLabels
  <2>2. ReqRing = <<msd.slot, BulkRing(Now)>> /\ ReqTrbs = <<NormalTrb(BulkPage[Now])>>
    BY <2>1 DEF ReqRing, ReqTrbs, RingOf, TrbsOf
  <2>3. Aimed = msd.slot /\ msd.slot # 0
    BY <1>1, <1>3, <2>1, RequestRing, IndexFacts DEF Aimed, Target
  <2>4. Now # "cbw" => slots[msd.slot].handler = "copy"
    BY <1>1, <2>1 DEF UsbInv, DiskOK, BulkLabels
  <2>5. Send(<<msd.slot, BulkRing(Now)>>, <<NormalTrb(BulkPage[Now])>>, msd.slot,
             IF Now = "cbw" THEN "copy" ELSE slots[msd.slot].handler)
    BY <1>6 DEF send_bbb, Now
  <2>6. Sends
    BY <1>1, <2>1, <2>2, <2>3, <2>4, <2>5 DEF Sends, Send
  <2> QED BY <2>6, SendsKeeps
<1> QED BY <1>4, <1>5, <1>6

-----------------------------------------------------------------------------
(* A request is over.                                                       *)

\* A keyboard is handed its slot.
LEMMA ArmKeeps ==
  ASSUME UsbInv, arm_keyboard, XhciRest, UsbRest, backend = "usb"
  PROVE  UsbInv'
<1>1. /\ BusOK /\ RingsOK /\ SlotsOK /\ RequestOK /\ StagesOK /\ FlowOK /\ EventsOK
      /\ ScriptOK /\ DiskOK /\ CallOK /\ SideOK /\ SetUpInv
  BY DEF UsbInv, TrafficOK, SetUpInv
<1>2. /\ ~req.waiting /\ todo # <<>> /\ Now = "arm_keyboard" /\ todo' = Tail(todo)
      /\ slots' = [slots EXCEPT ![cur].data = "keyboard", ![cur].handler = "packet_recv"]
      /\ rings' = [rings EXCEPT ![<<cur, InIndex>>] = enqueue_ring(@, ReportTrb)]
      /\ UNCHANGED <<hw, changes, stages, req, cur, port, stale, msd, mem, blk, backend, fs>>
  BY DEF arm_keyboard, XhciRest, UsbRest, usbVars, fsVars, Now
<1>3. todo = <<"arm_keyboard">> /\ todo' = <<>>
  BY <1>1, <1>2, LinkedLast DEF ScriptOK, Now
<1>4. /\ cur \in Slots /\ slots[cur].kind = "keyboard" /\ cur \notin Armed
      /\ slots[cur].state = "configured" /\ InIndex \in slots[cur].eps
  <2>1. "arm_keyboard" \in CurLabels
    BY DEF CurLabels
  <2>2. /\ cur \in Slots /\ slots[cur].kind = "keyboard" /\ Kind = "keyboard"
        /\ slots[cur].handler \in {"to_slot_0", "copy"}
        /\ Stage(slots[cur], Rank(Now, Kind), Kind)
    BY <1>1, <1>2, <2>1 DEF ScriptOK
  <2>3. Rank(Now, Kind) = 5
    BY <1>2 DEF Rank
  <2> QED BY <2>2, <2>3 DEF Stage, Ends, Armed
<1>5. PICK n : n = <<cur, InIndex>>
  OBVIOUS
<1>6. n \in DOMAIN Queue /\ Queue[n] = <<>>
  BY <1>1, <1>2, <1>4, <1>5 DEF RingsOK, FlowOK
<1>7. BusOK' /\ Queue' = [Queue EXCEPT ![n] = <<ReportTrb>>] /\ Evs' = Evs
  <2>1. ReportTrb.type # "link"
    BY DEF ReportTrb
  <2> QED BY <1>1, <1>2, <1>5, <1>6, <2>1, ReportStep
<1>8. DOMAIN Queue' = DOMAIN Queue /\ Queue'[n] = <<ReportTrb>> /\ \A r \in DOMAIN Queue \ {n} : Queue'[r] = Queue[r]
  BY <1>6, <1>7
<1>9. /\ slots' \in [Slots \cup {0} -> SlotType]
      /\ slots'[cur].data = "keyboard" /\ slots'[cur].handler = "packet_recv"
      /\ \A t \in (Slots \cup {0}) \ {cur} : slots'[t] = slots[t]
      /\ \A t \in Slots \cup {0} : SameDevice(slots[t], slots'[t])
  <2>1. cur \in Slots \cup {0} /\ "keyboard" \in {"null", "frame", "dead", "keyboard"}
        /\ "packet_recv" \in {"to_slot_0", "copy", "packet_recv", "null"}
    BY <1>4
  <2> QED BY <1>1, <1>2, <2>1, PointedSlots
<1>10. Armed' = Armed \cup {cur}
  BY <1>4, <1>9 DEF Armed
<1>11. RingsOK'
  BY <1>1, <1>8, <1>9 DEF RingsOK, SameDevice
<1>12. SlotsOK'
  <2>1. slots'[0].handler = "to_slot_0" /\ slots'[0].data \in {"null", "frame"}
    BY <1>1, <1>4, <1>9, IndexFacts DEF SlotsOK
  <2>2. \A t \in Slots : slots'[t].state = "off" => slots'[t] = FreshSlot
    BY <1>1, <1>4, <1>9 DEF SlotsOK, SameDevice
  <2>3. \A t \in Armed' : slots'[t].kind = "keyboard" /\ InIndex \in slots'[t].eps /\ slots'[t].state = "configured"
    BY <1>1, <1>4, <1>9, <1>10 DEF SlotsOK, SameDevice, Armed
  <2> QED BY <1>9, <2>1, <2>2, <2>3 DEF SlotsOK
<1>13. RequestOK'
  <2>1. ~req'.waiting /\ req' = Idle /\ ~req'.done
    BY <1>1, <1>2 DEF RequestOK, Idle
  <2> QED BY <1>1, <1>2, <2>1 DEF RequestOK
<1>14. StagesOK'
  BY <1>1, <1>2 DEF StagesOK
<1>15. FlowOK'
  <2>1. \A r \in DOMAIN Queue' : Queue'[r] # <<>> => \E t \in Armed' : r = <<t, InIndex>>
    BY <1>1, <1>2, <1>5, <1>8, <1>10 DEF FlowOK
  <2>2. \A t \in Armed' : Len(Queue'[<<t, InIndex>>]) <= 1
    <3>1. Len(<<ReportTrb>>) <= 1
      OBVIOUS
    <3>2. ASSUME NEW t \in Armed, t # cur PROVE Len(Queue'[<<t, InIndex>>]) <= 1
      <4>1. <<t, InIndex>> # n /\ <<t, InIndex>> \in DOMAIN Queue
        BY <1>1, <1>5, <3>2 DEF RingsOK, SlotsOK, Armed
      <4> QED BY <1>1, <1>8, <4>1 DEF FlowOK
    <3> QED BY <1>5, <1>8, <1>10, <3>1, <3>2
  <2> QED BY <2>1, <2>2 DEF FlowOK
<1>16. EventsOK'
  <2>0. PICK v : v = Evs /\ v = Evs'
    BY <1>7
  <2>1. \A j \in 1 .. Len(v) : v[j].type = "port" \/ KeyEvent(v[j])
    BY <1>1, <1>2, <2>0 DEF EventsOK, AnswerEvent
  <2>2. ASSUME NEW e, KeyEvent(e) PROVE KeyEvent(e)' /\ Owner(e)' = Owner(e)
    <3>1. e.slot \in Armed /\ Queue[<<e.slot, InIndex>>] = <<>>
          /\ e = [type |-> "transfer", slot |-> e.slot, code |-> 1, ed |-> FALSE]
      BY <2>2 DEF KeyEvent
    <3>2. <<e.slot, InIndex>> # n /\ <<e.slot, InIndex>> \in DOMAIN Queue
      BY <1>1, <1>4, <1>5, <3>1 DEF RingsOK, SlotsOK, Armed
    <3>3. Queue'[<<e.slot, InIndex>>] = <<>>
      BY <1>8, <3>1, <3>2
    <3> QED BY <1>10, <3>1, <3>3 DEF KeyEvent, Owner
  <2>3. \A j \in 1 .. Len(v) : v[j].type = "port" \/ (KeyEvent(v[j])' /\ Owner(v[j])' = Owner(v[j]))
    BY <2>1, <2>2
  <2>4. \A i, j \in 1 .. Len(v) :
         v[i].type # "port" /\ v[j].type # "port" /\ Owner(v[i]) = Owner(v[j]) => i = j
    BY <1>1, <2>0 DEF EventsOK
  <2> QED BY <2>0, <2>3, <2>4 DEF EventsOK
<1>17. ScriptOK'
  BY <1>3, LinkedScripts DEF ScriptOK
<1>18. DiskOK'
  <2>1. msd.slot # 0 => SameDevice(slots[msd.slot], slots'[msd.slot])
    BY <1>1, <1>9 DEF DiskOK
  <2>2. msd.slot # 0 => Stage(slots'[msd.slot], 5, "disk") /\ slots'[msd.slot].kind = "disk"
    BY <1>1, <2>1, SameStage DEF DiskOK, SameDevice
  <2> QED BY <1>1, <1>2, <1>3, <2>2 DEF DiskOK
<1>19. CallOK'
  <2>1. todo[Len(todo)] = "arm_keyboard"
    BY <1>3
  <2> QED BY <1>1, <1>2, <1>3, <2>1 DEF CallOK
<1>20. SideOK'
  BY <1>1, <1>2 DEF SideOK
<1> QED BY <1>7, <1>11, <1>12, <1>13, <1>14, <1>15, <1>16, <1>17, <1>18, <1>19, <1>20 DEF UsbInv, TrafficOK

\* A bulk transfer is over.
LEMMA BulkDoneKeeps ==
  ASSUME UsbInv, BulkDone, UsbRest, backend = "usb"
  PROVE  UsbInv'
<1>1. /\ BusOK /\ RingsOK /\ SlotsOK /\ RequestOK /\ StagesOK /\ FlowOK /\ EventsOK
      /\ ScriptOK /\ DiskOK /\ CallOK /\ SideOK /\ SetUpInv
  BY DEF UsbInv, TrafficOK, SetUpInv
<1>2. /\ req.waiting /\ req.done /\ Now \in BulkLabels /\ req' = Idle /\ todo' = Tail(todo)
      /\ UNCHANGED <<rings, hw, changes, stages, cur, port, stale, backend, fs>>
      /\ \/ UNCHANGED <<slots, msd, blk, mem>>
         \/ /\ Now = "csw" /\ DOMAIN mem' = {"command", "response", "status"}
            /\ slots' = [slots EXCEPT ![msd.slot].handler = "null", ![msd.slot].data = "dead"]
            /\ \/ mem.command.op = "capacity" /\ blk' = blk /\ msd' = [msd EXCEPT !.last = mem.response[1]]
               \/ mem.command.op # "capacity" /\ msd' = msd /\ blk' = [blk EXCEPT !.st = "done", !.data = mem.response]
  BY DEF BulkDone, UsbRest, busVars, fsVars, Now, Return, FreePages
<1>3. todo # <<>> /\ Answered /\ slots[msd.slot].handler = "copy" /\ Target = msd.slot
  BY <1>1, <1>2 DEF RequestOK, Target, BulkLabels
<1>4. msd.slot \in Slots /\ msd.slot \notin Armed /\ Stage(slots[msd.slot], 5, "disk") /\ slots[msd.slot].kind = "disk"
      /\ slots[msd.slot].state # "off"
  BY <1>1, <1>2, <1>3, StageFacts DEF DiskOK, Armed
<1>5. Queue' = Queue /\ Evs' = Evs /\ BusOK'
  BY <1>1, <1>2 DEF Queue, Evs, BusOK
<1>6. /\ slots' \in [Slots \cup {0} -> SlotType]
      /\ slots'[msd.slot].handler \in {"copy", "null"}
      /\ \A t \in (Slots \cup {0}) \ {msd.slot} : slots'[t] = slots[t]
      /\ \A t \in Slots \cup {0} : SameDevice(slots[t], slots'[t])
  <2>1. CASE slots' = slots
    BY <1>1, <1>3, <2>1 DEF SlotsOK, SameDevice
  <2>2. CASE slots' = [slots EXCEPT ![msd.slot].handler = "null", ![msd.slot].data = "dead"]
    <3>1. slots' = [slots EXCEPT ![msd.slot].data = "dead", ![msd.slot].handler = "null"]
      BY <2>2
    <3>2. PICK s : s = msd.slot
      OBVIOUS
    <3>3. s \in Slots \cup {0} /\ "dead" \in {"null", "frame", "dead", "keyboard"}
          /\ "null" \in {"to_slot_0", "copy", "packet_recv", "null"}
      BY <1>4, <3>2
    <3> QED BY <1>1, <3>1, <3>2, <3>3, PointedSlots
  <2> QED BY <1>2, <2>1, <2>2
<1>7. Armed' = Armed
  BY <1>4, <1>6 DEF Armed
<1>8. RingsOK'
  BY <1>1, <1>5, <1>6 DEF RingsOK, SameDevice
<1>9. SlotsOK'
  <2>1. slots'[0].handler = "to_slot_0" /\ slots'[0].data \in {"null", "frame"}
    BY <1>1, <1>4, <1>6, IndexFacts DEF SlotsOK
  <2>2. \A t \in Slots : slots'[t].state = "off" => slots'[t] = FreshSlot
    BY <1>1, <1>4, <1>6 DEF SlotsOK, SameDevice
  <2>3. \A t \in Armed' : slots'[t].kind = "keyboard" /\ InIndex \in slots'[t].eps /\ slots'[t].state = "configured"
    BY <1>1, <1>6, <1>7 DEF SlotsOK, SameDevice, Armed
  <2> QED BY <1>6, <2>1, <2>2, <2>3 DEF SlotsOK
<1>10. RequestOK'
  <2>1. ~req'.waiting /\ req' = Idle /\ ~req'.done /\ req' \in [waiting : BOOLEAN, done : BOOLEAN, result : EventType]
    BY <1>2 DEF Idle, NoResult, EventType
  <2> QED BY <2>1 DEF RequestOK
<1>11. StagesOK'
  <2>1. ~req'.waiting /\ Now \notin ControlLabels
    BY <1>2 DEF Idle, BulkLabels, ControlLabels
  <2> QED BY <1>1, <1>2, <2>1 DEF StagesOK
<1>12. FlowOK'
  BY <1>1, <1>3, <1>5, <1>7 DEF FlowOK, Answered
<1>13. EventsOK'
  <2>1. \A j \in 1 .. Len(Evs) : Evs[j].type = "port" \/ KeyEvent(Evs[j])
    BY <1>1, <1>2 DEF EventsOK, AnswerEvent
  <2> QED BY <1>1, <1>5, <1>7, <2>1 DEF EventsOK, KeyEvent, Owner
<1>14. /\ Linked(todo', Kind')
       /\ todo' # <<>> => /\ Now' = IF Now = "cbw" THEN "data" ELSE IF Now = "data" THEN "csw" ELSE "register"
                          /\ todo'[Len(todo')] = todo[Len(todo)]
       /\ todo' = <<>> => todo[Len(todo)] # "register" /\ Now = "csw"
  <2>1. Kind' = Kind /\ Linked(todo, Kind)
    BY <1>1, <1>2 DEF Kind, ScriptOK
  <2>2. /\ Linked(Tail(todo), Kind) /\ Head(todo) \in Labels
        /\ Tail(todo) # <<>> => Follows(Kind, Head(todo), Head(Tail(todo))) /\ Tail(todo)[Len(Tail(todo))] = todo[Len(todo)]
        /\ Tail(todo) = <<>> => Head(todo) \in Final /\ Len(todo) = 1
    BY <1>3, <2>1, LinkedTail
  <2>3. Tail(todo) # <<>> => Head(Tail(todo)) = IF Now = "cbw" THEN "data" ELSE IF Now = "data" THEN "csw" ELSE "register"
    BY <1>2, <2>2 DEF Follows, Following, BulkLabels, Now
  <2>4. Tail(todo) = <<>> => Now = "csw" /\ todo[Len(todo)] = Now
    BY <1>2, <1>3, <2>1, <2>2 DEF Final, BulkLabels, Now, Linked
  <2> QED BY <1>2, <2>1, <2>2, <2>3, <2>4 DEF Now
<1>15. {"data", "csw", "register"} \cap (CurLabels \cup {"enable_slot"}) = {} /\ "register" \notin BulkLabels
  BY DEF CurLabels, CommandLabels, ControlLabels, BulkLabels
<1>16. ScriptOK'
  BY <1>14, <1>15 DEF ScriptOK
<1>17. DiskOK'
  <2>1. msd'.slot = msd.slot /\ msd' = [slot |-> msd'.slot, last |-> msd'.last]
    BY <1>1, <1>2 DEF DiskOK
  <2>2. Stage(slots'[msd.slot], 5, "disk") /\ slots'[msd.slot].kind = "disk"
    BY <1>4, <1>6, SameStage DEF SameDevice
  <2>3. todo' # <<>> /\ Now' \in {"data", "csw"} => slots'[msd.slot].handler = "copy"
    BY <1>2, <1>3, <1>14
  <2> QED BY <1>4, <2>1, <2>2, <2>3, IndexFacts DEF DiskOK
<1>18. CallOK'
  <2>1. todo # <<"register">> /\ blk.st \notin {"call", "done"} /\ fs.st # "loop"
    BY <1>1, <1>2, <1>3, <1>15, BulkLists DEF CallOK, Now
  <2>2. todo' = <<>> \/ Now # "csw" \/ todo' = <<"register">>
    <3>1. todo' # <<>> /\ Now = "csw" => Linked(todo', Kind') /\ Head(todo') = "register"
      BY <1>14 DEF Now
    <3> QED BY <3>1, LinkedLast
  <2>3. blk'.st \in {"call", "done"} => todo' = <<>> \/ todo' = <<"register">>
    BY <1>2, <2>1, <2>2
  <2>4. fs.st \in {"idle", "loop"} => blk'.st = "idle"
    BY <1>1, <1>2, <1>3 DEF CallOK
  <2>5. todo' # <<>> /\ Now' \in BulkLabels => mem'.command.op = "capacity" \/ blk'.st = "busy"
    BY <1>1, <1>2, <1>3, <1>14, <1>15 DEF CallOK
  <2>6. fs.st = "table" => todo' # <<>> /\ todo'[Len(todo')] = "register"
    BY <1>1, <1>14 DEF CallOK
  <2> QED BY <1>2, <2>1, <2>3, <2>4, <2>5, <2>6 DEF CallOK
<1>19. SideOK'
  BY <1>1, <1>2 DEF SideOK
<1> QED BY <1>5, <1>8, <1>9, <1>10, <1>11, <1>12, <1>13, <1>16, <1>17, <1>18, <1>19 DEF UsbInv, TrafficOK

\* The endpoints a class driver adds when request q of a device of kind k is
\* answered.
Gained(q, k) == CASE q = "config" /\ k = "disk" -> {InIndex, OutIndex}
                  [] q = "set_protocol" -> IF k = "disk" THEN {InIndex, OutIndex} ELSE {InIndex}
                  [] OTHER -> {}

\* After each request comes one that may be made at the stage reached.
LEMMA NextRequest ==
  ASSUME NEW k \in {"disk", "keyboard"}, NEW q \in (CommandLabels \cup ControlLabels) \ {"enable_slot"},
         q = "max_lun" => k = "disk", q \in {"set_idle", "set_protocol"} => k = "keyboard"
  PROVE  /\ Following(k)[q] \in CurLabels
         /\ Following(k)[q] \in {"max_lun", "capacity"} => k = "disk"
         /\ Following(k)[q] \in {"set_idle", "set_protocol", "arm_keyboard"} => k = "keyboard"
         /\ Gained(q, k) = {} => Rank(Following(k)[q], k) = Reached(q, k)
         /\ Gained(q, k) # {} => /\ Reached(q, k) = 3 /\ Rank(Following(k)[q], k) = 4
                                 /\ {0} \cup Gained(q, k) = Ends(k)
<1>1. q \in Labels /\ Following(k)[q] =
       CASE q = "enable_slot" -> "address_blocked" [] q = "address_blocked" -> "address"
         [] q = "address" -> "descriptor_head" [] q = "descriptor_head" -> "evaluate"
         [] q = "evaluate" -> "descriptor" [] q = "descriptor" -> "config_head"
         [] q = "config_head" -> "config"
         [] q = "config" -> IF k = "disk" THEN "configure" ELSE "set_configuration"
         [] q = "configure" -> IF k = "disk" THEN "set_configuration" ELSE "arm_keyboard"
         [] q = "set_configuration" -> IF k = "disk" THEN "max_lun" ELSE "set_idle"
         [] q = "set_idle" -> "set_protocol" [] q = "set_protocol" -> "configure"
         [] q = "max_lun" -> "capacity" [] q = "capacity" -> "register"
         [] q = "cbw" -> "data" [] q = "data" -> "csw"
         [] OTHER -> "register"
  BY DEF Following, Labels
<1>2. PICK n : n = Following(k)[q]
  OBVIOUS
<1>3. CASE q \in {"address_blocked", "address", "descriptor_head", "evaluate", "descriptor", "config_head"}
  <2>1. /\ q = "address_blocked" => n = "address"
        /\ q = "address" => n = "descriptor_head"
        /\ q = "descriptor_head" => n = "evaluate"
        /\ q = "evaluate" => n = "descriptor"
        /\ q = "descriptor" => n = "config_head"
        /\ q = "config_head" => n = "config"
    BY <1>1, <1>2, <1>3
  <2>2. /\ n \in CurLabels /\ n \notin {"max_lun", "capacity", "set_idle", "set_protocol", "arm_keyboard"}
        /\ Gained(q, k) = {}
    BY <1>3, <2>1 DEF CurLabels, CommandLabels, ControlLabels, Gained
  <2>3. Rank(n, k) = Reached(q, k)
    BY <1>3, <2>1 DEF Rank, Reached
  <2> QED BY <1>2, <2>2, <2>3
<1>4. CASE q \in {"config", "configure", "set_configuration"}
  <2>1. /\ q = "config" => n = IF k = "disk" THEN "configure" ELSE "set_configuration"
        /\ q = "configure" => n = IF k = "disk" THEN "set_configuration" ELSE "arm_keyboard"
        /\ q = "set_configuration" => n = IF k = "disk" THEN "max_lun" ELSE "set_idle"
    BY <1>1, <1>2, <1>4
  <2>2. /\ n \in CurLabels /\ (n \in {"max_lun", "capacity"} => k = "disk")
        /\ (n \in {"set_idle", "set_protocol", "arm_keyboard"} => k = "keyboard")
    BY <1>4, <2>1 DEF CurLabels, CommandLabels, ControlLabels
  <2>3. Gained(q, k) = {} => Rank(n, k) = Reached(q, k)
    BY <1>4, <2>1 DEF Rank, Reached, Gained
  <2>4. Gained(q, k) # {} => Reached(q, k) = 3 /\ Rank(n, k) = 4 /\ {0} \cup Gained(q, k) = Ends(k)
    BY <1>4, <2>1 DEF Rank, Reached, Gained, Ends
  <2> QED BY <1>2, <2>2, <2>3, <2>4
<1>5. CASE q \in {"set_idle", "set_protocol", "max_lun"}
  <2>1. /\ q = "set_idle" => n = "set_protocol"
        /\ q = "set_protocol" => n = "configure"
        /\ q = "max_lun" => n = "capacity"
    BY <1>1, <1>2, <1>5
  <2>2. /\ n \in CurLabels /\ (n \in {"max_lun", "capacity"} => k = "disk")
        /\ (n \in {"set_idle", "set_protocol", "arm_keyboard"} => k = "keyboard")
    BY <1>5, <2>1 DEF CurLabels, CommandLabels, ControlLabels
  <2>3. Gained(q, k) = {} => Rank(n, k) = Reached(q, k)
    BY <1>5, <2>1 DEF Rank, Reached, Gained
  <2>4. Gained(q, k) # {} => Reached(q, k) = 3 /\ Rank(n, k) = 4 /\ {0} \cup Gained(q, k) = Ends(k)
    BY <1>5, <2>1 DEF Rank, Reached, Gained, Ends
  <2> QED BY <1>2, <2>2, <2>3, <2>4
<1> QED BY <1>3, <1>4, <1>5 DEF CommandLabels, ControlLabels

\* The number of context entries covers the endpoints.
LEMMA ContextEntries ==
  /\ set_context_entries({0}) = 1
  /\ \A k : set_context_entries(Ends(k)) \in 1 .. 31 /\ \A e \in Ends(k) : e < set_context_entries(Ends(k))
<1>1. ASSUME NEW S, NEW m \in 1 .. 31, m - 1 \in S, \A e \in S : e \in Nat /\ e <= m - 1
      PROVE  set_context_entries(S) \in 1 .. 31 /\ set_context_entries(S) = m
  <2>1. \E n \in 1 .. 31 : n - 1 \in S /\ \A e \in S : e <= n - 1
    BY <1>1
  <2>2. PICK c : c = set_context_entries(S)
    OBVIOUS
  <2>3. c \in 1 .. 31 /\ c - 1 \in S /\ \A e \in S : e <= c - 1
    BY <2>1, <2>2 DEF set_context_entries
  <2>4. c - 1 <= m - 1 /\ m - 1 <= c - 1
    BY <1>1, <2>3
  <2> QED BY <2>2, <2>3, <2>4
<1>2. set_context_entries({0}) = 1
  BY <1>1
<1>3. ASSUME NEW k PROVE set_context_entries(Ends(k)) \in 1 .. 31 /\ \A e \in Ends(k) : e < set_context_entries(Ends(k))
  <2>1. CASE Ends(k) = {0, 2, 3}
    <3>1. set_context_entries(Ends(k)) = 4
      BY <1>1, <2>1
    <3> QED BY <2>1, <3>1
  <2>2. CASE Ends(k) = {0, 2}
    <3>1. set_context_entries(Ends(k)) = 3
      BY <1>1, <2>2
    <3> QED BY <2>2, <3>1
  <2> QED BY <2>1, <2>2, IndexFacts DEF Ends
<1> QED BY <1>2, <1>3

\* The slot an answered request is about and the endpoints it gets.
Granted == IF Now = "enable_slot" THEN req.result.slot ELSE cur
Added0 == IF Now = "enable_slot" THEN {0} ELSE Gained(Now, Kind)
Wider == slots[Granted].eps \cup Added0

\* An answer always passes the driver's assertions.
LEMMA Completes ==
  ASSUME UsbInv, Complete
  PROVE  /\ req.waiting /\ req.done /\ Answered /\ todo # <<>> /\ Now \in CommandLabels \cup ControlLabels
         /\ Granted \in Slots /\ (Now = "enable_slot" => Granted \in Enabled) /\ halted' = halted /\ req' = Idle
         /\ slots' = [slots EXCEPT
                        ![0].data = IF Now = "enable_slot" THEN "null" ELSE @,
                        ![Granted].data = IF Now = "enable_slot" THEN @ ELSE "dead",
                        ![Granted].eps = Wider,
                        ![Granted].kind = IF Now = "enable_slot" THEN Plugged[port] ELSE @,
                        ![Granted].entries = IF Added0 = {} THEN @ ELSE set_context_entries(Wider)]
         /\ rings' = [n \in DOMAIN rings \cup {<<Granted, e>> : e \in Added0} |->
                        IF n \in DOMAIN rings THEN rings[n] ELSE create_ring]
         /\ hw' = [n \in DOMAIN hw \cup {<<Granted, e>> : e \in Added0} |->
                        IF n \in DOMAIN hw THEN hw[n] ELSE StartPos]
         /\ todo' = Tail(todo) \o (IF Now = "config" THEN ClassScript(port) ELSE <<>>)
         /\ cur' = Granted
<1>1. /\ BusOK /\ RingsOK /\ SlotsOK /\ RequestOK /\ ScriptOK /\ DiskOK /\ SetUpInv
  BY DEF UsbInv, TrafficOK, SetUpInv
<1>2. /\ req.waiting /\ req.done /\ Now \in CommandLabels \cup ControlLabels /\ req' = Idle
  BY DEF Complete, Now
<1>3. todo # <<>> /\ Answered /\ req.result \in Replies
  BY <1>1, <1>2 DEF RequestOK
<1>4. Now \notin BulkLabels /\ Target = cur /\ (Now \in CommandLabels => Now \notin ControlLabels) /\ Now \in RequestLabels
  BY <1>2 DEF Target, CommandLabels, ControlLabels, BulkLabels, RequestLabels
<1>5. /\ req.result.code = 1 /\ req.result.type = (IF Now \in CommandLabels THEN "command" ELSE "transfer")
      /\ req.result.ed = (Now \in ControlLabels)
      /\ req.result.slot \in IF Now = "enable_slot" THEN Enabled ELSE {cur}
  BY <1>3, <1>4 DEF Replies
<1>6. Granted \in Slots /\ (Now = "enable_slot" => Granted \in Enabled) /\ Granted # 0
  <2>1. Now # "enable_slot" => cur \in Slots
    BY <1>1, <1>3, <1>4, RequestRing
  <2>2. Enabled \subseteq Slots
    BY DEF Enabled
  <2> QED BY <1>5, <2>1, <2>2, IndexFacts DEF Granted
<1>7. ResultOK(Now, req.result)
  <2>1. Now \in ControlLabels => Now # "enable_slot" /\ Now \notin CommandLabels
    BY DEF CommandLabels, ControlLabels
  <2>2. Now \in ControlLabels => req.result.ed
    BY <1>5
  <2> QED BY <1>5, <2>1, <2>2 DEF ResultOK
<1>8. Now = "enable_slot" \/ ContextOK(Now, slots[Granted])
  <2> SUFFICES ASSUME Now # "enable_slot" PROVE ContextOK(Now, slots[cur])
    BY DEF Granted
  <2>1. Now \in CurLabels
    BY <1>2 DEF CurLabels
  <2>2. Stage(slots[cur], Reached(Now, Kind), Kind)
    BY <1>1, <1>2, <1>3, <2>1 DEF ScriptOK
  <2>3. /\ Now = "address_blocked" => Reached(Now, Kind) = 2
        /\ Now = "address" => Reached(Now, Kind) = 3
        /\ Now = "configure" => Reached(Now, Kind) = 5
    BY DEF Reached
  <2> QED BY <2>2, <2>3 DEF ContextOK, Stage
<1>9. Added0 = CASE Now = "enable_slot" -> {0}
                 [] Now = "config" /\ Plugged[port] = "disk" -> ClassEndpoints(port)
                 [] Now = "set_protocol" -> ClassEndpoints(port)
                 [] OTHER -> {}
  BY DEF Added0, Gained, Kind, ClassEndpoints
<1> QED BY <1>2, <1>3, <1>6, <1>7, <1>8, <1>9 DEF Complete, Granted, Wider, Now

\* The slot of an answered request afterwards; the others but slot 0.
LEMMA CompletedSlots ==
  ASSUME UsbInv, Complete
  PROVE  /\ slots' \in [Slots \cup {0} -> SlotType]
         /\ slots'[Granted].eps = Wider /\ slots'[Granted].state = slots[Granted].state
         /\ slots'[Granted].running = slots[Granted].running /\ slots'[Granted].handler = slots[Granted].handler
         /\ slots'[Granted].kind = (IF Now = "enable_slot" THEN Plugged[port] ELSE slots[Granted].kind)
         /\ slots'[Granted].entries = IF Added0 = {} THEN slots[Granted].entries ELSE set_context_entries(Wider)
         /\ slots'[0].handler = "to_slot_0" /\ slots'[0].data \in {"null", "frame"}
         /\ \A t \in Slots \ {Granted} : slots'[t] = slots[t]
         /\ Added0 # {} => IF Now = "enable_slot" THEN Wider = {0} ELSE Wider = Ends(Kind)
<1>1. SlotsOK /\ ScriptOK /\ RequestOK
  BY DEF UsbInv, TrafficOK
<1>2. /\ req.waiting /\ req.done /\ Answered /\ todo # <<>> /\ Now \in CommandLabels \cup ControlLabels
      /\ Granted \in Slots /\ (Now = "enable_slot" => Granted \in Enabled)
      /\ slots' = [slots EXCEPT
                        ![0].data = IF Now = "enable_slot" THEN "null" ELSE @,
                        ![Granted].data = IF Now = "enable_slot" THEN @ ELSE "dead",
                        ![Granted].eps = Wider,
                        ![Granted].kind = IF Now = "enable_slot" THEN Plugged[port] ELSE @,
                        ![Granted].entries = IF Added0 = {} THEN @ ELSE set_context_entries(Wider)]
  BY Completes
<1>3. Now \in CurLabels \cup {"enable_slot"}
  BY <1>2 DEF CurLabels
<1>4. port \in Ports /\ Kind \in {"disk", "keyboard"} /\ Kind = Plugged[port]
  BY <1>1, <1>2, <1>3 DEF ScriptOK, Kind
<1>5. Added0 # {} => IF Now = "enable_slot" THEN Wider = {0} ELSE Wider = Ends(Kind)
  <2>1. CASE Now = "enable_slot"
    BY <1>2, <2>1 DEF Wider, Added0, Enabled, FreshSlot
  <2>2. CASE Now # "enable_slot"
    <3>1. /\ slots[cur].kind = Kind /\ Stage(slots[cur], Reached(Now, Kind), Kind)
          /\ Now = "max_lun" => Kind = "disk"
          /\ Now \in {"set_idle", "set_protocol"} => Kind = "keyboard"
      BY <1>1, <1>2, <1>3, <2>2 DEF ScriptOK
    <3>2. PICK q, k : q = Now /\ k = Kind
      OBVIOUS
    <3>3. Gained(q, k) # {} => Reached(q, k) = 3 /\ {0} \cup Gained(q, k) = Ends(k)
      BY <1>2, <1>4, <2>2, <3>1, <3>2, NextRequest
    <3>4. Gained(Now, Kind) # {} => slots[cur].eps = {0}
      BY <3>1, <3>2, <3>3 DEF Stage
    <3> QED BY <2>2, <3>2, <3>3, <3>4 DEF Wider, Added0, Granted
  <2> QED BY <2>1, <2>2
<1>6. PICK s, w, c, d, b :
        /\ s = Granted /\ w = Wider /\ c = (IF Added0 = {} THEN slots[s].entries ELSE set_context_entries(w))
        /\ d = (IF Now = "enable_slot" THEN Plugged[port] ELSE slots[s].kind)
        /\ b = (IF Now = "enable_slot" THEN slots[s].data ELSE "dead")
  OBVIOUS
<1>7. slots \in [Slots \cup {0} -> SlotType] /\ slots[s] \in SlotType /\ slots[0] \in SlotType /\ s \in Slots /\ 0 \notin Slots
  BY <1>1, <1>2, <1>6, IndexFacts DEF SlotsOK
<1>8. c \in 0 .. 31 /\ w \in SUBSET (0 .. 30) /\ d \in {"disk", "keyboard", "none"}
      /\ b \in {"null", "frame", "dead", "keyboard"}
  <2>1. c \in 0 .. 31
    BY <1>5, <1>6, <1>7, ContextEntries DEF SlotType
  <2>2. Added0 \in SUBSET (0 .. 30)
    BY IndexFacts DEF Added0, Gained
  <2>3. w \in SUBSET (0 .. 30)
    BY <1>6, <1>7, <2>2 DEF Wider, SlotType
  <2> QED BY <1>4, <1>6, <1>7, <2>1, <2>3 DEF SlotType
<1>9. PICK x, y : /\ x = [slots[0] EXCEPT !.data = IF Now = "enable_slot" THEN "null" ELSE @]
                  /\ y = [slots[s] EXCEPT !.data = b, !.eps = w, !.kind = d, !.entries = c]
  OBVIOUS
<1>10. slots' = [slots EXCEPT ![0] = x, ![s] = y]
  <2>1. slots' = [slots EXCEPT
                        ![0].data = IF Now = "enable_slot" THEN "null" ELSE @,
                        ![s].data = IF Now = "enable_slot" THEN @ ELSE "dead",
                        ![s].eps = w,
                        ![s].kind = IF Now = "enable_slot" THEN Plugged[port] ELSE @,
                        ![s].entries = IF Added0 = {} THEN @ ELSE set_context_entries(w)]
    BY <1>2, <1>6
  <2>2. slots' = [slots EXCEPT ![0] = x, ![s].data = b, ![s].eps = w, ![s].kind = d, ![s].entries = c]
    BY <1>6, <1>7, <1>9, <2>1 DEF SlotType
  <2> QED BY <1>7, <1>9, <2>2
<1>11. /\ x \in SlotType /\ x.handler = slots[0].handler /\ x.data \in {"null", slots[0].data}
  BY <1>7, <1>9 DEF SlotType
<1>12. /\ y \in SlotType /\ y.eps = w /\ y.kind = d /\ y.entries = c /\ y.state = slots[s].state
       /\ y.running = slots[s].running /\ y.handler = slots[s].handler
  <2>1. PICK z : z = slots[s]
    OBVIOUS
  <2>2. z \in SlotType /\ y = [z EXCEPT !.data = b, !.eps = w, !.kind = d, !.entries = c]
    BY <1>7, <1>9, <2>1
  <2>3. y.eps = w /\ y.kind = d /\ y.entries = c /\ y.state = z.state /\ y.running = z.running /\ y.handler = z.handler
    BY <2>2 DEF SlotType
  <2>4. y = [handler |-> z.handler, data |-> b, state |-> z.state, kind |-> d, running |-> z.running, eps |-> w, entries |-> c]
    BY <2>2 DEF SlotType
  <2>5. y \in SlotType
    BY <1>8, <2>2, <2>4 DEF SlotType
  <2> QED BY <2>1, <2>3, <2>5
<1>13. slots'[0] = x /\ slots'[s] = y /\ \A t \in Slots \ {s} : slots'[t] = slots[t]
  BY <1>7, <1>10
<1>14. slots' \in [Slots \cup {0} -> SlotType]
  BY <1>7, <1>10, <1>11, <1>12
<1>15. slots'[0].handler = "to_slot_0" /\ slots'[0].data \in {"null", "frame"}
  BY <1>1, <1>11, <1>13 DEF SlotsOK
<1> QED BY <1>5, <1>6, <1>12, <1>13, <1>14, <1>15

\* The list afterwards: the next request of the set-up comes first.
LEMMA CompletedList ==
  ASSUME NEW t, NEW k \in {"disk", "keyboard"}, NEW u, Linked(t, k), t # <<>>,
         Head(t) \in CommandLabels \cup ControlLabels,
         u = Tail(t) \o (IF Head(t) = "config" THEN IF k = "disk" THEN initialise_msd ELSE initialise_keyboard
                         ELSE <<>>)
  PROVE  /\ u # <<>> /\ Head(u) = Following(k)[Head(t)] /\ Linked(u, k)
         /\ IF Head(t) = "config" THEN t[Len(t)] = "config" ELSE u[Len(u)] = t[Len(t)]
<1>1. /\ Linked(Tail(t), k) /\ Head(t) \in Labels /\ t \in Seq(Labels) /\ Len(t) \in Nat \ {0}
      /\ Tail(t) # <<>> => Follows(k, Head(t), Head(Tail(t))) /\ Tail(t)[Len(Tail(t))] = t[Len(t)]
      /\ Tail(t) = <<>> => Head(t) \in Final /\ Len(t) = 1
  BY LinkedTail DEF Linked
<1>2. CASE Head(t) = "config"
  <2>1. Tail(t) = <<>> /\ t = <<"config">>
    BY <1>2, LinkedLast
  <2>2. t[Len(t)] = "config"
    BY <2>1
  <2>3. PICK v : v = IF k = "disk" THEN initialise_msd ELSE initialise_keyboard
    OBVIOUS
  <2>4. Linked(v, k)
    BY <2>3, LinkedScripts
  <2>5. v # <<>> /\ v \in Seq(Labels)
    BY <2>3, <2>4 DEF Linked, initialise_msd, initialise_keyboard
  <2>6. Head(v) = IF k = "disk" THEN "configure" ELSE "set_configuration"
    BY <2>3 DEF initialise_msd, initialise_keyboard
  <2>7. u = v
    BY <1>2, <2>1, <2>3, <2>5
  <2>8. Following(k)["config"] = IF k = "disk" THEN "configure" ELSE "set_configuration"
    BY <1>1, <1>2 DEF Following
  <2> QED BY <1>2, <2>2, <2>4, <2>5, <2>6, <2>7, <2>8
<1>3. CASE Head(t) # "config"
  <2>1. Head(t) \notin Final
    BY <1>3 DEF Final, CommandLabels, ControlLabels
  <2>2. Tail(t) # <<>> /\ Head(Tail(t)) = Following(k)[Head(t)] /\ Tail(t)[Len(Tail(t))] = t[Len(t)]
    BY <1>1, <2>1 DEF Follows
  <2>3. Tail(t) \in Seq(Labels)
    BY <1>1 DEF Linked
  <2>4. u = Tail(t)
    BY <1>3, <2>3
  <2> QED BY <1>1, <1>3, <2>2, <2>4
<1> QED BY <1>2, <1>3

\* A command or control transfer is over.
LEMMA CompleteKeeps ==
  ASSUME UsbInv, Complete, XhciRest, UsbRest, backend = "usb"
  PROVE  UsbInv' /\ Now' \notin BulkLabels
<1>1. /\ BusOK /\ RingsOK /\ SlotsOK /\ RequestOK /\ StagesOK /\ FlowOK /\ EventsOK
      /\ ScriptOK /\ DiskOK /\ CallOK /\ SideOK /\ SetUpInv
  BY DEF UsbInv, TrafficOK, SetUpInv
<1>2. /\ req.waiting /\ req.done /\ Answered /\ todo # <<>> /\ Now \in CommandLabels \cup ControlLabels
      /\ Granted \in Slots /\ (Now = "enable_slot" => Granted \in Enabled) /\ req' = Idle
      /\ rings' = [n \in DOMAIN rings \cup {<<Granted, e>> : e \in Added0} |->
                        IF n \in DOMAIN rings THEN rings[n] ELSE create_ring]
      /\ hw' = [n \in DOMAIN hw \cup {<<Granted, e>> : e \in Added0} |->
                        IF n \in DOMAIN hw THEN hw[n] ELSE StartPos]
      /\ todo' = Tail(todo) \o (IF Now = "config" THEN ClassScript(port) ELSE <<>>)
      /\ cur' = Granted
  BY Completes
<1>3. UNCHANGED <<changes, stages, port, stale, msd, mem, blk, backend, fs>>
  BY DEF Complete, XhciRest, UsbRest, usbVars, fsVars
<1>4. PICK s : s = Granted
  OBVIOUS
<1>5. /\ slots' \in [Slots \cup {0} -> SlotType]
      /\ slots'[s].eps = Wider /\ slots'[s].state = slots[s].state
      /\ slots'[s].running = slots[s].running /\ slots'[s].handler = slots[s].handler
      /\ slots'[s].kind = (IF Now = "enable_slot" THEN Plugged[port] ELSE slots[s].kind)
      /\ slots'[s].entries = IF Added0 = {} THEN slots[s].entries ELSE set_context_entries(Wider)
      /\ slots'[0].handler = "to_slot_0" /\ slots'[0].data \in {"null", "frame"}
      /\ \A t \in Slots \ {s} : slots'[t] = slots[t]
      /\ Added0 # {} => IF Now = "enable_slot" THEN Wider = {0} ELSE Wider = Ends(Kind)
  BY <1>4, CompletedSlots
<1>6. PICK N : N = {<<s, e>> : e \in Added0}
  OBVIOUS
<1>7. EventRing \notin N /\ s \in Slots /\ s # 0
  BY <1>2, <1>4, <1>6, IndexFacts DEF EventRing
<1>8. /\ BusOK' /\ Evs' = Evs
      /\ Queue' = [n \in DOMAIN Queue \cup N |-> IF n \in DOMAIN Queue THEN Queue[n] ELSE <<>>]
  <2>1. /\ rings' = [n \in DOMAIN rings \cup N |-> IF n \in DOMAIN rings THEN rings[n] ELSE create_ring]
        /\ hw' = [n \in DOMAIN hw \cup N |-> IF n \in DOMAIN hw THEN hw[n] ELSE StartPos]
    BY <1>2, <1>4, <1>6
  <2> QED BY <1>1, <1>7, <2>1, MakeStep
<1>9. DOMAIN Queue' = DOMAIN Queue \cup N /\ \A n \in DOMAIN Queue' : Queue'[n] = IF n \in DOMAIN Queue THEN Queue[n] ELSE <<>>
  BY <1>8
<1>10. slots[s].state # "off" /\ s \notin Armed /\ slots[s].handler \in {"to_slot_0", "copy"}
  <2>1. CASE Now = "enable_slot"
    BY <1>2, <1>4, <2>1 DEF Enabled, FreshSlot, Armed
  <2>2. CASE Now # "enable_slot"
    <3>1. Now \in CurLabels /\ s = cur
      BY <1>2, <1>4, <2>2 DEF CurLabels, Granted
    <3>2. Stage(slots[cur], Reached(Now, Kind), Kind) /\ slots[cur].handler \in {"to_slot_0", "copy"}
      BY <1>1, <1>2, <3>1 DEF ScriptOK
    <3> QED BY <3>1, <3>2, StageFacts DEF Armed
  <2> QED BY <2>1, <2>2
<1>11. Armed' = Armed
  BY <1>5, <1>7, <1>10 DEF Armed
<1>12. RingsOK'
  <2>1. CmdRing \in DOMAIN Queue'
    BY <1>1, <1>9 DEF RingsOK
  <2>2. \A e \in slots'[s].eps : <<s, e>> \in DOMAIN Queue'
    BY <1>1, <1>4, <1>5, <1>6, <1>7, <1>9 DEF RingsOK, Wider
  <2> QED BY <1>1, <1>5, <1>9, <2>1, <2>2 DEF RingsOK
<1>13. SlotsOK'
  <2>1. \A t \in Slots : slots'[t].state = "off" => slots'[t] = FreshSlot
    BY <1>1, <1>5, <1>7, <1>10 DEF SlotsOK
  <2>2. \A t \in Armed' : slots'[t].kind = "keyboard" /\ InIndex \in slots'[t].eps /\ slots'[t].state = "configured"
    BY <1>1, <1>5, <1>10, <1>11 DEF SlotsOK, Armed
  <2> QED BY <1>5, <2>1, <2>2 DEF SlotsOK
<1>14. RequestOK'
  <2>1. ~req'.waiting /\ req' = Idle /\ ~req'.done /\ req' \in [waiting : BOOLEAN, done : BOOLEAN, result : EventType]
    BY <1>2 DEF Idle, NoResult, EventType
  <2> QED BY <2>1 DEF RequestOK
<1>15. StagesOK'
  <2>1. ~req'.waiting
    BY <1>2 DEF Idle
  <2>2. Len(Queue[ReqRing]) = 0
    BY <1>2 DEF Answered
  <2>3. StagesOf(ReqTrbs, 0) = <<>>
    BY DEF StagesOf
  <2>4. stages = [t \in Slots |-> <<>>]
    BY <1>1, <2>2, <2>3 DEF StagesOK
  <2> QED BY <1>3, <2>1, <2>4 DEF StagesOK
<1>16. FlowOK'
  <2>1. \A n \in DOMAIN Queue' : Queue'[n] # <<>> => \E t \in Armed : n = <<t, InIndex>>
    BY <1>1, <1>2, <1>9 DEF FlowOK, Answered
  <2>2. \A t \in Armed : Len(Queue'[<<t, InIndex>>]) <= 1
    <3>1. \A t \in Armed : <<t, InIndex>> \in DOMAIN Queue
      BY <1>1 DEF RingsOK, SlotsOK, Armed
    <3> QED BY <1>1, <1>9, <3>1 DEF FlowOK
  <2> QED BY <1>11, <2>1, <2>2 DEF FlowOK
<1>17. EventsOK'
  <2>0. PICK v : v = Evs /\ v = Evs'
    BY <1>8
  <2>1. \A j \in 1 .. Len(v) : v[j].type = "port" \/ KeyEvent(v[j])
    BY <1>1, <1>2, <2>0 DEF EventsOK, AnswerEvent
  <2>2. ASSUME NEW e, KeyEvent(e) PROVE KeyEvent(e)'
    <3>1. e.slot \in Armed /\ Queue[<<e.slot, InIndex>>] = <<>>
          /\ e = [type |-> "transfer", slot |-> e.slot, code |-> 1, ed |-> FALSE]
      BY <2>2 DEF KeyEvent
    <3>2. <<e.slot, InIndex>> \in DOMAIN Queue
      BY <1>1, <3>1 DEF RingsOK, SlotsOK, Armed
    <3>3. Queue'[<<e.slot, InIndex>>] = <<>>
      BY <1>9, <3>1, <3>2
    <3> QED BY <1>11, <3>1, <3>3 DEF KeyEvent
  <2>3. \A j \in 1 .. Len(v) : v[j].type = "port" \/ KeyEvent(v[j])'
    BY <2>1, <2>2
  <2>4. \A i, j \in 1 .. Len(v) :
         v[i].type # "port" /\ v[j].type # "port" /\ Owner(v[i]) = Owner(v[j]) => i = j
    BY <1>1, <2>0 DEF EventsOK
  <2> QED BY <1>11, <2>0, <2>3, <2>4 DEF EventsOK, Owner
<1>18. Now \in CurLabels \cup {"enable_slot"} /\ (Now = "enable_slot" \/ Now \in CurLabels)
  BY <1>2 DEF CurLabels
<1>19. port \in Ports /\ Kind \in {"disk", "keyboard"} /\ Kind' = Kind /\ Kind = Plugged[port]
  BY <1>1, <1>2, <1>3, <1>18 DEF ScriptOK, Kind
<1>20. PICK q, k : q = Now /\ k = Kind
  OBVIOUS
<1>21. /\ todo' # <<>> /\ Now' = Following(k)[q] /\ Linked(todo', k)
       /\ IF q = "config" THEN todo[Len(todo)] = "config" ELSE todo'[Len(todo')] = todo[Len(todo)]
  <2>1. PICK t, u : t = todo /\ u = todo'
    OBVIOUS
  <2>2. Linked(t, k) /\ t # <<>> /\ Head(t) \in CommandLabels \cup ControlLabels /\ Head(t) = q
    BY <1>1, <1>2, <1>20, <2>1 DEF ScriptOK, Now
  <2>3. u = Tail(t) \o (IF Head(t) = "config" THEN IF k = "disk" THEN initialise_msd ELSE initialise_keyboard
                         ELSE <<>>)
    BY <1>2, <1>19, <1>20, <2>1 DEF ClassScript, Now
  <2>4. /\ u # <<>> /\ Head(u) = Following(k)[Head(t)] /\ Linked(u, k)
        /\ IF Head(t) = "config" THEN t[Len(t)] = "config" ELSE u[Len(u)] = t[Len(t)]
    BY <1>19, <1>20, <2>2, <2>3, CompletedList
  <2> QED BY <2>1, <2>2, <2>4 DEF Now
<1>22. /\ Following(k)[q] \in CurLabels
       /\ Following(k)[q] \in {"max_lun", "capacity"} => k = "disk"
       /\ Following(k)[q] \in {"set_idle", "set_protocol", "arm_keyboard"} => k = "keyboard"
       /\ slots'[s].kind = k /\ Stage(slots'[s], Rank(Following(k)[q], k), k)
  <2>1. CASE q = "enable_slot"
    <3>1. Following(k)[q] = "address_blocked"
      BY <2>1 DEF Following, Labels, CommandLabels
    <3>2. "address_blocked" \in CurLabels /\ Rank("address_blocked", k) = 1
      BY DEF CurLabels, CommandLabels, Rank
    <3>3. slots[s] = [FreshSlot EXCEPT !.state = "enabled"]
      BY <1>2, <1>4, <1>20, <2>1 DEF Enabled
    <3>4. Added0 = {0}
      BY <1>20, <2>1 DEF Added0
    <3>5. slots'[s].eps = {0} /\ slots'[s].state = "enabled" /\ slots'[s].running = {} /\ slots'[s].entries = 1
      BY <1>5, <1>20, <2>1, <3>3, <3>4, ContextEntries DEF FreshSlot
    <3>6. Stage(slots'[s], 1, k)
      BY <3>5 DEF Stage
    <3> QED BY <1>5, <1>19, <1>20, <2>1, <3>1, <3>2, <3>6
  <2>2. CASE q # "enable_slot"
    <3>1. s = cur /\ Added0 = Gained(q, k) /\ Wider = slots[s].eps \cup Gained(q, k)
      BY <1>4, <1>20, <2>2 DEF Granted, Added0, Wider
    <3>2. /\ slots[s].kind = k /\ Stage(slots[s], Reached(q, k), k)
          /\ q = "max_lun" => k = "disk"
          /\ q \in {"set_idle", "set_protocol"} => k = "keyboard"
      BY <1>1, <1>2, <1>18, <1>20, <2>2, <3>1 DEF ScriptOK
    <3>3. /\ Following(k)[q] \in CurLabels
          /\ Following(k)[q] \in {"max_lun", "capacity"} => k = "disk"
          /\ Following(k)[q] \in {"set_idle", "set_protocol", "arm_keyboard"} => k = "keyboard"
          /\ Gained(q, k) = {} => Rank(Following(k)[q], k) = Reached(q, k)
          /\ Gained(q, k) # {} => /\ Reached(q, k) = 3 /\ Rank(Following(k)[q], k) = 4
                                  /\ {0} \cup Gained(q, k) = Ends(k)
      <4>1. k \in {"disk", "keyboard"} /\ q \in (CommandLabels \cup ControlLabels) \ {"enable_slot"}
        BY <1>2, <1>19, <1>20, <2>2
      <4> QED BY <3>2, <4>1, NextRequest
    <3>4. CASE Gained(q, k) = {}
      <4>1. slots'[s].eps = slots[s].eps /\ slots'[s].entries = slots[s].entries /\ slots'[s].kind = slots[s].kind
        BY <1>5, <1>20, <2>2, <3>1, <3>4
      <4>2. SameDevice(slots[s], slots'[s])
        BY <1>5, <4>1 DEF SameDevice
      <4> QED BY <3>2, <3>3, <3>4, <4>1, <4>2, SameStage
    <3>5. CASE Gained(q, k) # {}
      <4>1. slots'[s].kind = k /\ slots'[s].eps = Ends(k) /\ slots'[s].entries = set_context_entries(Ends(k))
        BY <1>5, <1>20, <2>2, <3>1, <3>2, <3>5
      <4>2. slots'[s].state = "addressed" /\ slots'[s].running = {0}
        BY <1>5, <3>2, <3>3, <3>5 DEF Stage
      <4>3. \A e \in Ends(k) : e < slots'[s].entries
        BY <4>1, ContextEntries
      <4>4. Stage(slots'[s], 4, k)
        BY <4>1, <4>2, <4>3 DEF Stage
      <4> QED BY <3>3, <3>5, <4>1, <4>4
    <3> QED BY <3>4, <3>5
  <2> QED BY <2>1, <2>2
<1>23. ScriptOK'
  <2>1. ~req'.waiting /\ slots'[s].handler \in {"to_slot_0", "copy"} /\ cur' = s /\ port' = port
    BY <1>2, <1>3, <1>4, <1>5, <1>10 DEF Idle
  <2> QED BY <1>7, <1>19, <1>20, <1>21, <1>22, <2>1 DEF ScriptOK
<1>24. Now' \notin BulkLabels
  BY <1>21, <1>22 DEF CurLabels, CommandLabels, ControlLabels, BulkLabels
<1>25. DiskOK'
  <2>1. msd.slot # 0 => Stage(slots'[msd.slot], 5, "disk") /\ slots'[msd.slot].kind = "disk"
    <3> SUFFICES ASSUME msd.slot # 0, msd.slot = s
                 PROVE  Stage(slots'[s], 5, "disk") /\ slots'[s].kind = "disk"
      BY <1>1, <1>5 DEF DiskOK
    <3>1. Stage(slots[s], 5, "disk") /\ slots[s].kind = "disk" /\ slots[s].state = "configured"
      BY <1>1 DEF DiskOK, Stage
    <3>2. Now # "enable_slot"
      BY <1>2, <1>4, <3>1 DEF Enabled, FreshSlot
    <3>3. Added0 = {}
      <4>1. Added0 = Gained(q, k) /\ Stage(slots[s], Reached(q, k), k)
            /\ (q = "max_lun" => k = "disk") /\ (q \in {"set_idle", "set_protocol"} => k = "keyboard")
        BY <1>1, <1>2, <1>4, <1>18, <1>20, <3>2 DEF Added0, ScriptOK, Granted
      <4>2. Gained(q, k) # {} => Reached(q, k) = 3
        BY <1>2, <1>19, <1>20, <3>2, <4>1, NextRequest
      <4> QED BY <3>1, <4>1, <4>2 DEF Stage
    <3>4. SameDevice(slots[s], slots'[s])
      BY <1>4, <1>5, <3>2, <3>3 DEF SameDevice, Wider
    <3> QED BY <3>1, <3>4, SameStage DEF SameDevice
  <2> QED BY <1>1, <1>3, <1>24, <2>1 DEF DiskOK, BulkLabels
<1>26. CallOK'
  <2>1. todo # <<"register">>
    BY <1>2, BulkLists DEF Now, CommandLabels, ControlLabels
  <2>2. blk.st \notin {"call", "done"} /\ fs.st # "loop"
    BY <1>1, <1>2, <2>1 DEF CallOK
  <2>3. fs.st = "table" => todo'[Len(todo')] = "register"
    BY <1>1, <1>21 DEF CallOK
  <2> QED BY <1>1, <1>3, <1>21, <1>24, <2>2, <2>3 DEF CallOK
<1>27. SideOK'
  BY <1>1, <1>3 DEF SideOK
<1> QED BY <1>8, <1>12, <1>13, <1>14, <1>15, <1>16, <1>17, <1>23, <1>24, <1>25, <1>26, <1>27 DEF UsbInv, TrafficOK

-----------------------------------------------------------------------------
(* The interrupt handler takes an event.                                    *)

\* The events left are still a port's, a keyboard's or the answer.
LEMMA EventsDrop ==
  ASSUME BusOK, EventsOK, NEW v, v = Evs, Len(v) > 0, Evs' = Dropped(v), Armed' = Armed,
         \A j \in 1 .. Len(v) : j # 1 => v[j].type = "port" \/ KeyEvent(v[j])' \/ AnswerEvent(v[j])'
  PROVE  EventsOK'
<1>1. Len(v) \in Nat
  BY QueueSeqs
<1>2. PICK w, k : w = Dropped(v) /\ k = Len(v)
  OBVIOUS
<1>3. k \in Nat /\ k > 0 /\ w = [j \in 1 .. k - 1 |-> v[j + 1]]
  BY <1>1, <1>2 DEF Dropped
<1>4. Len(w) = k - 1
  BY <1>3, LengthIs
<1>5. \A j \in 1 .. k - 1 : j + 1 \in 1 .. k /\ j + 1 # 1 /\ w[j] = v[j + 1]
  BY <1>3
<1>6. \A j \in 1 .. k - 1 : w[j].type = "port" \/ KeyEvent(w[j])' \/ AnswerEvent(w[j])'
  BY <1>2, <1>5
<1>7. ASSUME NEW i \in 1 .. k - 1, NEW j \in 1 .. k - 1, w[i].type # "port", w[j].type # "port", Owner(w[i]) = Owner(w[j])
      PROVE  i = j
  <2>1. i + 1 = j + 1
    BY <1>2, <1>5, <1>7 DEF EventsOK
  <2> QED BY <1>3, <2>1
<1>8. \A i, j \in 1 .. k - 1 : w[i].type # "port" /\ w[j].type # "port" /\ Owner(w[i])' = Owner(w[j])' => i = j
  BY <1>7 DEF Owner
<1>9. Evs' = w /\ Len(w) = k - 1
  BY <1>2, <1>4
<1> QED BY <1>6, <1>8, <1>9 DEF EventsOK

\* What a step leaves alone that keeps the request's ring.
LEMMA BusStep ==
  ASSUME UsbInv, RequestKept, slots' = slots, stages' = stages, port' = port,
         req'.waiting = req.waiting, BusOK', DOMAIN Queue' = DOMAIN Queue,
         req.waiting => Queue'[ReqRing] = Queue[ReqRing]
  PROVE  /\ RingsOK' /\ SlotsOK' /\ StagesOK' /\ ScriptOK' /\ DiskOK' /\ Armed' = Armed /\ Replies' = Replies
         /\ ReqRing' = ReqRing /\ (req.waiting => Answered' = Answered)
         /\ req' = req => RequestOK'
<1>1. /\ BusOK /\ RingsOK /\ SlotsOK /\ RequestOK /\ StagesOK /\ ScriptOK /\ DiskOK
  BY DEF UsbInv, TrafficOK
<1>2. Now' = Now /\ Target' = Target /\ ReqRing' = ReqRing /\ ReqTrbs' = ReqTrbs /\ Replies' = Replies
  BY NowKept, RepliesKept
<1>3. Armed' = Armed
  BY DEF Armed
<1>4. RingsOK' /\ SlotsOK'
  BY <1>1, <1>3 DEF RingsOK, SlotsOK
<1>5. req.waiting => Answered' = Answered
  BY <1>2 DEF Answered
<1>6. ScriptOK' /\ DiskOK'
  BY <1>1, <1>5, ScriptKept
<1>7. cur' = cur /\ todo' = todo
  BY DEF RequestKept
<1>8. StagesOK'
  <2>1. CASE req.waiting
    BY <1>1, <1>2, <1>7, <2>1 DEF StagesOK
  <2>2. CASE ~req.waiting
    BY <1>1, <2>2 DEF StagesOK
  <2> QED BY <2>1, <2>2
<1>9. ASSUME req' = req PROVE RequestOK'
  <2>1. CASE req.waiting
    BY <1>1, <1>2, <1>5, <1>7, <1>9, <2>1 DEF RequestOK
  <2>2. CASE ~req.waiting
    <3>1. req = Idle /\ ~req.done
      BY <1>1, <2>2 DEF RequestOK, Idle
    <3> QED BY <1>1, <1>9, <2>2, <3>1 DEF RequestOK
  <2> QED BY <2>1, <2>2
<1> QED BY <1>2, <1>3, <1>4, <1>5, <1>6, <1>8, <1>9

\* The handler takes the event at the head and leaves the kernel running.
LEMMA InterruptKeeps ==
  ASSUME UsbInv, Interrupt
  PROVE  UsbInv' /\ ~halted' /\ req'.waiting = req.waiting /\ (req.waiting => Answered' = Answered)
<1>1. /\ BusOK /\ RingsOK /\ SlotsOK /\ RequestOK /\ StagesOK /\ FlowOK /\ EventsOK
      /\ ScriptOK /\ DiskOK /\ CallOK /\ SideOK /\ SetUpInv
  BY DEF UsbInv, TrafficOK, SetUpInv
<1>2. /\ ~halted
      /\ UNCHANGED <<hw, changes, stages, slots, todo, cur, port, msd, mem, blk, backend, fs>>
  BY DEF Interrupt, handle_incoming_event, XhciRest, UsbRest, usbVars, fsVars
<1>3. RequestKept
  BY <1>2 DEF RequestKept
<1>4. CallOK'
  BY <1>1, <1>2 DEF CallOK, Now
<1>5. CASE ~Dequeuable(rings[EventRing])
  <2>1. rings' = rings /\ req' = req /\ stale' = stale /\ halted' = halted
    BY <1>5 DEF Interrupt, handle_incoming_event
  <2>2. Quiet /\ Queue' = Queue
    BY <1>2, <1>3, <2>1 DEF Quiet, Queue
  <2>3. TrafficOK'
    BY <2>2, QuietKeeps DEF UsbInv
  <2>4. ScriptOK' /\ DiskOK'
    BY <1>1, <1>2, <1>3, <2>1, <2>2, ScriptKept, NowKept DEF Answered
  <2>5. Answered' = Answered
    BY <1>3, <2>2, NowKept DEF Answered
  <2> QED BY <1>1, <1>2, <1>4, <2>1, <2>3, <2>4, <2>5 DEF UsbInv, SideOK
<1>6. CASE Dequeuable(rings[EventRing])
  <2>1. PICK v, e : v = Evs /\ e = Evs[1]
    OBVIOUS
  <2>2. Len(v) > 0 /\ rings[EventRing].trb[rings[EventRing].idx] = e /\ Len(v) \in Nat
    BY <1>1, <1>6, <2>1, DequeuedIs, QueueSeqs
  <2>3. e.type = "port" \/ KeyEvent(e) \/ AnswerEvent(e)
    BY <1>1, <2>1, <2>2 DEF EventsOK
  <2>4. \A j \in 1 .. Len(v) : v[j].type = "port" \/ KeyEvent(v[j]) \/ AnswerEvent(v[j])
    BY <1>1, <2>1 DEF EventsOK
  <2>5. \A j \in 1 .. Len(v) : j # 1 /\ v[j].type # "port" /\ e.type # "port" => Owner(v[j]) # Owner(e)
    BY <1>1, <2>1, <2>2 DEF EventsOK
  <2>6. /\ e.type = "port" => Ignore
        /\ e.type # "port" /\ slots[e.slot].handler = "copy" => CopyTo(e.slot, e)
        /\ e.type # "port" /\ slots[e.slot].handler = "to_slot_0" => CopyTo(0, e)
        /\ e.type # "port" /\ slots[e.slot].handler = "packet_recv" => packet_recv(e)
    BY <1>6, <2>2 DEF Interrupt, handle_incoming_event
  <2>7. CASE e.type = "port"
    <3>1. /\ rings' = [rings EXCEPT ![EventRing] = dequeue_ring(@)] /\ req' = req /\ stale' = stale /\ halted' = halted
      BY <2>6, <2>7 DEF Ignore
    <3>2. BusOK' /\ Queue' = Queue /\ Evs' = Dropped(v)
      BY <1>1, <1>2, <1>6, <2>1, <3>1, DequeueStep
    <3>3. /\ RingsOK' /\ SlotsOK' /\ StagesOK' /\ ScriptOK' /\ DiskOK' /\ Armed' = Armed /\ Replies' = Replies
          /\ ReqRing' = ReqRing /\ (req.waiting => Answered' = Answered) /\ RequestOK'
      BY <1>2, <1>3, <3>1, <3>2, BusStep
    <3>4. FlowOK'
      BY <1>1, <3>1, <3>2, <3>3 DEF FlowOK
    <3>5. \A j \in 1 .. Len(v) : j # 1 => v[j].type = "port" \/ KeyEvent(v[j])' \/ AnswerEvent(v[j])'
      BY <2>4, <3>1, <3>2, <3>3 DEF KeyEvent, AnswerEvent
    <3>6. EventsOK'
      BY <1>1, <2>1, <2>2, <3>2, <3>3, <3>5, EventsDrop
    <3>7. SideOK' /\ ~halted'
      BY <1>1, <1>2, <3>1 DEF SideOK
    <3> QED BY <1>4, <3>1, <3>2, <3>3, <3>4, <3>6, <3>7 DEF UsbInv, TrafficOK
  <2>8. CASE KeyEvent(e)
    <3>1. /\ e.slot \in Armed /\ Queue[<<e.slot, InIndex>>] = <<>> /\ e.type = "transfer" /\ e.code = 1
      BY <2>8 DEF KeyEvent
    <3>2. PICK n : n = <<e.slot, InIndex>>
      OBVIOUS
    <3>3. /\ ~halted' /\ req' = req /\ stale' = stale
          /\ rings' = [rings EXCEPT ![EventRing] = dequeue_ring(@), ![n] = enqueue_ring(@, ReportTrb)]
      BY <2>6, <3>1, <3>2 DEF packet_recv, Armed
    <3>4. n \in DOMAIN Queue
      BY <1>1, <3>1, <3>2 DEF RingsOK, SlotsOK, Armed
    <3>5. BusOK' /\ Queue' = [Queue EXCEPT ![n] = <<ReportTrb>>] /\ Evs' = Dropped(v)
      <4>1. ReportTrb.type # "link"
        BY DEF ReportTrb
      <4> QED BY <1>1, <1>2, <1>6, <2>1, <3>1, <3>2, <3>3, <3>4, <4>1, RearmStep
    <3>6. DOMAIN Queue' = DOMAIN Queue /\ Queue'[n] = <<ReportTrb>> /\ \A r \in DOMAIN Queue \ {n} : Queue'[r] = Queue[r]
      BY <3>4, <3>5
    <3>7. req.waiting => ReqRing # n /\ ReqRing \in DOMAIN Queue
      BY <1>1, <3>1, <3>2, RequestRing DEF RequestOK, RequestLabels
    <3>8. /\ RingsOK' /\ SlotsOK' /\ StagesOK' /\ ScriptOK' /\ DiskOK' /\ Armed' = Armed /\ Replies' = Replies
          /\ ReqRing' = ReqRing /\ (req.waiting => Answered' = Answered) /\ RequestOK'
      BY <1>2, <1>3, <3>3, <3>5, <3>6, <3>7, BusStep
    <3>9. FlowOK'
      <4>1. \A r \in DOMAIN Queue' : Queue'[r] # <<>> =>
              (req'.waiting /\ r = ReqRing') \/ \E s \in Armed' : r = <<s, InIndex>>
        BY <1>1, <3>1, <3>2, <3>3, <3>6, <3>8 DEF FlowOK
      <4>2. Len(<<ReportTrb>>) <= 1
        OBVIOUS
      <4>3. \A s \in Armed : <<s, InIndex>> \in DOMAIN Queue
        BY <1>1 DEF RingsOK, SlotsOK, Armed
      <4>4. \A s \in Armed' : Len(Queue'[<<s, InIndex>>]) <= 1
        BY <1>1, <3>6, <3>8, <4>2, <4>3 DEF FlowOK
      <4> QED BY <4>1, <4>4 DEF FlowOK
    <3>10. ASSUME NEW j \in 1 .. Len(v), j # 1, v[j].type # "port"
           PROVE  KeyEvent(v[j])' \/ AnswerEvent(v[j])'
      <4>1. CASE KeyEvent(v[j])
        <5>1. v[j].slot \in Armed /\ Queue[<<v[j].slot, InIndex>>] = <<>>
              /\ v[j] = [type |-> "transfer", slot |-> v[j].slot, code |-> 1, ed |-> FALSE]
          BY <4>1 DEF KeyEvent
        <5>2. v[j].slot # e.slot
          BY <2>5, <3>1, <3>10, <5>1 DEF Owner
        <5>3. <<v[j].slot, InIndex>> \in DOMAIN Queue \ {n}
          BY <1>1, <3>2, <5>1, <5>2 DEF RingsOK, SlotsOK, Armed
        <5>4. Queue'[<<v[j].slot, InIndex>>] = <<>>
          BY <3>6, <5>1, <5>3
        <5> QED BY <3>8, <5>1, <5>4 DEF KeyEvent
      <4>2. CASE AnswerEvent(v[j])
        BY <3>3, <3>8, <4>2 DEF AnswerEvent
      <4> QED BY <2>4, <3>10, <4>1, <4>2
    <3>11. EventsOK'
      BY <1>1, <2>1, <2>2, <3>5, <3>8, <3>10, EventsDrop
    <3>12. SideOK'
      BY <1>1, <1>2, <3>3 DEF SideOK
    <3> QED BY <1>4, <3>3, <3>5, <3>8, <3>9, <3>11, <3>12 DEF UsbInv, TrafficOK
  <2>9. CASE AnswerEvent(e)
    <3>1. req.waiting /\ ~req.done /\ Answered /\ e \in Replies
      BY <2>9 DEF AnswerEvent
    <3>2. /\ e.type \in {"command", "transfer"} /\ e.code = 1 /\ e.ed \in BOOLEAN
          /\ e = [type |-> e.type, slot |-> e.slot, code |-> 1, ed |-> e.ed]
          /\ e.slot \in IF Now = "enable_slot" THEN Enabled ELSE {Target}
      <4>1. PICK s \in (IF Now = "enable_slot" THEN Enabled ELSE {Target}) :
               e = [type |-> IF Now \in CommandLabels THEN "command" ELSE "transfer", slot |-> s, code |-> 1,
                    ed |-> Now \in ControlLabels]
        BY <3>1 DEF Replies
      <4>2. PICK x, y : x = (IF Now \in CommandLabels THEN "command" ELSE "transfer") /\ y = (Now \in ControlLabels)
        OBVIOUS
      <4>3. e = [type |-> x, slot |-> s, code |-> 1, ed |-> y] /\ x \in {"command", "transfer"} /\ y \in BOOLEAN
        BY <4>1, <4>2
      <4> QED BY <4>1, <4>3
    <3>3. todo # <<>> /\ Now \in RequestLabels /\ (Now # "enable_slot" => Target \in Slots /\ Target \notin Armed)
      BY <1>1, <3>1, RequestRing DEF RequestOK, RequestLabels
    <3>4. e.slot \in Slots /\ e.slot \notin Armed /\ e \in EventType
      BY <3>2, <3>3 DEF Enabled, Armed, FreshSlot, EventType
    <3>5. PICK t : slots[t].data = "frame" /\ CopyTo(t, e)
      <4>1. CASE Now = "enable_slot"
        <5>1. slots[0].data = "frame"
          BY <1>1, <3>1, <4>1 DEF RequestOK
        <5>2. slots[e.slot].handler = "to_slot_0"
          BY <3>2, <4>1 DEF Enabled, FreshSlot
        <5> QED BY <2>6, <3>2, <5>1, <5>2
      <4>2. CASE Now # "enable_slot"
        <5>1. slots[Target].data = "frame" /\ slots[Target].handler = "copy" /\ e.slot = Target
          BY <1>1, <3>1, <3>2, <4>2 DEF RequestOK
        <5> QED BY <2>6, <3>2, <5>1
      <4> QED BY <4>1, <4>2
    <3>6. /\ req' = [req EXCEPT !.done = TRUE, !.result = e] /\ ~stale' /\ ~halted'
          /\ rings' = [rings EXCEPT ![EventRing] = dequeue_ring(@)]
      <4>1. ~stale /\ slots[t].data # "dead" /\ slots[t].data \notin {"null", "keyboard"}
        BY <1>1, <3>5 DEF SideOK
      <4> QED BY <3>5, <4>1 DEF CopyTo
    <3>7. BusOK' /\ Queue' = Queue /\ Evs' = Dropped(v)
      BY <1>1, <1>2, <1>6, <2>1, <3>6, DequeueStep
    <3>8. req'.waiting = req.waiting /\ req'.done = TRUE /\ req'.result = e
          /\ req' \in [waiting : BOOLEAN, done : BOOLEAN, result : EventType]
      <4>1. req \in [waiting : BOOLEAN, done : BOOLEAN, result : EventType]
        BY <1>1 DEF RequestOK
      <4> QED BY <3>4, <3>6, <4>1
    <3>9. /\ RingsOK' /\ SlotsOK' /\ StagesOK' /\ ScriptOK' /\ DiskOK' /\ Armed' = Armed /\ Replies' = Replies
          /\ ReqRing' = ReqRing /\ (req.waiting => Answered' = Answered)
      BY <1>2, <1>3, <3>7, <3>8, BusStep
    <3>10. RequestOK'
      <4>1. Now' = Now /\ Target' = Target /\ ReqTrbs' = ReqTrbs
        BY <1>3, NowKept
      <4>2. Answered' /\ req'.result \in Replies'
        BY <3>1, <3>8, <3>9
      <4>3. /\ todo' # <<>> /\ Now' \in CommandLabels \cup ControlLabels \cup BulkLabels
            /\ IF Now' = "enable_slot" THEN slots'[0].data = "frame"
               ELSE slots'[Target'].handler = "copy" /\ slots'[Target'].data = "frame"
        BY <1>1, <1>2, <3>1, <4>1 DEF RequestOK
      <4>4. Len(Queue'[ReqRing']) <= Len(ReqTrbs') /\ Queue'[ReqRing'] = Rest(ReqTrbs', Len(Queue'[ReqRing']))
        BY <1>1, <3>1, <3>7, <3>9, <4>1 DEF RequestOK
      <4> QED BY <3>1, <3>8, <4>2, <4>3, <4>4 DEF RequestOK
    <3>11. FlowOK'
      BY <1>1, <3>7, <3>8, <3>9 DEF FlowOK
    <3>12. ASSUME NEW j \in 1 .. Len(v), j # 1, v[j].type # "port"
           PROVE  KeyEvent(v[j])'
      <4>1. Owner(e) = 0 /\ Owner(v[j]) # 0
        BY <2>5, <3>2, <3>4, <3>12 DEF Owner
      <4>2. ~AnswerEvent(v[j])
        <5> SUFFICES ASSUME AnswerEvent(v[j]) PROVE FALSE
          OBVIOUS
        <5>1. v[j].slot \in IF Now = "enable_slot" THEN Enabled ELSE {Target}
          BY DEF AnswerEvent, Replies
        <5>2. v[j].slot \notin Armed
          BY <3>3, <5>1 DEF Enabled, Armed, FreshSlot
        <5> QED BY <4>1, <5>2 DEF Owner
      <4>3. KeyEvent(v[j])
        BY <2>4, <3>12, <4>2
      <4> QED BY <3>7, <3>9, <4>3 DEF KeyEvent
    <3>13. EventsOK'
      BY <1>1, <2>1, <2>2, <3>7, <3>9, <3>12, EventsDrop
    <3>14. SideOK'
      BY <1>1, <1>2, <3>6 DEF SideOK
    <3> QED BY <1>4, <3>6, <3>7, <3>8, <3>9, <3>10, <3>11, <3>13, <3>14 DEF UsbInv, TrafficOK
  <2> QED BY <2>3, <2>7, <2>8, <2>9
<1> QED BY <1>5, <1>6

-----------------------------------------------------------------------------
(* The controller.                                                          *)

\* An event posted that is a port's, a keyboard's or the answer, with none of
\* its owner's before it.
LEMMA EventsAdd ==
  ASSUME BusOK, EventsOK, NEW v, v = Evs, NEW e, Evs' = Added(v, e), Armed' = Armed,
         e.type = "port" \/ KeyEvent(e)' \/ AnswerEvent(e)',
         \A j \in 1 .. Len(v) : v[j].type = "port" \/ KeyEvent(v[j])' \/ AnswerEvent(v[j])',
         \A j \in 1 .. Len(v) : v[j].type # "port" /\ e.type # "port" => Owner(v[j]) # Owner(e)
  PROVE  EventsOK'
<1>1. Len(v) \in Nat
  BY QueueSeqs
<1>2. PICK w, k : w = Added(v, e) /\ k = Len(v)
  OBVIOUS
<1>3. k \in Nat /\ w = [j \in 1 .. k + 1 |-> IF j = k + 1 THEN e ELSE v[j]]
  BY <1>1, <1>2 DEF Added
<1>4. Len(w) = k + 1
  BY <1>3, LengthIs
<1>5. w[k + 1] = e /\ \A j \in 1 .. k + 1 : j # k + 1 => j \in 1 .. k /\ w[j] = v[j]
  BY <1>3
<1>6. \A j \in 1 .. k + 1 : w[j].type = "port" \/ KeyEvent(w[j])' \/ AnswerEvent(w[j])'
  BY <1>2, <1>5
<1>7. \A i, j \in 1 .. k : v[i].type # "port" /\ v[j].type # "port" /\ Owner(v[i]) = Owner(v[j]) => i = j
  BY <1>2 DEF EventsOK
<1>8. \A i, j \in 1 .. k + 1 : w[i].type # "port" /\ w[j].type # "port" /\ Owner(w[i]) = Owner(w[j]) => i = j
  BY <1>2, <1>5, <1>7
<1>9. \A i, j \in 1 .. k + 1 : w[i].type # "port" /\ w[j].type # "port" /\ Owner(w[i])' = Owner(w[j])' => i = j
  BY <1>8 DEF Owner
<1>10. Evs' = w /\ Len(w) = k + 1
  BY <1>2, <1>4
<1> QED BY <1>6, <1>9, <1>10 DEF EventsOK

\* A port's change is reported.
LEMMA PortChangeKeeps ==
  ASSUME UsbInv, CtlPortChange, XhciRest, UsbRest
  PROVE  UsbInv' /\ halted' = halted /\ req' = req /\ (req.waiting => Answered' = Answered)
<1>1. /\ BusOK /\ RingsOK /\ SlotsOK /\ RequestOK /\ StagesOK /\ FlowOK /\ EventsOK
      /\ ScriptOK /\ DiskOK /\ CallOK /\ SideOK
  BY DEF UsbInv, TrafficOK
<1>2. /\ UNCHANGED <<stages, slots, todo, cur, port, stale, req, msd, mem, blk, backend, fs, halted>>
      /\ changes > 0 /\ changes' = changes - 1
  BY DEF CtlPortChange, drvVars, XhciRest, UsbRest, usbVars, fsVars
<1>3. PICK v, e : v = Evs /\ e = [type |-> "port", slot |-> 0, code |-> 1, ed |-> FALSE]
  OBVIOUS
<1>4. BusOK' /\ Queue' = Queue /\ Evs' = Added(v, e)
  BY <1>1, <1>3, PostStep DEF CtlPortChange
<1>5. RequestKept
  BY <1>2 DEF RequestKept
<1>6. /\ RingsOK' /\ SlotsOK' /\ StagesOK' /\ ScriptOK' /\ DiskOK' /\ Armed' = Armed /\ Replies' = Replies
      /\ ReqRing' = ReqRing /\ (req.waiting => Answered' = Answered) /\ RequestOK'
  BY <1>2, <1>4, <1>5, BusStep
<1>7. FlowOK'
  BY <1>1, <1>2, <1>4, <1>6 DEF FlowOK
<1>8. \A j \in 1 .. Len(v) : v[j].type = "port" \/ KeyEvent(v[j])' \/ AnswerEvent(v[j])'
  <2>1. \A j \in 1 .. Len(v) : v[j].type = "port" \/ KeyEvent(v[j]) \/ AnswerEvent(v[j])
    BY <1>1, <1>3 DEF EventsOK
  <2> QED BY <1>2, <1>4, <1>6, <2>1 DEF KeyEvent, AnswerEvent
<1>9. EventsOK'
  <2>1. e.type = "port"
    BY <1>3
  <2> QED BY <1>1, <1>3, <1>4, <1>6, <1>8, <2>1, EventsAdd
<1>10. CallOK' /\ SideOK'
  BY <1>1, <1>2 DEF CallOK, SideOK, Now
<1> QED BY <1>2, <1>4, <1>6, <1>7, <1>9, <1>10 DEF UsbInv, TrafficOK

\* A ring whose doorbell was rung and that has a TRB is the request's, or a
\* keyboard's.
LEMMA ReadyRing ==
  ASSUME UsbInv, NEW n, n # EventRing, Ready(n)
  PROVE  /\ n \in DOMAIN Queue /\ Available(rings[n], hw[n]) /\ Len(Queue[n]) \in Nat \ {0} /\ Queue[n] # <<>>
         /\ Taken(rings[n], hw[n]) = Queue[n][1]
         /\ \/ req.waiting /\ n = ReqRing /\ ~Answered /\ ~req.done
            \/ \E s \in Armed : n = <<s, InIndex>>
<1>1. BusOK /\ FlowOK /\ RequestOK
  BY DEF UsbInv, TrafficOK
<1>2. n \in DOMAIN Queue /\ Available(rings[n], hw[n])
  BY DEF Ready, Queue
<1>3. Len(Queue[n]) \in Nat \ {0} /\ Queue[n] # <<>> /\ Taken(rings[n], hw[n]) = Queue[n][1]
  BY <1>1, <1>2, TakeOne, QueueSeqs
<1>4. \/ req.waiting /\ n = ReqRing /\ ~Answered
      \/ \E s \in Armed : n = <<s, InIndex>>
  BY <1>1, <1>2, <1>3 DEF FlowOK, Answered
<1>5. req.done => Answered
  BY <1>1 DEF RequestOK
<1> QED BY <1>2, <1>3, <1>4, <1>5

\* What the request's ring says of the request.
LEMMA RingTells ==
  ASSUME UsbInv, req.waiting
  PROVE  /\ todo # <<>> /\ Now \in RequestLabels /\ ReqRing \in DOMAIN Queue
         /\ Now # "enable_slot" => Target \in Slots /\ Target \notin Armed
         /\ \A s \in Armed : ReqRing # <<s, InIndex>>
         /\ ReqRing = CmdRing => Now \in CommandLabels
         /\ \A s \in Slots : ReqRing = <<s, 0>> => Now \in ControlLabels /\ s = cur
         /\ \A s \in Slots, e \in {InIndex, OutIndex} : ReqRing = <<s, e>> => Now \in BulkLabels /\ s = msd.slot /\ e = BulkRing(Now)
<1>1. SetUpInv /\ todo # <<>> /\ Now \in RequestLabels
  BY DEF UsbInv, TrafficOK, RequestOK, SetUpInv, RequestLabels
<1>2. /\ ReqRing \in DOMAIN Queue
      /\ Now # "enable_slot" => Target \in Slots /\ Target \notin Armed
      /\ \A s \in Armed : ReqRing # <<s, InIndex>>
  BY <1>1, RequestRing
<1>3. CASE Now \in CommandLabels
  <2>1. ReqRing = <<0, 0>>
    BY <1>3 DEF ReqRing, RingOf, CmdRing
  <2> QED BY <1>1, <1>2, <1>3, <2>1, IndexFacts
<1>4. CASE Now \in ControlLabels
  <2>1. ReqRing = <<cur, 0>> /\ Now # "enable_slot" /\ Target = cur
    BY <1>4 DEF ReqRing, RingOf, CommandLabels, ControlLabels, BulkLabels, Target
  <2> QED BY <1>1, <1>2, <1>4, <2>1, IndexFacts DEF CmdRing
<1>5. CASE Now \in BulkLabels
  <2>1. ReqRing = <<msd.slot, BulkRing(Now)>> /\ Now # "enable_slot" /\ Target = msd.slot
    BY <1>5 DEF ReqRing, RingOf, CommandLabels, ControlLabels, BulkLabels, Target
  <2>2. BulkRing(Now) \in {InIndex, OutIndex}
    BY DEF BulkRing
  <2> QED BY <1>1, <1>2, <1>5, <2>1, <2>2, IndexFacts DEF CmdRing
<1> QED BY <1>1, <1>3, <1>4, <1>5 DEF RequestLabels

\* A keyboard's report.
LEMMA ReportKeeps ==
  ASSUME UsbInv, NEW s \in Slots, CtlReport(s), XhciRest, UsbRest
  PROVE  UsbInv' /\ halted' = halted /\ req' = req /\ (req.waiting => Answered' = Answered)
<1>1. /\ BusOK /\ RingsOK /\ SlotsOK /\ RequestOK /\ StagesOK /\ FlowOK /\ EventsOK
      /\ ScriptOK /\ DiskOK /\ CallOK /\ SideOK
  BY DEF UsbInv, TrafficOK
<1>2. /\ UNCHANGED <<changes, stages, slots, todo, cur, port, stale, req, msd, mem, blk, backend, fs, halted>>
      /\ slots[s].kind = "keyboard" /\ Ready(<<s, InIndex>>)
  BY DEF CtlReport, XhciRest, UsbRest, usbVars, fsVars
<1>3. PICK v, e, n : v = Evs /\ e = [type |-> "transfer", slot |-> s, code |-> 1, ed |-> FALSE] /\ n = <<s, InIndex>>
  OBVIOUS
<1>4. /\ n # EventRing /\ n \in DOMAIN Queue /\ Available(rings[n], hw[n]) /\ Len(Queue[n]) \in Nat \ {0} /\ Queue[n] # <<>>
      /\ \/ req.waiting /\ n = ReqRing
         \/ \E a \in Armed : n = <<a, InIndex>>
  <2>1. n # EventRing
    BY <1>3, IndexFacts DEF EventRing
  <2> QED BY <1>2, <1>3, <2>1, ReadyRing
<1>5. s \in Armed
  <2>1. req.waiting /\ n = ReqRing => s = msd.slot /\ msd.slot # 0
    BY <1>3, RingTells, IndexFacts
  <2>2. msd.slot # 0 => slots[msd.slot].kind = "disk"
    BY <1>1 DEF DiskOK
  <2> QED BY <1>2, <1>3, <1>4, <2>1, <2>2
<1>6. req.waiting => ReqRing # n /\ ReqRing \in DOMAIN Queue
  BY <1>3, <1>5, RingTells
<1>7. Len(Queue[n]) = 1
  <2>1. Len(Queue[n]) <= 1
    BY <1>1, <1>3, <1>5 DEF FlowOK
  <2>2. PICK L : L = Len(Queue[n])
    OBVIOUS
  <2>3. L \in Nat \ {0} /\ L <= 1
    BY <1>4, <2>1, <2>2
  <2>4. L = 1
    BY <2>3
  <2> QED BY <2>2, <2>4
<1>8. Dropped(Queue[n]) = <<>>
  <2>1. Dropped(Queue[n]) = [j \in 1 .. 1 - 1 |-> Queue[n][j + 1]]
    BY <1>7 DEF Dropped
  <2>2. 1 .. 1 - 1 = {}
    OBVIOUS
  <2> QED BY <2>1, <2>2
<1>9. BusOK' /\ Queue' = [Queue EXCEPT ![n] = Dropped(Queue[n])] /\ Evs' = Added(v, e)
  <2>1. PostFor(n, e)
    BY <1>3 DEF CtlReport
  <2> QED BY <1>1, <1>3, <1>4, <2>1, PostForStep
<1>10. DOMAIN Queue' = DOMAIN Queue /\ Queue'[n] = <<>> /\ \A r \in DOMAIN Queue \ {n} : Queue'[r] = Queue[r]
  BY <1>4, <1>8, <1>9
<1>11. RequestKept
  BY <1>2 DEF RequestKept
<1>12. /\ RingsOK' /\ SlotsOK' /\ StagesOK' /\ ScriptOK' /\ DiskOK' /\ Armed' = Armed /\ Replies' = Replies
       /\ ReqRing' = ReqRing /\ (req.waiting => Answered' = Answered) /\ RequestOK'
  BY <1>2, <1>6, <1>9, <1>10, <1>11, BusStep
<1>13. FlowOK'
  <2>1. \A r \in DOMAIN Queue' : Queue'[r] # <<>> =>
          (req'.waiting /\ r = ReqRing') \/ \E a \in Armed' : r = <<a, InIndex>>
    BY <1>1, <1>2, <1>10, <1>12 DEF FlowOK
  <2>2. \A a \in Armed : <<a, InIndex>> \in DOMAIN Queue
    BY <1>1 DEF RingsOK, SlotsOK, Armed
  <2>3. Len(<<>>) <= 1
    OBVIOUS
  <2>4. \A a \in Armed' : Len(Queue'[<<a, InIndex>>]) <= 1
    BY <1>1, <1>10, <1>12, <2>2, <2>3 DEF FlowOK
  <2> QED BY <2>1, <2>4 DEF FlowOK
<1>14. KeyEvent(e)'
  BY <1>3, <1>5, <1>10, <1>12 DEF KeyEvent
<1>15. ASSUME NEW j \in 1 .. Len(v), v[j].type # "port"
       PROVE  (KeyEvent(v[j])' \/ AnswerEvent(v[j])') /\ Owner(v[j]) # Owner(e)
  <2>1. CASE KeyEvent(v[j])
    <3>1. v[j].slot \in Armed /\ Queue[<<v[j].slot, InIndex>>] = <<>>
          /\ v[j] = [type |-> "transfer", slot |-> v[j].slot, code |-> 1, ed |-> FALSE]
      BY <2>1 DEF KeyEvent
    <3>2. v[j].slot # s /\ e.slot = s
      BY <1>3, <1>4, <3>1
    <3>3. <<v[j].slot, InIndex>> \in DOMAIN Queue \ {n}
      BY <1>1, <1>3, <3>1, <3>2 DEF RingsOK, SlotsOK, Armed
    <3>4. Queue'[<<v[j].slot, InIndex>>] = <<>>
      BY <1>10, <3>1, <3>3
    <3>5. KeyEvent(v[j])'
      BY <1>12, <3>1, <3>4 DEF KeyEvent
    <3> QED BY <1>5, <3>1, <3>2, <3>5 DEF Owner
  <2>2. CASE AnswerEvent(v[j])
    <3>1. AnswerEvent(v[j])'
      BY <1>2, <1>12, <2>2 DEF AnswerEvent
    <3>2. v[j].slot \in IF Now = "enable_slot" THEN Enabled ELSE {Target}
      BY <2>2 DEF AnswerEvent, Replies
    <3>3. Now # "enable_slot" => Target \notin Armed
      BY <2>2, RingTells DEF AnswerEvent
    <3>4. v[j].slot \notin Armed
      BY <3>2, <3>3 DEF Enabled, Armed, FreshSlot
    <3>5. Owner(v[j]) = 0 /\ Owner(e) = s /\ s # 0
      BY <1>3, <1>5, <3>4, IndexFacts DEF Owner
    <3> QED BY <3>1, <3>5
  <2>3. KeyEvent(v[j]) \/ AnswerEvent(v[j])
    BY <1>1, <1>3, <1>15 DEF EventsOK
  <2> QED BY <2>1, <2>2, <2>3
<1>16. EventsOK'
  BY <1>1, <1>3, <1>9, <1>12, <1>14, <1>15, EventsAdd
<1>17. CallOK' /\ SideOK'
  BY <1>1, <1>2 DEF CallOK, SideOK, Now
<1> QED BY <1>2, <1>9, <1>12, <1>13, <1>16, <1>17 DEF UsbInv, TrafficOK

\* The TRB taken of a request, and those left then.
LEMMA RestFacts ==
  ASSUME NEW m, NEW k, IsRequest(m, k), NEW L \in 1 .. k, NEW s, s = Rest(m, L), Len(s) = L
  PROVE  s[1] = m[k - L + 1] /\ Dropped(s) = Rest(m, L - 1) /\ (L = 1 => Dropped(s) = <<>>)
<1>1. k \in 1 .. 4 /\ k = Len(m)
  BY DEF IsRequest
<1>2. s = [j \in 1 .. L |-> m[k - L + j]]
  BY <1>1 DEF Rest
<1>3. s[1] = m[k - L + 1]
  BY <1>2
<1>4. Dropped(s) = [j \in 1 .. L - 1 |-> s[j + 1]]
  BY DEF Dropped
<1>5. \A j \in 1 .. L - 1 : j + 1 \in 1 .. L /\ k - L + (j + 1) = k - (L - 1) + j
  BY <1>1
<1>6. \A j \in 1 .. L - 1 : s[j + 1] = m[k - (L - 1) + j]
  BY <1>2, <1>5
<1>7. Rest(m, L - 1) = [j \in 1 .. L - 1 |-> m[k - (L - 1) + j]]
  BY <1>1 DEF Rest
<1>8. Dropped(s) = Rest(m, L - 1)
  BY <1>4, <1>6, <1>7
<1>9. L = 1 => 1 .. L - 1 = {}
  OBVIOUS
<1>10. L = 1 => Dropped(s) = <<>>
  BY <1>4, <1>9
<1> QED BY <1>3, <1>8, <1>10

\* Handlers, frames and endpoints as they were.
Manned == \A t \in Slots \cup {0} : /\ slots'[t].handler = slots[t].handler /\ slots'[t].data = slots[t].data
                                    /\ slots'[t].eps = slots[t].eps

\* The last TRB of the request is taken and its answer posted.
LEMMA AnswerStep ==
  ASSUME UsbInv, req.waiting, ~req.done, NEW n, n = ReqRing, n \in DOMAIN Queue, Available(rings[n], hw[n]),
         Len(Queue[n]) = 1, RequestKept, req' = req, Manned,
         NEW e, PostFor(n, e), e \in Replies', e.slot \notin Armed,
         stages' = [t \in Slots |-> <<>>]
  PROVE  /\ BusOK' /\ RingsOK' /\ RequestOK' /\ FlowOK' /\ EventsOK' /\ StagesOK' /\ Armed' = Armed
         /\ Answered' /\ Now' = Now
<1>1. /\ BusOK /\ RingsOK /\ SlotsOK /\ RequestOK /\ FlowOK /\ EventsOK
  BY DEF UsbInv, TrafficOK
<1>2. PICK v : v = Evs
  OBVIOUS
<1>3. BusOK' /\ Queue' = [Queue EXCEPT ![n] = Dropped(Queue[n])] /\ Evs' = Added(v, e)
  BY <1>1, <1>2, PostForStep
<1>4. Dropped(Queue[n]) = <<>>
  <2>1. Dropped(Queue[n]) = [j \in 1 .. 1 - 1 |-> Queue[n][j + 1]]
    BY DEF Dropped
  <2>2. 1 .. 1 - 1 = {}
    OBVIOUS
  <2> QED BY <2>1, <2>2
<1>5. DOMAIN Queue' = DOMAIN Queue /\ Queue'[n] = <<>> /\ \A r \in DOMAIN Queue \ {n} : Queue'[r] = Queue[r]
  BY <1>3, <1>4
<1>6. Now' = Now /\ Target' = Target /\ ReqRing' = ReqRing /\ ReqTrbs' = ReqTrbs
  BY NowKept
<1>7. Armed' = Armed
  BY DEF Armed, Manned
<1>8. RingsOK'
  BY <1>1, <1>5 DEF RingsOK, Manned
<1>9. Answered' /\ Len(Queue'[ReqRing']) = 0
  <2>1. Len(<<>>) = 0
    OBVIOUS
  <2> QED BY <1>5, <1>6, <2>1 DEF Answered
<1>10. /\ todo # <<>> /\ Now \in RequestLabels /\ (Now # "enable_slot" => Target \in Slots /\ Target \notin Armed)
       /\ \A s \in Armed : n # <<s, InIndex>>
  BY RingTells
<1>11. Len(ReqTrbs) \in 1 .. 4 /\ Rest(ReqTrbs, 0) = <<>>
  <2>1. \E k : IsRequest(ReqTrbs, k)
    BY <1>10, RequestTrbs DEF ReqTrbs
  <2>2. Len(ReqTrbs) \in 1 .. 4
    BY <2>1, RestAll
  <2>3. Rest(ReqTrbs, 0) = <<>>
    BY DEF Rest
  <2> QED BY <2>2, <2>3
<1>12. RequestOK'
  <2>1. IF Now = "enable_slot" THEN slots'[0].data = "frame"
        ELSE slots'[Target].handler = "copy" /\ slots'[Target].data = "frame"
    BY <1>1, <1>10 DEF RequestOK, Manned
  <2>2. Len(Queue'[ReqRing']) <= Len(ReqTrbs') /\ Queue'[ReqRing'] = Rest(ReqTrbs', Len(Queue'[ReqRing']))
    BY <1>5, <1>6, <1>9, <1>11
  <2>3. todo' = todo
    BY DEF RequestKept
  <2> QED BY <1>1, <1>6, <1>10, <2>1, <2>2, <2>3 DEF RequestOK, RequestLabels
<1>13. StagesOK'
  <2>1. StagesOf(ReqTrbs', Len(Queue'[ReqRing'])) = <<>>
    <3>1. \A m : StagesOf(m, 0) = <<>>
      BY DEF StagesOf
    <3> QED BY <1>9, <3>1
  <2> QED BY <2>1 DEF StagesOK
<1>14. FlowOK'
  <2>1. \A r \in DOMAIN Queue' : Queue'[r] # <<>> =>
          (req'.waiting /\ r = ReqRing') \/ \E a \in Armed' : r = <<a, InIndex>>
    BY <1>1, <1>5, <1>6, <1>7 DEF FlowOK
  <2>2. \A a \in Armed : <<a, InIndex>> \in DOMAIN Queue
    BY <1>1 DEF RingsOK, SlotsOK, Armed
  <2>3. \A a \in Armed' : Len(Queue'[<<a, InIndex>>]) <= 1
    BY <1>1, <1>5, <1>7, <1>10, <2>2 DEF FlowOK
  <2> QED BY <2>1, <2>3 DEF FlowOK
<1>15. AnswerEvent(e)'
  BY <1>9 DEF AnswerEvent
<1>16. Queue[n] # <<>>
  OBVIOUS
<1>17. ASSUME NEW j \in 1 .. Len(v), v[j].type # "port"
       PROVE  KeyEvent(v[j])' /\ Owner(v[j]) # Owner(e)
  <2>1. KeyEvent(v[j])
    BY <1>1, <1>2, <1>16, <1>17 DEF EventsOK, AnswerEvent, Answered
  <2>2. v[j].slot \in Armed /\ Queue[<<v[j].slot, InIndex>>] = <<>>
        /\ v[j] = [type |-> "transfer", slot |-> v[j].slot, code |-> 1, ed |-> FALSE]
    BY <2>1 DEF KeyEvent
  <2>3. <<v[j].slot, InIndex>> \in DOMAIN Queue \ {n}
    BY <1>1, <1>10, <2>2 DEF RingsOK, SlotsOK, Armed
  <2>4. Queue'[<<v[j].slot, InIndex>>] = <<>>
    BY <1>5, <2>2, <2>3
  <2>5. KeyEvent(v[j])'
    BY <1>7, <2>2, <2>4 DEF KeyEvent
  <2>6. Owner(v[j]) # 0 /\ Owner(e) = 0
    BY <2>2, IndexFacts DEF Owner, Armed
  <2> QED BY <2>5, <2>6
<1>18. EventsOK'
  BY <1>1, <1>2, <1>3, <1>7, <1>15, <1>17, EventsAdd
<1> QED BY <1>3, <1>6, <1>7, <1>8, <1>9, <1>12, <1>13, <1>14, <1>18

\* The ring of a request of one TRB that has yet to be taken.
LEMMA OneLeft ==
  ASSUME UsbInv, req.waiting, ~Answered, Now \notin ControlLabels
  PROVE  Len(Queue[ReqRing]) = 1 /\ Queue[ReqRing][1] = ReqTrbs[1]
<1>1. Now \in RequestLabels /\ ReqRing \in DOMAIN Queue
  BY RingTells
<1>2. Len(ReqTrbs) = 1
  BY <1>1, RequestTrbs DEF ReqTrbs
<1>3. PICK k : IsRequest(ReqTrbs, k)
  BY <1>1, RequestTrbs DEF ReqTrbs
<1>4. k = 1
  BY <1>2, <1>3 DEF IsRequest
<1>5. PICK s, L : s = Queue[ReqRing] /\ L = Len(s)
  OBVIOUS
<1>6. L \in Nat /\ L # 0 /\ L <= 1 /\ s = Rest(ReqTrbs, L)
  <2>1. L \in Nat /\ L # 0
    BY <1>1, <1>5, QueueSeqs DEF UsbInv, TrafficOK, Answered
  <2> QED BY <1>2, <1>5, <2>1 DEF UsbInv, TrafficOK, RequestOK
<1>7. L = 1 /\ L \in 1 .. k
  BY <1>4, <1>6
<1>8. s[1] = ReqTrbs[k - L + 1]
  BY <1>3, <1>5, <1>6, <1>7, RestFacts
<1>9. k - L + 1 = 1
  BY <1>4, <1>7
<1> QED BY <1>5, <1>7, <1>8, <1>9

\* A command changes a slot's state and the endpoints running.
Commanded(x, a, b) ==
    /\ slots' \in [Slots \cup {0} -> SlotType] /\ Manned
    /\ slots'[x] = [slots[x] EXCEPT !.state = a, !.running = b]
    /\ slots'[x].state = a /\ slots'[x].running = b /\ slots'[x].kind = slots[x].kind
    /\ slots'[x].entries = slots[x].entries
    /\ \A t \in (Slots \cup {0}) \ {x} : slots'[t] = slots[t]
\* The other slots keep all they have.
LEMMA CommandedSlots ==
  ASSUME SlotsOK, NEW x \in Slots, NEW a \in {"off", "enabled", "default", "addressed", "configured"},
         NEW b \in SUBSET (0 .. 30),
         slots' = [slots EXCEPT ![x].state = a, ![x].running = b]
  PROVE  Commanded(x, a, b)
<1>1. PICK z : z = slots[x]
  OBVIOUS
<1>2. slots \in [Slots \cup {0} -> SlotType] /\ z \in SlotType
  BY <1>1 DEF SlotsOK
<1>3. PICK y : y = [z EXCEPT !.state = a, !.running = b]
  OBVIOUS
<1>4. y = [handler |-> z.handler, data |-> z.data, state |-> a, kind |-> z.kind, running |-> b, eps |-> z.eps, entries |-> z.entries]
  BY <1>2, <1>3 DEF SlotType
<1>5. y \in SlotType
  BY <1>2, <1>4 DEF SlotType
<1>6. slots' = [slots EXCEPT ![x] = y]
  BY <1>1, <1>2, <1>3
<1>7. slots'[x] = y /\ \A t \in (Slots \cup {0}) \ {x} : slots'[t] = slots[t]
  BY <1>2, <1>6
<1>8. slots' \in [Slots \cup {0} -> SlotType]
  BY <1>2, <1>5, <1>6
<1>9. Manned
  <2>1. y.handler = z.handler /\ y.data = z.data /\ y.eps = z.eps
    BY <1>4
  <2> QED BY <1>1, <1>7, <2>1 DEF Manned
<1> QED BY <1>1, <1>3, <1>4, <1>7, <1>8, <1>9 DEF Commanded

\* A command is legal at the stage at which it is made and leads to the next.
CommandLegal(q, k, x, t) ==
    /\ x.state # "configured" /\ t.slot = cur
    /\ t.type = IF q \in {"address_blocked", "address"} THEN "set_address" ELSE q
    /\ t.type = "set_address" => x.state \in {"enabled", "default"} /\ x.entries >= 1
    /\ t.type = "evaluate" => x.state \in {"default", "addressed"}
    /\ t.type = "configure" => x.state = "addressed" /\ \A e \in x.eps : e < x.entries
    /\ \A y : /\ y.eps = x.eps /\ y.entries = x.entries
              /\ y.state = (CASE t.type = "set_address" -> IF t.bsr THEN "default" ELSE "addressed"
                              [] t.type = "evaluate" -> x.state
                              [] t.type = "configure" -> "configured")
              /\ y.running = (IF t.type = "configure" THEN x.eps ELSE {0})
              => Stage(y, Reached(q, k), k)
\* It is so for each of them.
LEMMA CommandStage ==
  ASSUME NEW q \in CommandLabels \ {"enable_slot"}, NEW k, NEW x, Stage(x, Rank(q, k), k), NEW t, t = CommandTrb(q)
  PROVE  CommandLegal(q, k, x, t)
<1>1. q \in {"address_blocked", "address", "evaluate", "configure"}
  BY DEF CommandLabels
<1>2. t.type = (IF q \in {"address_blocked", "address"} THEN "set_address" ELSE q) /\ t.slot = cur
      /\ t.bsr = (q = "address_blocked")
  BY DEF CommandTrb
<1>3. CASE q = "address_blocked"
  <2>1. Rank(q, k) = 1 /\ Reached(q, k) = 2
    BY <1>3 DEF Rank, Reached
  <2>2. t.type = "set_address" /\ t.bsr /\ t.slot = cur
    BY <1>2, <1>3
  <2>3. /\ x.state = "enabled" /\ x.eps = {0} /\ x.entries = 1
    BY <2>1 DEF Stage
  <2>4. ASSUME NEW y, y.eps = x.eps, y.entries = x.entries, y.running = {0},
               y.state = "default"
        PROVE  Stage(y, 2, k)
    BY <2>3, <2>4 DEF Stage
  <2> QED BY <1>3, <2>1, <2>2, <2>3, <2>4 DEF CommandLegal
<1>4. CASE q = "address"
  <2>1. Rank(q, k) = 2 /\ Reached(q, k) = 3
    BY <1>4 DEF Rank, Reached
  <2>2. t.type = "set_address" /\ ~t.bsr /\ t.slot = cur
    BY <1>2, <1>4
  <2>3. /\ x.state = "default" /\ x.eps = {0} /\ x.entries = 1
    BY <2>1 DEF Stage
  <2>4. ASSUME NEW y, y.eps = x.eps, y.entries = x.entries, y.running = {0},
               y.state = "addressed"
        PROVE  Stage(y, 3, k)
    BY <2>3, <2>4 DEF Stage
  <2> QED BY <1>4, <2>1, <2>2, <2>3, <2>4 DEF CommandLegal
<1>5. CASE q = "evaluate"
  <2>1. Rank(q, k) = 3 /\ Reached(q, k) = 3
    BY <1>5 DEF Rank, Reached
  <2> QED BY <1>2, <1>5, <2>1 DEF Stage, CommandLegal
<1>6. CASE q = "configure"
  <2>1. Rank(q, k) = 4 /\ Reached(q, k) = 5
    BY <1>6 DEF Rank, Reached
  <2> QED BY <1>2, <1>6, <2>1 DEF Stage, CommandLegal
<1> QED BY <1>1, <1>3, <1>4, <1>5, <1>6

\* A command is executed.
LEMMA CommandKeeps ==
  ASSUME UsbInv, CtlCommand, XhciRest, UsbRest
  PROVE  UsbInv' /\ halted' = halted /\ Now \notin BulkLabels
<1>1. /\ BusOK /\ RingsOK /\ SlotsOK /\ RequestOK /\ StagesOK /\ FlowOK /\ EventsOK
      /\ ScriptOK /\ DiskOK /\ CallOK /\ SideOK
  BY DEF UsbInv, TrafficOK
<1>2. /\ UNCHANGED <<changes, stages, todo, cur, port, stale, req, msd, mem, blk, backend, fs, halted>>
      /\ Ready(CmdRing)
  BY DEF CtlCommand, XhciRest, UsbRest, usbVars, fsVars
<1>3. PICK n : n = CmdRing
  OBVIOUS
<1>4. /\ n # EventRing /\ n \in DOMAIN Queue /\ Available(rings[n], hw[n]) /\ Taken(rings[n], hw[n]) = Queue[n][1]
      /\ req.waiting /\ n = ReqRing /\ ~Answered /\ ~req.done
  <2>1. n # EventRing /\ \A s \in Armed : n # <<s, InIndex>>
    BY <1>3, IndexFacts DEF EventRing, CmdRing
  <2> QED BY <1>2, <1>3, <2>1, ReadyRing
<1>5. Now \in CommandLabels /\ todo # <<>> /\ Now \notin ControlLabels /\ Now \notin BulkLabels /\ Target = cur
      /\ (Now # "enable_slot" => cur \in Slots /\ cur \notin Armed)
  <2>1. Now \in CommandLabels /\ todo # <<>> /\ (Now # "enable_slot" => Target \in Slots /\ Target \notin Armed)
    BY <1>3, <1>4, RingTells
  <2> QED BY <2>1 DEF CommandLabels, ControlLabels, BulkLabels, Target
<1>6. Len(Queue[n]) = 1 /\ Taken(rings[n], hw[n]) = CommandTrb(Now)
  <2>1. Len(Queue[n]) = 1 /\ Queue[n][1] = ReqTrbs[1]
    BY <1>4, <1>5, OneLeft
  <2>2. ReqTrbs = <<CommandTrb(Now)>>
    BY <1>5 DEF ReqTrbs, TrbsOf
  <2> QED BY <1>4, <2>1, <2>2
<1>7. stages' = [t \in Slots |-> <<>>]
  BY <1>1, <1>2, <1>5 DEF StagesOK
<1>8. RequestKept
  BY <1>2 DEF RequestKept
<1>9. Now' = Now /\ Target' = Target /\ Kind' = Kind
  BY <1>2, <1>8, NowKept DEF Kind
<1>10. CallOK' /\ SideOK'
  BY <1>1, <1>2 DEF CallOK, SideOK, Now
<1>11. PICK q, k, t : q = Now /\ k = Kind /\ t = CommandTrb(Now)
  OBVIOUS
<1>12. CASE q = "enable_slot"
  <2>1. t.type = "enable_slot"
    BY <1>11, <1>12 DEF CommandTrb
  <2>2. PICK x \in Slots : /\ slots[x].state = "off" /\ slots' = [slots EXCEPT ![x].state = "enabled"]
                           /\ PostFor(n, [type |-> "command", slot |-> x, code |-> 1, ed |-> FALSE])
    BY <1>3, <1>6, <1>11, <2>1 DEF CtlCommand
  <2>3. PICK e : e = [type |-> "command", slot |-> x, code |-> 1, ed |-> FALSE]
    OBVIOUS
  <2>4. slots[x] = FreshSlot /\ slots[x] \in SlotType /\ slots \in [Slots \cup {0} -> SlotType]
    BY <1>1, <2>2 DEF SlotsOK
  <2>5. PICK w : w = [FreshSlot EXCEPT !.state = "enabled"]
    OBVIOUS
  <2>6. /\ slots' \in [Slots \cup {0} -> SlotType] /\ Manned
        /\ slots'[x] = w /\ slots'[x].state = "enabled"
        /\ \A z \in (Slots \cup {0}) \ {x} : slots'[z] = slots[z]
    <3>1. w = [handler |-> "to_slot_0", data |-> "null", state |-> "enabled",
               kind |-> "none", running |-> {}, eps |-> {}, entries |-> 0]
      BY <2>5 DEF FreshSlot
    <3>2. w \in SlotType
      BY <3>1 DEF SlotType
    <3>3. slots' = [slots EXCEPT ![x] = w]
      BY <2>2, <2>4, <2>5
    <3>4. slots'[x] = w /\ slots' \in [Slots \cup {0} -> SlotType]
          /\ \A z \in (Slots \cup {0}) \ {x} : slots'[z] = slots[z]
      BY <2>4, <3>2, <3>3
    <3>5. slots[x].handler = "to_slot_0" /\ slots[x].data = "null" /\ slots[x].eps = {}
      BY <2>4 DEF FreshSlot
    <3>6. w.handler = "to_slot_0" /\ w.data = "null" /\ w.eps = {} /\ w.state = "enabled"
      BY <3>1
    <3>7. \A z \in Slots \cup {0} : /\ slots'[z].handler = slots[z].handler /\ slots'[z].data = slots[z].data
                                   /\ slots'[z].eps = slots[z].eps
      <4> TAKE z \in Slots \cup {0}
      <4>1. CASE z = x
        BY <3>4, <3>5, <3>6, <4>1
      <4>2. CASE z # x
        BY <3>4, <4>2
      <4> QED BY <4>1, <4>2
    <3>8. Manned
      BY <3>7 DEF Manned
    <3> QED BY <3>4, <3>6, <3>8
  <2>7. slots'[x] = [FreshSlot EXCEPT !.state = "enabled"]
    BY <2>5, <2>6
  <2>8. e \in Replies' /\ e.slot \notin Armed
    <3>1. x \in Enabled'
      BY <2>7 DEF Enabled
    <3>2. e.slot = x /\ slots[x].handler = "to_slot_0"
      BY <2>3, <2>4 DEF FreshSlot
    <3>3. Now' = "enable_slot" /\ "enable_slot" \in CommandLabels /\ "enable_slot" \notin ControlLabels
      BY <1>9, <1>11, <1>12 DEF CommandLabels, ControlLabels
    <3>4. e \in Replies'
      <4>1. [type |-> "command", slot |-> x, code |-> 1, ed |-> Now' \in ControlLabels] \in Replies'
        BY <3>1, <3>3 DEF Replies
      <4>2. (Now' \in ControlLabels) = FALSE
        BY <3>3
      <4> QED BY <2>3, <4>1, <4>2
    <3> QED BY <3>2, <3>4 DEF Armed
  <2>9. /\ BusOK' /\ RingsOK' /\ RequestOK' /\ FlowOK' /\ EventsOK' /\ StagesOK' /\ Armed' = Armed
        /\ Answered' /\ Now' = Now
    BY <1>2, <1>4, <1>6, <1>7, <1>8, <2>2, <2>3, <2>6, <2>8, AnswerStep
  <2>10. SlotsOK'
    <3>1. x \notin Armed /\ 0 # x
      BY <2>4, IndexFacts DEF Armed, FreshSlot
    <3>2. slots'[0] = slots[0]
      BY <2>6, <3>1
    <3>3. \A y \in Slots : slots'[y].state = "off" => slots'[y] = FreshSlot
      BY <1>1, <2>6 DEF SlotsOK
    <3>4. \A y \in Armed' : slots'[y].kind = "keyboard" /\ InIndex \in slots'[y].eps /\ slots'[y].state = "configured"
      BY <1>1, <2>6, <2>9, <3>1 DEF SlotsOK, Armed
    <3> QED BY <1>1, <2>6, <3>2, <3>3, <3>4 DEF SlotsOK
  <2>11. ScriptOK'
    <3>1. "enable_slot" \notin CurLabels
      BY DEF CurLabels, CommandLabels, ControlLabels
    <3> QED BY <1>1, <1>2, <1>5, <1>9, <1>11, <1>12, <3>1 DEF ScriptOK
  <2>12. DiskOK'
    <3>1. msd.slot # 0 => slots[msd.slot].state = "configured"
      BY <1>1 DEF DiskOK, Stage
    <3>2. msd.slot # 0 => slots'[msd.slot] = slots[msd.slot]
      BY <1>1, <2>2, <2>6, <3>1 DEF DiskOK
    <3> QED BY <1>1, <1>2, <1>5, <1>9, <3>2 DEF DiskOK, BulkLabels
  <2> QED BY <1>2, <1>5, <1>10, <2>9, <2>10, <2>11, <2>12 DEF UsbInv, TrafficOK
<1>13. CASE q # "enable_slot"
  <2>1. cur \in Slots /\ cur \notin Armed /\ q \in CommandLabels \ {"enable_slot"} /\ q \in CurLabels
    BY <1>5, <1>11, <1>13 DEF CurLabels
  <2>2. /\ slots[cur].kind = k /\ slots[cur].handler \in {"to_slot_0", "copy"}
        /\ Stage(slots[cur], Rank(q, k), k)
        /\ q \in {"max_lun", "capacity"} => k = "disk"
        /\ q \in {"set_idle", "set_protocol", "arm_keyboard"} => k = "keyboard"
        /\ port \in Ports /\ k \in {"disk", "keyboard"} /\ Linked(todo, k)
    BY <1>1, <1>4, <1>5, <1>11, <2>1 DEF ScriptOK
  <2>3. PICK x : x = slots[cur]
    OBVIOUS
  <2>4. /\ x.state # "configured" /\ t.slot = cur
        /\ t.type = IF q \in {"address_blocked", "address"} THEN "set_address" ELSE q
        /\ t.type = "set_address" => x.state \in {"enabled", "default"} /\ x.entries >= 1
        /\ t.type = "evaluate" => x.state \in {"default", "addressed"}
        /\ t.type = "configure" => x.state = "addressed" /\ \A e \in x.eps : e < x.entries
        /\ \A y : /\ y.eps = x.eps /\ y.entries = x.entries
                  /\ y.state = (CASE t.type = "set_address" -> IF t.bsr THEN "default" ELSE "addressed"
                                  [] t.type = "evaluate" -> x.state
                                  [] t.type = "configure" -> "configured")
                  /\ y.running = (IF t.type = "configure" THEN x.eps ELSE {0})
                  => Stage(y, Reached(q, k), k)
    <3>1. Stage(x, Rank(q, k), k) /\ t = CommandTrb(q)
      BY <1>11, <2>2, <2>3
    <3>2. CommandLegal(q, k, x, t)
      BY <2>1, <3>1, CommandStage
    <3> QED BY <3>2 DEF CommandLegal
  <2>5. t.type \in {"set_address", "evaluate", "configure"} /\ x \in SlotType
    BY <1>1, <2>1, <2>3, <2>4 DEF CommandLabels, SlotsOK
  <2>6. PICK a, b : /\ a = (CASE t.type = "set_address" -> IF t.bsr THEN "default" ELSE "addressed"
                              [] t.type = "evaluate" -> x.state
                              [] t.type = "configure" -> "configured")
                    /\ b = (IF t.type = "configure" THEN x.eps ELSE {0})
    OBVIOUS
  <2>7. a \in {"off", "enabled", "default", "addressed", "configured"} /\ b \in SUBSET (0 .. 30)
    BY <2>5, <2>6 DEF SlotType
  <2>8. PICK e : e = [type |-> "command", slot |-> cur, code |-> 1, ed |-> FALSE]
    OBVIOUS
  <2>9. slots' = [slots EXCEPT ![cur].state = a, ![cur].running = b] /\ PostFor(n, e)
    <3>1. PICK legal :
            /\ legal = (CASE t.type = "set_address" -> x.state \in {"enabled", "default"} /\ x.entries >= 1
                          [] t.type = "evaluate" -> x.state \in {"default", "addressed"}
                          [] t.type = "configure" -> x.state = "addressed" /\ \A f \in x.eps : f < x.entries)
            /\ slots' = IF ~legal THEN slots
                        ELSE [slots EXCEPT ![cur].state =
                                CASE t.type = "set_address" -> IF t.bsr THEN "default" ELSE "addressed"
                                  [] t.type = "evaluate" -> @
                                  [] t.type = "configure" -> "configured",
                              ![cur].running = IF t.type = "configure" THEN x.eps ELSE {0}]
            /\ PostFor(n, [type |-> "command", slot |-> cur, code |-> IF legal THEN 1 ELSE 19, ed |-> FALSE])
      BY <1>3, <1>6, <1>11, <2>3, <2>4, <2>5 DEF CtlCommand
    <3>2. legal
      BY <2>4, <2>5, <3>1
    <3>3. PostFor(n, e)
      BY <2>8, <3>1, <3>2
    <3>4. slots' = [slots EXCEPT ![cur].state =
                      CASE t.type = "set_address" -> IF t.bsr THEN "default" ELSE "addressed"
                        [] t.type = "evaluate" -> @
                        [] t.type = "configure" -> "configured",
                    ![cur].running = IF t.type = "configure" THEN x.eps ELSE {0}]
      BY <3>1, <3>2
    <3>5. slots \in [Slots \cup {0} -> SlotType]
      BY <1>1 DEF SlotsOK
    <3>6. slots' = [slots EXCEPT ![cur].state = a, ![cur].running = b]
      BY <2>1, <2>3, <2>5, <2>6, <3>4, <3>5
    <3> QED BY <3>3, <3>6
  <2>10. PICK c : c = cur
    OBVIOUS
  <2>11. /\ slots' \in [Slots \cup {0} -> SlotType] /\ Manned
         /\ slots'[c].state = a /\ slots'[c].running = b /\ slots'[c].kind = slots[c].kind
         /\ slots'[c].entries = slots[c].entries
         /\ \A y \in (Slots \cup {0}) \ {c} : slots'[y] = slots[y]
    <3>1. c \in Slots /\ slots' = [slots EXCEPT ![c].state = a, ![c].running = b] /\ SlotsOK
      BY <1>1, <2>1, <2>9, <2>10
    <3>2. Commanded(c, a, b)
      BY <2>7, <3>1, CommandedSlots
    <3> QED BY <3>2 DEF Commanded
  <2>12. slots'[c].eps = slots[c].eps /\ slots'[c].handler = slots[c].handler
    BY <2>1, <2>10, <2>11 DEF Manned
  <2>13. Stage(slots'[c], Reached(q, k), k)
    BY <2>3, <2>4, <2>6, <2>10, <2>11, <2>12
  <2>14. e \in Replies' /\ e.slot \notin Armed
    <3>1. Now' = q /\ Target' = cur /\ q \in CommandLabels /\ q \notin ControlLabels /\ q # "enable_slot"
      BY <1>5, <1>9, <1>11, <1>13
    <3>2. e \in Replies'
      <4>1. [type |-> "command", slot |-> cur, code |-> 1, ed |-> Now' \in ControlLabels] \in Replies'
        BY <3>1 DEF Replies
      <4>2. (Now' \in ControlLabels) = FALSE
        BY <3>1
      <4> QED BY <2>8, <4>1, <4>2
    <3> QED BY <2>1, <2>8, <3>2
  <2>15. /\ BusOK' /\ RingsOK' /\ RequestOK' /\ FlowOK' /\ EventsOK' /\ StagesOK' /\ Armed' = Armed
         /\ Answered' /\ Now' = Now
    BY <1>2, <1>4, <1>6, <1>7, <1>8, <2>9, <2>11, <2>14, AnswerStep
  <2>16. a # "off"
    <3>1. Stage(slots'[c], Reached(q, k), k) /\ Reached(q, k) \in 1 .. 5
      BY <2>13, StageFacts
    <3> QED BY <2>11, <3>1, StageFacts
  <2>17. SlotsOK'
    <3>1. slots'[0] = slots[0]
      BY <2>1, <2>10, <2>11, IndexFacts
    <3>2. \A y \in Slots : slots'[y].state = "off" => slots'[y] = FreshSlot
      BY <1>1, <2>11, <2>16 DEF SlotsOK
    <3>3. \A y \in Armed' : slots'[y].kind = "keyboard" /\ InIndex \in slots'[y].eps /\ slots'[y].state = "configured"
      BY <1>1, <2>1, <2>10, <2>11, <2>15 DEF SlotsOK, Armed
    <3> QED BY <1>1, <2>11, <3>1, <3>2, <3>3 DEF SlotsOK
  <2>18. ScriptOK'
    <3>1. c = cur' /\ todo' = todo /\ port' = port /\ req'.waiting = req.waiting
      BY <1>2, <2>10
    <3> QED BY <1>4, <1>9, <1>11, <2>1, <2>2, <2>10, <2>11, <2>12, <2>13, <2>15, <3>1 DEF ScriptOK
  <2>19. DiskOK'
    <3>1. msd.slot # 0 => slots[msd.slot].state = "configured"
      BY <1>1 DEF DiskOK, Stage
    <3>2. msd.slot # 0 => slots'[msd.slot] = slots[msd.slot]
      BY <1>1, <2>3, <2>4, <2>10, <2>11, <3>1 DEF DiskOK
    <3> QED BY <1>1, <1>2, <1>5, <1>9, <3>2 DEF DiskOK, BulkLabels
  <2> QED BY <1>2, <1>5, <1>10, <2>15, <2>17, <2>18, <2>19 DEF UsbInv, TrafficOK
<1> QED BY <1>12, <1>13

\* A control transfer: setup, perhaps data, status, and the TRB that tells
\* of its end and alone raises an event.
EndTrb == [type |-> "event_data", ioc |-> TRUE]
ControlShape(m, k) ==
    /\ IsRequest(m, k) /\ k \in {3, 4} /\ m[k] = EndTrb
    /\ \A i \in 1 .. k - 1 : m[i].ioc = FALSE /\ m[i].type # "event_data"
    /\ StagesOf(m, 1) \in GoodControl
\* Every request to a control endpoint has this shape.
LEMMA ControlTrbs ==
  ASSUME NEW q \in ControlLabels
  PROVE  \E k : ControlShape(make_request(q), k)
<1>3. PICK a, b, c, d : /\ a = [type |-> IF q \in WithData THEN "setup_in" ELSE "setup_none", ioc |-> FALSE]
                        /\ b = [type |-> "data_in", ioc |-> FALSE]
                        /\ c = [type |-> IF q \in WithData THEN "status_out" ELSE "status_in", ioc |-> FALSE]
                        /\ d = EndTrb
  OBVIOUS
<1>4. /\ a.type # "link" /\ b.type # "link" /\ c.type # "link" /\ d.type # "link"
      /\ a.type # "event_data" /\ b.type # "event_data" /\ c.type # "event_data"
      /\ a.ioc = FALSE /\ b.ioc = FALSE /\ c.ioc = FALSE
  BY <1>3 DEF EndTrb
<1>5. CASE q \in WithData
  <2>1. make_request(q) = <<a>> \o <<b>> \o <<c, d>>
    BY <1>3, <1>5 DEF make_request, EndTrb
  <2>2. <<a>> \o <<b>> \o <<c, d>> = <<a, b, c, d>>
    BY Concats
  <2>3. PICK m : m = <<a, b, c, d>>
    OBVIOUS
  <2>4. IsRequest(m, 4)
    BY <1>4, <2>3 DEF IsRequest
  <2>5. Len(m) = 4 /\ m[1] = a /\ m[2] = b /\ m[3] = c /\ m[4] = d
    BY <2>3
  <2>6. \A i \in 1 .. 4 - 1 : i = 1 \/ i = 2 \/ i = 3
    OBVIOUS
  <2>7. StagesOf(m, 1) = <<"setup_in", "data_in", "status_out">>
    <3>1. StagesOf(m, 1) = [i \in 1 .. 3 |-> m[i].type]
      BY <2>5 DEF StagesOf
    <3>2. \A i \in 1 .. 3 : m[i].type = <<"setup_in", "data_in", "status_out">>[i]
      BY <1>3, <1>5, <2>5, <2>6
    <3>3. <<"setup_in", "data_in", "status_out">> = [i \in 1 .. 3 |-> <<"setup_in", "data_in", "status_out">>[i]]
      OBVIOUS
    <3> QED BY <3>1, <3>2, <3>3
  <2>8. ControlShape(m, 4)
    BY <1>3, <1>4, <2>4, <2>5, <2>6, <2>7 DEF ControlShape, GoodControl
  <2> QED BY <2>1, <2>2, <2>3, <2>8
<1>6. CASE q \notin WithData
  <2>1. make_request(q) = <<a>> \o <<>> \o <<c, d>>
    BY <1>3, <1>6 DEF make_request, EndTrb
  <2>2. <<a>> \o <<>> \o <<c, d>> = <<a, c, d>>
    BY Concats
  <2>3. PICK m : m = <<a, c, d>>
    OBVIOUS
  <2>4. IsRequest(m, 3)
    BY <1>4, <2>3 DEF IsRequest
  <2>5. Len(m) = 3 /\ m[1] = a /\ m[2] = c /\ m[3] = d
    BY <2>3
  <2>6. \A i \in 1 .. 3 - 1 : i = 1 \/ i = 2
    OBVIOUS
  <2>7. StagesOf(m, 1) = <<"setup_none", "status_in">>
    <3>1. StagesOf(m, 1) = [i \in 1 .. 2 |-> m[i].type]
      BY <2>5 DEF StagesOf
    <3>2. \A i \in 1 .. 2 : m[i].type = <<"setup_none", "status_in">>[i]
      BY <1>3, <1>6, <2>5, <2>6
    <3>3. <<"setup_none", "status_in">> = [i \in 1 .. 2 |-> <<"setup_none", "status_in">>[i]]
      OBVIOUS
    <3> QED BY <3>1, <3>2, <3>3
  <2>8. ControlShape(m, 3)
    BY <1>3, <1>4, <2>4, <2>5, <2>6, <2>7 DEF ControlShape, GoodControl
  <2> QED BY <2>1, <2>2, <2>3, <2>8
<1> QED BY <1>5, <1>6

\* One stage more has been taken.
LEMMA StageTaken ==
  ASSUME NEW m, NEW k, IsRequest(m, k), NEW L \in 2 .. k, NEW t, t = m[k - L + 1].type
  PROVE  Append(StagesOf(m, L), t) = StagesOf(m, L - 1)
<1>1. k \in 1 .. 4 /\ k = Len(m)
  BY DEF IsRequest
<1>2. PICK n : n = k - L
  OBVIOUS
<1>3. n \in Nat /\ k - (L - 1) = n + 1 /\ L - 1 # 0 /\ L # 0 /\ k - L + 1 = n + 1
  BY <1>1, <1>2
<1>4. PICK T : T = {m[i].type : i \in 1 .. k}
  OBVIOUS
<1>5. PICK s, u : s = StagesOf(m, L) /\ u = StagesOf(m, L - 1)
  OBVIOUS
<1>6. s = [i \in 1 .. n |-> m[i].type] /\ u = [i \in 1 .. n + 1 |-> m[i].type]
  BY <1>1, <1>2, <1>3, <1>5 DEF StagesOf
<1>7. n + 1 \in 1 .. k /\ n \in 0 .. k
  BY <1>1, <1>2
<1>8. (\A i \in 1 .. n : m[i].type \in T) /\ (\A i \in 1 .. n + 1 : m[i].type \in T) /\ t \in T
  BY <1>1, <1>3, <1>4, <1>7
<1>9. s \in Seq(T) /\ u \in Seq(T) /\ Len(s) = n /\ Len(u) = n + 1
  BY <1>3, <1>6, <1>8
<1>10. /\ Append(s, t) \in Seq(T) /\ Len(Append(s, t)) = n + 1
       /\ Append(s, t)[n + 1] = t /\ \A i \in 1 .. n : Append(s, t)[i] = s[i]
  BY <1>8, <1>9
<1>11. u[n + 1] = t /\ \A i \in 1 .. n : u[i] = s[i]
  BY <1>3, <1>6
<1>12. \A i \in 1 .. n + 1 : i = n + 1 \/ i \in 1 .. n
  BY <1>3
<1>13. \A i \in 1 .. n + 1 : Append(s, t)[i] = u[i]
  BY <1>10, <1>11, <1>12
<1>14. n + 1 \in Nat
  BY <1>3
<1>15. Append(s, t) = u
  BY <1>9, <1>10, <1>13, <1>14, SameSeq
<1> QED BY <1>5, <1>15

\* With slots as they were and the same answer to come, so is the set-up.
LEMMA SetUpKept ==
  ASSUME ScriptOK, DiskOK, RequestKept, port' = port, slots' = slots, req' = req, Now \notin CommandLabels
  PROVE  ScriptOK' /\ DiskOK'
<1>1. Now' = Now /\ Kind' = Kind
  BY NowKept DEF Kind
<1>2. \A k : Reached(Now, k) = Rank(Now, k)
  BY DEF Reached, CommandLabels
<1>3. ScriptOK'
  BY <1>1, <1>2 DEF ScriptOK, RequestKept
<1>4. DiskOK'
  BY <1>1 DEF DiskOK, RequestKept
<1> QED BY <1>3, <1>4

\* One TRB of a control transfer is taken.
LEMMA ControlKeeps ==
  ASSUME UsbInv, NEW s \in Slots, CtlControl(s), XhciRest, UsbRest
  PROVE  UsbInv' /\ halted' = halted /\ Now \notin BulkLabels
<1>1. /\ BusOK /\ RingsOK /\ SlotsOK /\ RequestOK /\ StagesOK /\ FlowOK /\ EventsOK
      /\ ScriptOK /\ DiskOK /\ CallOK /\ SideOK
  BY DEF UsbInv, TrafficOK
<1>2. /\ UNCHANGED <<changes, slots, todo, cur, port, stale, req, msd, mem, blk, backend, fs, halted>>
      /\ Ready(<<s, 0>>)
  BY DEF CtlControl, XhciRest, UsbRest, usbVars, fsVars, drvVars
<1>3. PICK n : n = <<s, 0>>
  OBVIOUS
<1>4. /\ n # EventRing /\ n \in DOMAIN Queue /\ Available(rings[n], hw[n]) /\ Taken(rings[n], hw[n]) = Queue[n][1]
      /\ req.waiting /\ n = ReqRing /\ ~Answered /\ ~req.done
  <2>1. n # EventRing /\ \A t \in Armed : n # <<t, InIndex>>
    BY <1>3, IndexFacts DEF EventRing
  <2> QED BY <1>2, <1>3, <2>1, ReadyRing
<1>5. Now \in ControlLabels /\ s = cur /\ todo # <<>> /\ s \notin Armed
      /\ Now \notin CommandLabels /\ Now \notin BulkLabels /\ Now # "enable_slot" /\ Target = s
  <2>1. Now \in ControlLabels /\ s = cur /\ todo # <<>> /\ (Now # "enable_slot" => Target \notin Armed)
    BY <1>3, <1>4, RingTells
  <2>2. Now \notin CommandLabels /\ Now \notin BulkLabels /\ Now # "enable_slot"
    BY <2>1 DEF CommandLabels, ControlLabels, BulkLabels
  <2>3. Target = s
    BY <2>1, <2>2 DEF Target
  <2> QED BY <2>1, <2>2, <2>3
<1>6. PICK m, k : m = ReqTrbs /\ ControlShape(m, k)
  <2>1. ReqTrbs = make_request(Now)
    BY <1>5 DEF ReqTrbs, TrbsOf
  <2> QED BY <1>5, <2>1, ControlTrbs
<1>7. /\ IsRequest(m, k) /\ k \in {3, 4} /\ k = Len(m) /\ m[k] = EndTrb
      /\ \A i \in 1 .. k - 1 : m[i].ioc = FALSE /\ m[i].type # "event_data"
  BY <1>6 DEF ControlShape, IsRequest
<1>8. PICK u, L : u = Queue[n] /\ L = Len(u)
  OBVIOUS
<1>9. L \in 1 .. k /\ u = Rest(m, L)
  <2>1. L \in Nat /\ L # 0
    BY <1>1, <1>4, <1>8, QueueSeqs DEF Answered
  <2>2. L <= k /\ u = Rest(m, L)
    BY <1>1, <1>4, <1>6, <1>7, <1>8 DEF RequestOK
  <2> QED BY <1>7, <2>1, <2>2
<1>10. u[1] = m[k - L + 1] /\ Dropped(u) = Rest(m, L - 1)
  BY <1>7, <1>8, <1>9, RestFacts
<1>11. stages \in [Slots -> {stages[t] : t \in Slots}] /\ stages[s] = StagesOf(m, L)
       /\ \A t \in Slots \ {s} : stages[t] = <<>>
  BY <1>1, <1>4, <1>5, <1>6, <1>8 DEF StagesOK
<1>12. RequestKept
  BY <1>2 DEF RequestKept
<1>13. ScriptOK' /\ DiskOK'
  BY <1>1, <1>2, <1>5, <1>12, SetUpKept
<1>14. CallOK' /\ SideOK'
  BY <1>1, <1>2 DEF CallOK, SideOK, Now
<1>15. PICK x : x = Taken(rings[n], hw[n]) /\ x = m[k - L + 1]
  BY <1>4, <1>8, <1>10
<1>16. SlotsOK' /\ Armed' = Armed
  BY <1>1, <1>2 DEF SlotsOK, Armed
<1>17. CASE L = 1
  <2>1. x = EndTrb /\ x.ioc = TRUE /\ x.type = "event_data"
    BY <1>7, <1>15, <1>17 DEF EndTrb
  <2>2. stages[s] \in GoodControl
    BY <1>6, <1>11, <1>17 DEF ControlShape
  <2>3. 0 \in slots[s].running
    <3>1. Stage(slots[s], Rank(Now, Kind), Kind)
      BY <1>1, <1>4, <1>5 DEF ScriptOK, CurLabels
    <3>2. Rank(Now, Kind) = 3 \/ Rank(Now, Kind) = 5
      BY <1>5 DEF Rank, ControlLabels
    <3>3. 0 \in Ends(Kind)
      BY DEF Ends
    <3> QED BY <3>1, <3>2, <3>3 DEF Stage
  <2>4. PICK e : e = [type |-> "transfer", slot |-> s, code |-> 1, ed |-> TRUE]
    OBVIOUS
  <2>5. PostFor(n, e) /\ stages' = [stages EXCEPT ![s] = <<>>]
    <3>1. /\ stages' = [stages EXCEPT ![s] = IF x.type = "event_data" THEN <<>> ELSE Append(stages[s], x.type)]
          /\ IF x.ioc
             THEN PostFor(n, [type |-> "transfer", slot |-> s,
                              code |-> IF 0 \in slots[s].running /\ stages[s] \in GoodControl THEN 1 ELSE 6,
                              ed |-> x.type = "event_data"])
             ELSE hw' = Take(n) /\ UNCHANGED <<rings, ehb, irq>>
      BY <1>3, <1>15 DEF CtlControl
    <3>2. (x.type = "event_data") = TRUE
      BY <2>1
    <3> QED BY <2>1, <2>2, <2>3, <2>4, <3>1, <3>2
  <2>6. stages' = [t \in Slots |-> <<>>]
    BY <1>11, <2>5
  <2>7. Manned
    BY <1>2 DEF Manned
  <2>8. e \in Replies' /\ e.slot \notin Armed
    <3>1. Now' = Now /\ Target' = s
      BY <1>5, <1>12, NowKept
    <3>2. [type |-> "transfer", slot |-> s, code |-> 1, ed |-> Now' \in ControlLabels] \in Replies'
      BY <1>5, <3>1 DEF Replies
    <3>3. (Now' \in ControlLabels) = TRUE
      BY <1>5, <3>1
    <3> QED BY <1>5, <2>4, <3>2, <3>3
  <2>9. Len(Queue[n]) = 1
    BY <1>8, <1>17
  <2>10. /\ BusOK' /\ RingsOK' /\ RequestOK' /\ FlowOK' /\ EventsOK' /\ StagesOK'
    BY <1>2, <1>4, <1>12, <2>5, <2>6, <2>7, <2>8, <2>9, AnswerStep
  <2> QED BY <1>2, <1>5, <1>13, <1>14, <1>16, <2>10 DEF UsbInv, TrafficOK
<1>18. CASE L # 1
  <2>1. L \in 2 .. k /\ k - L + 1 \in 1 .. k - 1
    BY <1>7, <1>9, <1>18
  <2>2. x.ioc = FALSE /\ x.type # "event_data"
    BY <1>7, <1>15, <2>1
  <2>3. hw' = Take(n) /\ rings' = rings /\ stages' = [stages EXCEPT ![s] = Append(stages[s], x.type)]
    BY <1>3, <1>15, <2>2 DEF CtlControl
  <2>4. BusOK' /\ Queue' = [Queue EXCEPT ![n] = Dropped(Queue[n])] /\ Evs' = Evs
    BY <1>1, <1>4, <2>3, TakeStep
  <2>5. Append(StagesOf(m, L), x.type) = StagesOf(m, L - 1)
    BY <1>7, <1>15, <2>1, StageTaken
  <2>6. PICK w : w = Rest(m, L - 1)
    OBVIOUS
  <2>7. Len(w) = L - 1 /\ w # <<>>
    <3>1. w = [j \in 1 .. L - 1 |-> w[j]] /\ L - 1 \in Nat /\ L - 1 # 0
      BY <2>1, <2>6 DEF Rest
    <3> QED BY <3>1, LengthIs
  <2>8. DOMAIN Queue' = DOMAIN Queue /\ Queue'[n] = w /\ \A r \in DOMAIN Queue \ {n} : Queue'[r] = Queue[r]
    BY <1>4, <1>8, <1>10, <2>4, <2>6
  <2>9. Now' = Now /\ Target' = Target /\ ReqRing' = n /\ ReqTrbs' = m
    BY <1>4, <1>6, <1>12, NowKept
  <2>10. RingsOK'
    BY <1>1, <1>2, <2>8 DEF RingsOK
  <2>11. RequestOK'
    <3>1. Len(w) <= Len(m) /\ w = Rest(m, Len(w))
      BY <1>7, <2>1, <2>6, <2>7
    <3> QED BY <1>1, <1>2, <1>4, <2>8, <2>9, <3>1 DEF RequestOK
  <2>12. StagesOK'
    <3>1. stages' = [t \in Slots |-> IF t = s THEN StagesOf(m, L - 1) ELSE <<>>]
      BY <1>11, <2>3, <2>5
    <3>2. Len(Queue'[ReqRing']) = L - 1 /\ ReqTrbs' = m /\ cur' = s /\ req'.waiting /\ Now' \in ControlLabels
      BY <1>2, <1>4, <1>5, <2>7, <2>8, <2>9
    <3> QED BY <3>1, <3>2 DEF StagesOK
  <2>13. \A t \in Armed : n # <<t, InIndex>>
    BY <1>3, IndexFacts
  <2>14. FlowOK'
    <3>1. \A r \in DOMAIN Queue' : Queue'[r] # <<>> =>
            \/ req'.waiting /\ r = ReqRing'
            \/ \E t \in Armed' : r = <<t, InIndex>>
      BY <1>1, <1>2, <1>4, <1>16, <2>8, <2>9 DEF FlowOK
    <3>2. \A t \in Armed' : <<t, InIndex>> \in DOMAIN Queue
      BY <1>1, <1>16 DEF RingsOK, SlotsOK, Armed
    <3>3. \A t \in Armed' : Len(Queue'[<<t, InIndex>>]) <= 1
      BY <1>1, <1>16, <2>8, <2>13, <3>2 DEF FlowOK
    <3> QED BY <3>1, <3>3 DEF FlowOK
  <2>15. EventsOK'
    <3>1. PICK v : v = Evs /\ v = Evs'
      BY <2>4
    <3>2. \A j \in 1 .. Len(v) : v[j].type = "port" \/ KeyEvent(v[j])
      BY <1>1, <1>4, <3>1 DEF EventsOK, AnswerEvent
    <3>3. ASSUME NEW e, KeyEvent(e) PROVE KeyEvent(e)'
      <4>1. e.slot \in Armed /\ <<e.slot, InIndex>> \in DOMAIN Queue \ {n}
        BY <1>1, <2>13, <3>3 DEF KeyEvent, RingsOK, SlotsOK, Armed
      <4> QED BY <1>16, <2>8, <3>3, <4>1 DEF KeyEvent
    <3>4. \A j \in 1 .. Len(v) : v[j].type = "port" \/ KeyEvent(v[j])'
      BY <3>2, <3>3
    <3>5. \A e : Owner(e)' = Owner(e)
      BY <1>16 DEF Owner
    <3> QED BY <1>1, <3>1, <3>4, <3>5 DEF EventsOK
  <2> QED BY <1>2, <1>5, <1>13, <1>14, <1>16, <2>4, <2>10, <2>11, <2>12, <2>14, <2>15 DEF UsbInv, TrafficOK
<1> QED BY <1>17, <1>18

\* The disk takes the TRB of the transfer waited for.
LEMMA BulkTold ==
  ASSUME UsbInv, NEW s \in Slots, NEW e \in {InIndex, OutIndex}, slots[s].kind = "disk", Ready(<<s, e>>)
  PROVE  /\ <<s, e>> \in DOMAIN Queue /\ Available(rings[<<s, e>>], hw[<<s, e>>])
         /\ Len(Queue[<<s, e>>]) = 1
         /\ Taken(rings[<<s, e>>], hw[<<s, e>>]).buf = BulkPage[Now]
         /\ req.waiting /\ <<s, e>> = ReqRing /\ ~Answered /\ ~req.done
         /\ Now \in BulkLabels /\ s = msd.slot /\ e = BulkRing(Now) /\ todo # <<>> /\ s \notin Armed
<1>1. SlotsOK
  BY DEF UsbInv, TrafficOK
<1>2. PICK n : n = <<s, e>>
  OBVIOUS
<1>3. s \notin Armed /\ n # EventRing /\ \A t \in Armed : n # <<t, InIndex>>
  BY <1>1, <1>2, IndexFacts DEF SlotsOK, EventRing
<1>4. /\ n \in DOMAIN Queue /\ Available(rings[n], hw[n]) /\ Taken(rings[n], hw[n]) = Queue[n][1]
      /\ req.waiting /\ n = ReqRing /\ ~Answered /\ ~req.done
  BY <1>2, <1>3, ReadyRing
<1>5. Now \in BulkLabels /\ s = msd.slot /\ e = BulkRing(Now) /\ todo # <<>>
  BY <1>2, <1>4, RingTells
<1>6. Now \notin ControlLabels /\ Now \notin CommandLabels
  BY <1>5 DEF BulkLabels, ControlLabels, CommandLabels
<1>7. Len(Queue[n]) = 1 /\ Queue[n][1] = ReqTrbs[1]
  BY <1>4, <1>6, OneLeft
<1>8. ReqTrbs = <<NormalTrb(BulkPage[Now])>>
  BY <1>6 DEF ReqTrbs, TrbsOf
<1>9. NormalTrb(BulkPage[Now]).buf = BulkPage[Now]
  BY DEF NormalTrb
<1>10. ReqTrbs[1] = NormalTrb(BulkPage[Now])
  BY <1>8
<1> QED BY <1>2, <1>3, <1>4, <1>5, <1>7, <1>9, <1>10

\* A bulk transfer is done by the disk.
LEMMA BulkKeeps ==
  ASSUME UsbInv, NEW s \in Slots, NEW e \in {InIndex, OutIndex}, CtlBulk(s, e), UsbRest
  PROVE  UsbInv' /\ halted' = halted /\ Answered' /\ RequestKept
<1>1. /\ BusOK /\ RingsOK /\ SlotsOK /\ RequestOK /\ StagesOK /\ FlowOK /\ EventsOK
      /\ ScriptOK /\ DiskOK /\ CallOK /\ SideOK
  BY DEF UsbInv, TrafficOK
<1>2. /\ UNCHANGED <<changes, stages, slots, todo, cur, port, stale, req, msd, blk, backend, fs, halted>>
      /\ Ready(<<s, e>>) /\ slots[s].kind = "disk"
  BY DEF CtlBulk, UsbRest, fsVars, drvVars
<1>3. PICK n, b : n = <<s, e>> /\ b = BulkPage[Now]
  OBVIOUS
<1>4. /\ n \in DOMAIN Queue /\ Available(rings[n], hw[n]) /\ Len(Queue[n]) = 1
      /\ Taken(rings[n], hw[n]).buf = b
      /\ req.waiting /\ n = ReqRing /\ ~Answered /\ ~req.done
      /\ Now \in BulkLabels /\ s = msd.slot /\ e = BulkRing(Now) /\ todo # <<>> /\ s \notin Armed
  BY <1>2, <1>3, BulkTold
<1>5. Now \notin ControlLabels /\ Now \notin CommandLabels /\ Now # "enable_slot" /\ Target = s
  BY <1>4 DEF BulkLabels, ControlLabels, CommandLabels, Target
<1>6. mem'.command = mem.command /\ DOMAIN mem' = {"command", "response", "status"}
  <2>1. DOMAIN mem = {"command", "response", "status"}
    BY <1>1 DEF SideOK
  <2>2. e = InIndex => b \in {"response", "status"}
    BY <1>3, <1>4, IndexFacts DEF BulkRing, BulkPage, BulkLabels
  <2>3. mem' = mem \/ (e = InIndex /\ \E z : mem' = [mem EXCEPT ![b] = z])
    BY <1>3, <1>4 DEF CtlBulk
  <2> QED BY <2>1, <2>2, <2>3
<1>7. RequestKept
  BY <1>2, <1>6 DEF RequestKept
<1>8. ScriptOK' /\ DiskOK'
  BY <1>1, <1>2, <1>5, <1>7, SetUpKept
<1>9. CallOK' /\ SideOK'
  BY <1>1, <1>2, <1>6 DEF CallOK, SideOK, Now
<1>10. SlotsOK' /\ Armed' = Armed /\ Manned
  BY <1>1, <1>2 DEF SlotsOK, Armed, Manned
<1>11. PICK f : f = [type |-> "transfer", slot |-> s, code |-> 1, ed |-> FALSE]
  OBVIOUS
<1>12. PostFor(n, f)
  BY <1>3, <1>11 DEF CtlBulk
<1>13. stages' = [t \in Slots |-> <<>>]
  BY <1>1, <1>2, <1>5 DEF StagesOK
<1>14. f \in Replies' /\ f.slot \notin Armed
  <2>1. Now' = Now /\ Target' = s
    BY <1>5, <1>7, NowKept
  <2>2. [type |-> "transfer", slot |-> s, code |-> 1, ed |-> Now' \in ControlLabels] \in Replies'
    BY <1>5, <2>1 DEF Replies
  <2>3. (Now' \in ControlLabels) = FALSE
    BY <1>5, <2>1
  <2> QED BY <1>4, <1>11, <2>2, <2>3
<1>15. /\ BusOK' /\ RingsOK' /\ RequestOK' /\ FlowOK' /\ EventsOK' /\ StagesOK' /\ Answered'
  BY <1>2, <1>4, <1>7, <1>10, <1>12, <1>13, <1>14, AnswerStep
<1> QED BY <1>2, <1>7, <1>8, <1>9, <1>10, <1>15 DEF UsbInv, TrafficOK

-----------------------------------------------------------------------------
(* The USB side holds together.                                            *)

\* At the start no ring has a TRB and no slot is in use.
LEMMA UsbStart ==
  ASSUME Init
  PROVE  UsbInv
<1>1. /\ rings = [n \in {CmdRing, EventRing} |-> create_ring] /\ hw = [n \in {CmdRing, EventRing} |-> StartPos]
      /\ stages = [s \in Slots |-> <<>>] /\ slots = [s \in Slots \cup {0} |-> FreshSlot]
      /\ todo = <<>> /\ req = Idle /\ port = -1 /\ changes = 0 /\ ~stale
      /\ mem = FreePages /\ msd = [slot |-> 0, last |-> -1]
      /\ blk = NoCall /\ fs = IdleFs /\ backend \in {"usb", "virtio"}
  BY DEF Init, initialise_xhci, UsbInit, FsDevInit
<1>2. CmdRing # EventRing /\ 0 \notin Slots
  BY IndexFacts DEF CmdRing, EventRing
<1>3. BusOK
  BY <1>1, <1>2, CreateRing, CreateEvents DEF BusOK
<1>4. DOMAIN Queue = {CmdRing} /\ Queue[CmdRing] = <<>>
  <2>1. DOMAIN Queue = {CmdRing}
    BY <1>1, <1>2 DEF Queue
  <2>2. Queue[CmdRing] = Queued(create_ring, StartPos)
    BY <1>1, <1>2 DEF Queue
  <2> QED BY <2>1, <2>2, CreateRing
<1>5. Len(Evs) = 0
  <2>1. Evs = Posted(create_ring, StartPos)
    BY <1>1 DEF Evs
  <2> QED BY <2>1, CreateEvents, LengthIs
<1>6. SlotsOK /\ Armed = {} /\ RingsOK
  <2>1. FreshSlot \in SlotType /\ FreshSlot.handler = "to_slot_0" /\ FreshSlot.data = "null" /\ FreshSlot.eps = {}
    BY DEF FreshSlot, SlotType
  <2>2. slots[0] = FreshSlot /\ \A s \in Slots : slots[s] = FreshSlot
    BY <1>1
  <2>3. Armed = {}
    BY <2>1, <2>2 DEF Armed
  <2>4. slots \in [Slots \cup {0} -> SlotType]
    BY <1>1, <2>1
  <2>5. SlotsOK
    BY <2>1, <2>2, <2>3, <2>4 DEF SlotsOK
  <2> QED BY <1>4, <2>1, <2>2, <2>3, <2>5 DEF RingsOK
<1>7. RequestOK /\ StagesOK
  <2>1. Idle \in [waiting : BOOLEAN, done : BOOLEAN, result : EventType]
    BY DEF Idle, NoResult, EventType
  <2>2. Idle.waiting = FALSE /\ Idle.done = FALSE
    BY DEF Idle
  <2>3. RequestOK
    BY <1>1, <2>1, <2>2 DEF RequestOK
  <2> QED BY <1>1, <2>2, <2>3 DEF StagesOK
<1>8. FlowOK /\ EventsOK
  <2>1. 1 .. Len(Evs) = {}
    BY <1>5
  <2> QED BY <1>4, <1>6, <2>1 DEF FlowOK, EventsOK
<1>9. ScriptOK
  <2>1. Linked(<<>>, Kind)
    BY DEF Linked
  <2> QED BY <1>1, <2>1 DEF ScriptOK
<1>10. DiskOK /\ CallOK /\ SideOK
  <2>1. DiskOK
    BY <1>1 DEF DiskOK
  <2>2. CallOK
    BY <1>1 DEF CallOK, NoCall, IdleFs
  <2> QED BY <1>1, <2>1, <2>2 DEF SideOK, FreePages
<1> QED BY <1>3, <1>6, <1>7, <1>8, <1>9, <1>10 DEF UsbInv, TrafficOK

\* Every step of the kernel, the controller and the devices keeps it.
LEMMA UsbStep ==
  ASSUME UsbInv, [Next]_vars
  PROVE  UsbInv'
<1>1. CASE UsbKernel
  <2>1. backend = "usb" /\ UsbRest
    BY <1>1 DEF UsbKernel
  <2>2. CASE XhciRest /\ fs.st = "idle" /\ set_up_port
    BY <2>1, <2>2, SetUpPortKeeps
  <2>3. CASE XhciRest /\ send_command_ring_trb
    BY <2>1, <2>3, RequestsSend
  <2>4. CASE XhciRest /\ send_control_transfer
    BY <2>1, <2>4, RequestsSend
  <2>5. CASE XhciRest /\ Complete
    BY <2>1, <2>5, CompleteKeeps
  <2>6. CASE XhciRest /\ arm_keyboard
    BY <2>1, <2>6, ArmKeeps
  <2>7. CASE read_capacity
    BY <2>1, <2>7, ReadCapacityKeeps
  <2>8. CASE send_bbb
    BY <2>1, <2>8, RequestsSend
  <2>9. CASE block_call
    BY <2>1, <2>9, BlockCallKeeps
  <2>10. CASE BulkDone
    BY <2>1, <2>10, BulkDoneKeeps
  <2> QED BY <1>1, <2>2, <2>3, <2>4, <2>5, <2>6, <2>7, <2>8, <2>9, <2>10 DEF UsbKernel
<1>2. CASE Register
  BY <1>2, RegisterKeeps
<1>3. CASE Ask \/ FsKernel \/ VirtioKernel \/ VirtioDevice
  BY <1>3, FsKeeps
<1>4. CASE Interrupt
  BY <1>4, InterruptKeeps
<1>5. CASE Controller
  <2>1. UsbRest
    BY <1>5 DEF Controller
  <2>2. CASE XhciRest /\ CtlCommand
    BY <2>1, <2>2, CommandKeeps
  <2>3. CASE XhciRest /\ \E s \in Slots : CtlControl(s)
    BY <2>1, <2>3, ControlKeeps
  <2>4. CASE XhciRest /\ \E s \in Slots : CtlReport(s)
    BY <2>1, <2>4, ReportKeeps
  <2>5. CASE XhciRest /\ CtlPortChange
    BY <2>1, <2>5, PortChangeKeeps
  <2>6. CASE \E s \in Slots, e \in {InIndex, OutIndex} : CtlBulk(s, e)
    BY <2>1, <2>6, BulkKeeps
  <2> QED BY <1>5, <2>2, <2>3, <2>4, <2>5, <2>6 DEF Controller, XhciController
<1>6. CASE UNCHANGED vars
  <2>1. /\ UNCHANGED <<busVars, drvVars>> /\ msd' = msd /\ mem' = mem
        /\ UNCHANGED <<blk, fs, backend, todo>>
    BY <1>6 DEF vars, xhciVars, usbVars, fsVars, drvVars
  <2>2. TrafficOK' /\ ScriptOK' /\ DiskOK' /\ SideOK'
    BY <2>1, OthersKeep
  <2>3. CallOK'
    BY <2>1 DEF UsbInv, CallOK, Now
  <2> QED BY <2>2, <2>3 DEF UsbInv
<1> QED BY <1>1, <1>2, <1>3, <1>4, <1>5, <1>6 DEF Next, System, Kernel

\* The USB side of the stack stays in order: TRBs wait only on the ring of
\* the one request waited for or for a keyboard's report, every event not
\* yet taken is a port's, a keyboard's or that request's answer, and each
\* slot's handler and frame pointer fit what may come for it.
THEOREM UsbInOrder == Spec => []UsbInv
<1>1. Init => UsbInv
  BY UsbStart
<1>2. UsbInv /\ [Next]_vars => UsbInv'
  BY UsbStep
<1> QED BY <1>1, <1>2, PTL DEF Spec

\* fetch_and_copy writes a completion only into a stack frame that still
\* waits for it, whatever the order of interrupts, keyboard reports and
\* requests: a frame that has returned is never written.
THEOREM CompletionsReachWaiters == Spec => []NoStaleCompletion
<1>1. UsbInv => NoStaleCompletion
  BY DEF UsbInv, SideOK, NoStaleCompletion
<1> QED BY <1>1, UsbInOrder, PTL

-----------------------------------------------------------------------------
(* What the calls of the disk's driver move, and what the kernel keeps of   *)
(* it.                                                                      *)

\* A command is under way; the controller has carried out the transfer
\* waited for.
Bulk == todo # <<>> /\ Now \in BulkLabels
Carried == req.waiting /\ Answered
\* How far the command has come: not taken by the disk, taken, its data
\* moved, its status sent.
Point == IF ~Bulk THEN 0
         ELSE (CASE Now = "cbw" -> 0 [] Now = "data" -> 1 [] OTHER -> 2) + (IF Carried THEN 1 ELSE 0)

\* The page holds what the medium does.
Moved == IF mem.command.op = "capacity" THEN mem.response[1] = LastLba ELSE mem.response = disk[mem.command.lba]

UnitOK ==
    /\ unit = [phase |-> unit.phase, command |-> unit.command, refused |-> unit.refused]
    /\ Point \in {0, 3} => unit.phase = "command"
    /\ Point = 1 => unit.phase = IF mem.command.op = "write" THEN "out" ELSE "in"
    /\ Point = 2 => unit.phase = "status" /\ (unit.refused \/ Moved)
    /\ Point \in {1, 2} => unit.command = mem.command /\ (unit.refused => faults > 0)
    /\ Point = 3 => mem.status.tag = mem.command.tag /\ IF mem.status.status = 0 THEN Moved ELSE faults > 0

CommandOK ==
    /\ msd.last \in {-1, LastLba}
    /\ Bulk => /\ mem.command.lba \in 0 .. LastLba
               /\ \/ mem.command.op = "capacity"
                  \/ /\ mem.command.op \in {"read", "write"} /\ blk.st = "busy"
                     /\ mem.command.op = blk.op /\ mem.command.lba = blk.lba

\* The driver is called for the sector devfs is at, which is not past the
\* last one asked for; it returns with what is on the medium.
CallingOK ==
    /\ blk = [st |-> blk.st, op |-> blk.op, lba |-> blk.lba, data |-> blk.data]
    /\ fs = [st |-> fs.st, ask |-> fs.ask, sector |-> fs.sector, last |-> fs.last,
             inSector |-> fs.inSector, done |-> fs.done, out |-> fs.out]
    /\ fs.sector \in Nat /\ fs.last \in Nat /\ blk.lba \in Nat
    /\ IF fs.st \in {"idle", "loop"} THEN blk.st = "idle" ELSE blk.st \in {"call", "busy", "done"}
    /\ CASE fs.st \in {"idle", "loop"} -> TRUE
         [] fs.st = "table" -> blk.op = "read" /\ blk.lba = 0
         [] fs.st \in {"fill", "modify"} -> blk.op = "read" /\ blk.lba = fs.sector /\ fs.sector <= fs.last
         [] fs.st = "put" -> blk.op = "write" /\ blk.lba = fs.sector /\ fs.sector <= fs.last
         [] OTHER -> FALSE
    /\ blk.st = "done" => blk.lba \in 0 .. LastLba /\ blk.data = disk[blk.lba]
PartsOK == parts \in Seq([off : 0 .. DwordSpan - 1, len : Nat])

\* The cached sector is as on the medium, but while it is read or another
\* write is about to drop it.
CacheOK ==
    /\ cache = [data |-> cache.data, sector |-> cache.sector, valid |-> cache.valid]
    /\ cache.valid => fs.st \in {"fill", "put"} \/ cache.data = disk[cache.sector]
    /\ fs.st = "fill" => cache.sector = fs.sector

\* A virtio request waits to be served; only then is the device behind the
\* driver, by one, or at work.
Asked == backend = "virtio" /\ blk.st = "busy" /\ packet.status = PLACEHOLDER_STATUS
VirtioOK ==
    /\ vq = [buffers |-> vq.buffers, ring |-> [i \in 0 .. QueueSize - 1 |-> 0], avail |-> vq.avail,
             used |-> vq.used, notified |-> vq.notified]
    /\ serving = [st |-> serving.st, seen |-> serving.seen, head |-> 0]
    /\ packet = [type |-> packet.type, sector |-> packet.sector, data |-> packet.data, status |-> packet.status]
    /\ vq.avail \in 0 .. IndexSpan - 1 /\ serving.seen \in 0 .. IndexSpan - 1
    /\ serving.st \in {"idle", "serve", "finish"}
    /\ serving.st = "serve" => Asked /\ serving.seen = vq.avail
    /\ serving.seen # vq.avail => Asked /\ (serving.seen + 1) % IndexSpan = vq.avail
    /\ Asked => packet.type = blk.op /\ packet.sector = blk.lba /\ vq.buffers = Chain(blk.op)
    /\ ~halted /\ ~Asked /\ backend = "virtio" /\ blk.st = "busy" =>
         IF packet.status = 0 THEN blk.lba \in 0 .. LastLba /\ packet.data = disk[blk.lba]
         ELSE faults > 0 \/ blk.lba > LastLba

MediumOK == disk = [l \in 0 .. LastLba |-> disk[l]] /\ faults \in Nat
DataInv == UnitOK /\ CommandOK /\ CallingOK /\ PartsOK /\ CacheOK /\ VirtioOK /\ MediumOK /\ HaltsOnlyForCause
StackInv == UsbInv /\ DataInv

\* A step that leaves the list, and the transfer if a command is under way,
\* leaves the command where it is.
LEMMA PointSame ==
  ASSUME todo' = todo, Bulk => req'.waiting = req.waiting /\ (req.waiting => Answered' = Answered)
  PROVE  Point' = Point /\ (Bulk <=> Bulk') /\ Now' = Now
<1>1. Now' = Now /\ (Bulk <=> Bulk')
  BY DEF Now, Bulk
<1>2. CASE ~Bulk
  BY <1>1, <1>2 DEF Point
<1>3. CASE Bulk
  <2>1. Carried <=> Carried'
    BY <1>3 DEF Carried
  <2> QED BY <1>1, <1>3, <2>1 DEF Point
<1> QED BY <1>1, <1>2, <1>3

\* Where a command can be.
LEMMA PointIs ==
  /\ Point \in 0 .. 3 /\ (~Bulk => Point = 0)
  /\ Bulk /\ Now = "cbw" => Point = IF Carried THEN 1 ELSE 0
  /\ Bulk /\ Now = "data" => Point = IF Carried THEN 2 ELSE 1
  /\ Bulk /\ Now = "csw" => Point = IF Carried THEN 3 ELSE 2
BY DEF Point, Bulk, BulkLabels

\* Steps that only move requests and events about.
Steady ==
    /\ UNCHANGED <<mem, unit, msd, blk, disk, faults, vq, packet, serving, parts, cache, fs, backend>>
    /\ (halted' <=> halted) /\ Point' = Point /\ (Bulk <=> Bulk')
\* They change nothing of the data.
LEMMA SteadyKeeps ==
  ASSUME DataInv, Steady
  PROVE  DataInv'
<1>1. UnitOK' /\ CommandOK'
  BY DEF DataInv, Steady, UnitOK, CommandOK, Moved
<1>2. CallingOK' /\ PartsOK' /\ CacheOK' /\ MediumOK' /\ HaltsOnlyForCause'
  BY DEF DataInv, Steady, CallingOK, PartsOK, CacheOK, MediumOK, HaltsOnlyForCause
<1>3. VirtioOK'
  BY DEF DataInv, Steady, VirtioOK, Asked
<1> QED BY <1>1, <1>2, <1>3 DEF DataInv

\* The driver's set-up and requests, the interrupt handler, and the
\* controller but for the disk's transfers.
LEMMA SteadySteps ==
  ASSUME UsbInv, \/ /\ UsbRest /\ XhciRest /\ backend = "usb"
                    /\ set_up_port \/ send_command_ring_trb \/ send_control_transfer \/ Complete \/ arm_keyboard
                 \/ UsbRest /\ send_bbb
                 \/ Interrupt
                 \/ UsbRest /\ XhciRest /\ XhciController
                 \/ UNCHANGED vars
  PROVE  Steady
<1>1. UNCHANGED <<mem, unit, msd, blk, disk, faults, vq, packet, serving, parts, cache, fs, backend>>
  BY DEF UsbRest, XhciRest, usbVars, virtioVars, fsVars, send_bbb, Interrupt, vars
<1>2. CASE UsbRest /\ XhciRest /\ set_up_port
  <2>1. todo = <<>> /\ (todo' = <<>> \/ todo' = SetUpScript) /\ halted' = halted
    BY <1>2 DEF set_up_port
  <2>2. ~Bulk /\ ~Bulk'
    BY <2>1 DEF Bulk, Now, SetUpScript, BulkLabels
  <2> QED BY <1>1, <2>1, <2>2, PointIs DEF Steady, Point
<1>3. CASE UsbRest /\ ((XhciRest /\ (send_command_ring_trb \/ send_control_transfer)) \/ send_bbb)
  <2>1. todo' = todo /\ halted' = halted /\ ~req.waiting
    BY <1>3 DEF send_command_ring_trb, send_control_transfer, send_bbb
  <2>2. ~Answered'
    BY <1>3, RequestsSend
  <2>3. Now' = Now /\ (Bulk <=> Bulk') /\ ~Carried /\ ~Carried'
    BY <2>1, <2>2 DEF Now, Bulk, Carried
  <2>4. Point' = Point
    BY <2>3 DEF Point
  <2> QED BY <1>1, <2>1, <2>3, <2>4 DEF Steady
<1>4. CASE UsbRest /\ XhciRest /\ backend = "usb" /\ Complete
  <2>1. halted' = halted /\ Now \in CommandLabels \cup ControlLabels
    BY <1>4, Completes
  <2>2. ~Bulk /\ ~Bulk'
    BY <1>4, <2>1, CompleteKeeps DEF Bulk, CommandLabels, ControlLabels, BulkLabels
  <2> QED BY <1>1, <2>1, <2>2, PointIs DEF Steady, Point
<1>5. CASE UsbRest /\ XhciRest /\ arm_keyboard
  <2>1. todo # <<>> /\ Now = "arm_keyboard" /\ todo' = Tail(todo) /\ halted' = halted
    BY <1>5 DEF arm_keyboard, Now
  <2>2. Linked(todo, Kind)
    BY DEF UsbInv, ScriptOK
  <2>3. todo' = <<>>
    BY <2>1, <2>2, LinkedLast DEF Now
  <2>4. ~Bulk /\ ~Bulk'
    BY <2>1, <2>3 DEF Bulk, BulkLabels
  <2> QED BY <1>1, <2>1, <2>4, PointIs DEF Steady, Point
<1>6. CASE Interrupt
  <2>1. ~halted /\ todo' = todo
    BY <1>6 DEF Interrupt, handle_incoming_event
  <2>2. ~halted' /\ req'.waiting = req.waiting /\ (req.waiting => Answered' = Answered)
    BY <1>6, InterruptKeeps
  <2>3. Point' = Point /\ (Bulk <=> Bulk')
    BY <2>1, <2>2, PointSame
  <2> QED BY <1>1, <2>1, <2>2, <2>3 DEF Steady
<1>7. CASE UsbRest /\ XhciRest /\ XhciController
  <2>1. todo' = todo
    BY <1>7 DEF XhciController, CtlCommand, CtlControl, CtlReport, CtlPortChange, drvVars
  <2>2. CASE CtlCommand \/ \E s \in Slots : CtlControl(s)
    <3>1. halted' = halted /\ Now \notin BulkLabels
      BY <1>7, <2>2, CommandKeeps, ControlKeeps
    <3>2. ~Bulk
      BY <3>1 DEF Bulk
    <3>3. Point' = Point /\ (Bulk <=> Bulk')
      BY <2>1, <3>2, PointSame
    <3> QED BY <1>1, <3>1, <3>3 DEF Steady
  <2>3. CASE CtlPortChange \/ \E s \in Slots : CtlReport(s)
    <3>1. halted' = halted /\ req' = req /\ (req.waiting => Answered' = Answered)
      BY <1>7, <2>3, PortChangeKeeps, ReportKeeps
    <3>2. Point' = Point /\ (Bulk <=> Bulk')
      BY <2>1, <3>1, PointSame
    <3> QED BY <1>1, <3>1, <3>2 DEF Steady
  <2> QED BY <1>7, <2>2, <2>3 DEF XhciController
<1>8. CASE UNCHANGED vars
  <2>1. todo' = todo /\ req' = req /\ halted' = halted /\ RequestKept /\ rings' = rings /\ hw' = hw
    BY <1>8 DEF vars, xhciVars, busVars, drvVars, usbVars, RequestKept
  <2>2. Answered' = Answered
    BY <2>1, NowKept DEF Answered, Queue
  <2>3. Point' = Point /\ (Bulk <=> Bulk')
    BY <2>1, <2>2, PointSame
  <2> QED BY <1>1, <2>1, <2>3 DEF Steady
<1> QED BY <1>2, <1>3, <1>4, <1>5, <1>6, <1>7, <1>8

\* The list after a transfer of a command.
LEMMA BulkNext ==
  ASSUME UsbInv, Bulk, NEW t, t = Tail(todo)
  PROVE  /\ Now = "cbw" => t # <<>> /\ Head(t) = "data"
         /\ Now = "data" => t # <<>> /\ Head(t) = "csw"
         /\ Now = "csw" /\ t # <<>> => Head(t) = "register"
<1>1. Linked(todo, Kind) /\ todo # <<>> /\ Now \in BulkLabels
  BY DEF UsbInv, ScriptOK, Bulk
<1>2. /\ t # <<>> => Follows(Kind, Now, Head(t))
      /\ t = <<>> => Now \in Final
  BY <1>1, LinkedTail DEF Now
<1>3. PICK f : f = Following(Kind)
  OBVIOUS
<1>4. f["cbw"] = "data" /\ f["data"] = "csw" /\ f["csw"] = "register"
  BY <1>3 DEF Following, Labels, BulkLabels
<1>5. t # <<>> => Head(t) = f[Now]
  BY <1>2, <1>3 DEF Follows
<1>6. Now \in {"cbw", "data"} => t # <<>>
  BY <1>2 DEF Final
<1> QED BY <1>4, <1>5, <1>6

\* A command is put before the rest of the list.
LEMMA BulkFirst ==
  ASSUME NEW r \in Seq(Labels), todo' = <<"cbw", "data", "csw">> \o r, ~req'.waiting
  PROVE  Bulk' /\ Point' = 0
<1>1. <<"cbw", "data", "csw">> \in Seq(Labels)
  BY DEF Labels, BulkLabels
<1>2. todo' # <<>> /\ Head(todo') = "cbw"
  BY <1>1
<1>3. Now' = "cbw" /\ Bulk' /\ ~Carried'
  BY <1>2 DEF Now, Bulk, BulkLabels, Carried
<1> QED BY <1>3 DEF Point

\* READ CAPACITY is asked for.
LEMMA CapacityData ==
  ASSUME UsbInv, DataInv, read_capacity, UsbRest, backend = "usb"
  PROVE  DataInv'
<1>1. /\ todo # <<>> /\ ~req.waiting /\ Now = "capacity" /\ msd' = [slot |-> cur, last |-> -1]
      /\ UNCHANGED <<req, unit, blk, disk, faults, vq, packet, serving, parts, cache, fs, backend, halted>>
      /\ mem'.command.lba = 0 /\ mem'.command.op = "capacity"
      /\ todo' = <<"cbw", "data", "csw">> \o Tail(todo)
  BY DEF read_capacity, UsbRest, virtioVars, fsVars, Now
<1>2. Tail(todo) \in Seq(Labels)
  BY <1>1 DEF UsbInv, ScriptOK, Linked
<1>3. Bulk' /\ Point' = 0
  BY <1>1, <1>2, BulkFirst
<1>4. ~Bulk /\ Point = 0
  BY <1>1, PointIs DEF Bulk, BulkLabels
<1>5. UnitOK'
  BY <1>1, <1>3, <1>4 DEF DataInv, UnitOK
<1>6. CommandOK'
  BY <1>1, SectorAssumption DEF CommandOK
<1>7. CallingOK' /\ PartsOK' /\ CacheOK' /\ MediumOK' /\ HaltsOnlyForCause'
  BY <1>1 DEF DataInv, CallingOK, PartsOK, CacheOK, MediumOK, HaltsOnlyForCause
<1>8. VirtioOK'
  BY <1>1 DEF DataInv, VirtioOK, Asked
<1> QED BY <1>5, <1>6, <1>7, <1>8 DEF DataInv

\* The driver takes devfs's call, or stops for a sector past the last.
LEMMA BlockCallData ==
  ASSUME UsbInv, DataInv, block_call, UsbRest, backend = "usb"
  PROVE  DataInv'
<1>1. /\ ~req.waiting /\ blk.st = "call" /\ msd.last >= 0 /\ blk' = [blk EXCEPT !.st = "busy"] /\ ~halted
      /\ UNCHANGED <<req, msd, unit, disk, faults, vq, packet, serving, parts, cache, fs, backend>>
      /\ IF blk.lba <= msd.last
         THEN /\ mem'.command.op = blk.op /\ mem'.command.lba = blk.lba
              /\ todo' = <<"cbw", "data", "csw">> \o todo /\ halted' = halted
         ELSE halted' = TRUE /\ UNCHANGED <<mem, todo>>
  BY DEF block_call, UsbRest, virtioVars, fsVars, Accept, LbaInRange, Command
<1>2. todo = <<>> \/ todo = <<"register">>
  BY <1>1 DEF UsbInv, CallOK
<1>3. ~Bulk /\ Point = 0 /\ todo \in Seq(Labels)
  <2>1. todo \in Seq(Labels)
    BY DEF UsbInv, ScriptOK, Linked
  <2>2. todo # <<>> => Now = "register"
    BY <1>2, BulkLists DEF Now
  <2> QED BY <2>1, <2>2, PointIs DEF Bulk, BulkLabels
<1>4. /\ blk = [st |-> blk.st, op |-> blk.op, lba |-> blk.lba, data |-> blk.data] /\ blk.lba \in Nat /\ fs.last \in Nat
      /\ fs.st \notin {"idle", "loop"} /\ blk.op \in {"read", "write"}
      /\ blk.lba = 0 \/ blk.lba <= fs.last
  BY <1>1 DEF DataInv, CallingOK
<1>5. blk' = [st |-> "busy", op |-> blk.op, lba |-> blk.lba, data |-> blk.data]
  BY <1>1, <1>4
<1>6. blk'.st = "busy" /\ blk'.op = blk.op /\ blk'.lba = blk.lba /\ blk'.data = blk.data
      /\ blk' = [st |-> blk'.st, op |-> blk'.op, lba |-> blk'.lba, data |-> blk'.data]
  BY <1>5
<1>7. CallingOK'
  <2>1. CallingOK
    BY DEF DataInv
  <2> QED BY <1>1, <1>4, <1>6, <2>1 DEF CallingOK
<1>8. PartsOK' /\ CacheOK' /\ MediumOK'
  BY <1>1 DEF DataInv, PartsOK, CacheOK, MediumOK
<1>9. VirtioOK'
  <2>1. VirtioOK /\ ~Asked /\ ~Asked' /\ backend' # "virtio"
    BY <1>1 DEF DataInv, Asked
  <2> QED BY <1>1, <2>1 DEF VirtioOK
<1>10. msd.last = LastLba /\ LastLba \in Nat
  BY <1>1, SectorAssumption DEF DataInv, CommandOK
<1>11. CASE blk.lba <= msd.last
  <2>1. Bulk' /\ Point' = 0
    BY <1>1, <1>3, <1>11, BulkFirst
  <2>2. UnitOK'
    BY <1>1, <1>3, <2>1 DEF DataInv, UnitOK
  <2>3. CommandOK'
    BY <1>1, <1>4, <1>6, <1>10, <1>11 DEF CommandOK
  <2>4. HaltsOnlyForCause'
    BY <1>1, <1>11 DEF HaltsOnlyForCause
  <2> QED BY <1>7, <1>8, <1>9, <2>2, <2>3, <2>4 DEF DataInv
<1>12. CASE ~(blk.lba <= msd.last)
  <2>1. todo' = todo /\ mem' = mem /\ halted'
    BY <1>1, <1>12
  <2>2. ~Bulk' /\ Point' = 0
    BY <1>3, <2>1, PointSame
  <2>3. UnitOK'
    BY <1>1, <1>3, <2>2 DEF DataInv, UnitOK
  <2>4. CommandOK'
    BY <1>1, <2>2 DEF DataInv, CommandOK
  <2>5. HaltsOnlyForCause'
    BY <1>1, <1>4, <1>10, <1>12 DEF HaltsOnlyForCause
  <2> QED BY <1>7, <1>8, <1>9, <2>3, <2>4, <2>5 DEF DataInv
<1> QED BY <1>11, <1>12

\* A transfer of a command is over; after the last the call returns, or the
\* kernel stops for a status that only a refusal gives.
LEMMA BulkDoneData ==
  ASSUME UsbInv, DataInv, BulkDone, UsbRest, backend = "usb"
  PROVE  DataInv'
<1>1. /\ ~halted /\ req.waiting /\ req.done /\ Now \in BulkLabels /\ req' = Idle /\ todo' = Tail(todo)
      /\ UNCHANGED <<unit, disk, faults, vq, packet, serving, parts, cache, fs, backend>>
  BY DEF BulkDone, UsbRest, virtioVars, fsVars, Now
<1>2. todo # <<>> /\ Answered /\ req.result \in Replies
  BY <1>1 DEF UsbInv, TrafficOK, RequestOK
<1>3. Bulk /\ Carried /\ ~req'.waiting /\ ~Carried'
  BY <1>1, <1>2 DEF Bulk, Carried, Idle
<1>4. req.result.type = "transfer" /\ req.result.code = 1
  BY <1>1, <1>2 DEF Replies, BulkLabels, CommandLabels
<1>5. PICK c, ok : /\ c = mem.command
                   /\ ok = (Now = "csw" => mem.status.tag = c.tag /\ mem.status.status = 0)
  OBVIOUS
<1>6. /\ halted' = ~ok
      /\ IF ok /\ Now = "csw"
         THEN IF c.op = "capacity"
              THEN msd' = [msd EXCEPT !.last = mem.response[1]] /\ blk' = blk
              ELSE blk' = [blk EXCEPT !.st = "done", !.data = mem.response] /\ msd' = msd
         ELSE UNCHANGED <<msd, blk, mem>>
  BY <1>1, <1>4, <1>5 DEF BulkDone, Now, Return
<1>7. PartsOK' /\ CacheOK' /\ MediumOK'
  BY <1>1 DEF DataInv, PartsOK, CacheOK, MediumOK
<1>8. VirtioOK'
  <2>1. VirtioOK /\ ~Asked /\ ~Asked' /\ backend' # "virtio"
    BY <1>1 DEF DataInv, Asked
  <2> QED BY <1>1, <2>1 DEF VirtioOK
<1>9. CASE Now # "csw"
  <2>1. ok /\ ~halted' /\ UNCHANGED <<msd, blk, mem>>
    BY <1>5, <1>6, <1>9
  <2>2. Now = "cbw" \/ Now = "data"
    BY <1>1, <1>9 DEF BulkLabels
  <2>3. Point' = Point /\ Bulk'
    <3>1. PICK t : t = Tail(todo)
      OBVIOUS
    <3>2. /\ Now = "cbw" => t # <<>> /\ Head(t) = "data"
          /\ Now = "data" => t # <<>> /\ Head(t) = "csw"
      BY <1>3, <3>1, BulkNext
    <3>3. /\ Now = "cbw" => Now' = "data" /\ Bulk'
          /\ Now = "data" => Now' = "csw" /\ Bulk'
      BY <1>1, <3>1, <3>2 DEF Now, Bulk, BulkLabels
    <3> QED BY <1>3, <2>2, <3>3 DEF Point
  <2>4. UnitOK'
    BY <1>1, <2>1, <2>3 DEF DataInv, UnitOK, Moved
  <2>5. CommandOK'
    BY <1>1, <1>3, <2>1, <2>3 DEF DataInv, CommandOK
  <2>6. CallingOK'
    BY <1>1, <2>1 DEF DataInv, CallingOK
  <2>7. HaltsOnlyForCause'
    BY <2>1 DEF HaltsOnlyForCause
  <2> QED BY <1>7, <1>8, <2>4, <2>5, <2>6, <2>7 DEF DataInv
<1>10. CASE Now = "csw"
  <2>1. Point = 3
    BY <1>3, <1>10, PointIs
  <2>2. /\ unit.phase = "command" /\ mem.status.tag = c.tag
        /\ IF mem.status.status = 0 THEN Moved ELSE faults > 0
    BY <1>5, <2>1 DEF DataInv, UnitOK
  <2>3. ~Bulk' /\ Point' = 0
    <3>1. PICK t : t = Tail(todo)
      OBVIOUS
    <3>2. t # <<>> => Head(t) = "register"
      BY <1>3, <1>10, <3>1, BulkNext
    <3>3. ~Bulk'
      BY <1>1, <3>1, <3>2 DEF Now, Bulk, BulkLabels
    <3> QED BY <3>3 DEF Point
  <2>4. UnitOK'
    BY <1>1, <2>2, <2>3 DEF DataInv, UnitOK
  <2>5. /\ c.lba \in 0 .. LastLba
        /\ \/ c.op = "capacity"
           \/ c.op \in {"read", "write"} /\ blk.st = "busy" /\ c.op = blk.op /\ c.lba = blk.lba
    BY <1>3, <1>5 DEF DataInv, CommandOK
  <2>6. CASE mem.status.status = 0
    <3>1. ok /\ ~halted' /\ Moved
      BY <1>5, <1>6, <2>2, <2>6
    <3>2. HaltsOnlyForCause'
      BY <3>1 DEF HaltsOnlyForCause
    <3>3. CASE c.op = "capacity"
      <4>1. msd' = [msd EXCEPT !.last = mem.response[1]] /\ blk' = blk /\ mem.response[1] = LastLba
        BY <1>5, <1>6, <1>10, <3>1, <3>3 DEF Moved
      <4>2. msd'.last = LastLba
        BY <4>1 DEF UsbInv, DiskOK
      <4>3. CommandOK'
        BY <2>3, <4>2 DEF CommandOK
      <4>4. CallingOK'
        BY <1>1, <4>1 DEF DataInv, CallingOK
      <4> QED BY <1>7, <1>8, <2>4, <3>2, <4>3, <4>4 DEF DataInv
    <3>4. CASE c.op # "capacity"
      <4>1. /\ blk' = [blk EXCEPT !.st = "done", !.data = mem.response] /\ msd' = msd
            /\ mem.response = disk[blk.lba] /\ blk.st = "busy" /\ blk.lba \in 0 .. LastLba
        BY <1>5, <1>6, <1>10, <2>5, <3>1, <3>4 DEF Moved
      <4>2. CallingOK /\ blk = [st |-> blk.st, op |-> blk.op, lba |-> blk.lba, data |-> blk.data]
        BY DEF DataInv, CallingOK
      <4>3. blk' = [st |-> "done", op |-> blk.op, lba |-> blk.lba, data |-> mem.response]
        BY <4>1, <4>2
      <4>4. blk'.st = "done" /\ blk'.op = blk.op /\ blk'.lba = blk.lba /\ blk'.data = disk[blk.lba]
            /\ blk' = [st |-> blk'.st, op |-> blk'.op, lba |-> blk'.lba, data |-> blk'.data]
        BY <4>1, <4>3
      <4>5. CallingOK'
        BY <1>1, <4>1, <4>2, <4>4 DEF CallingOK
      <4>6. CommandOK'
        BY <2>3, <4>1 DEF DataInv, CommandOK
      <4> QED BY <1>7, <1>8, <2>4, <3>2, <4>5, <4>6 DEF DataInv
    <3> QED BY <3>3, <3>4
  <2>7. CASE mem.status.status # 0
    <3>1. ~ok /\ UNCHANGED <<msd, blk, mem>> /\ faults > 0
      BY <1>5, <1>6, <1>10, <2>2, <2>7
    <3>2. HaltsOnlyForCause'
      BY <1>1, <3>1 DEF HaltsOnlyForCause
    <3>3. CommandOK' /\ CallingOK'
      BY <1>1, <2>3, <3>1 DEF DataInv, CommandOK, CallingOK
    <3> QED BY <1>7, <1>8, <2>4, <3>2, <3>3 DEF DataInv
  <2> QED BY <2>6, <2>7
<1> QED BY <1>9, <1>10

\* The disk carries out a transfer: it takes the command, moves the sector,
\* or sends the status.  The medium changes only under a write devfs waits
\* for.
LEMMA BulkData ==
  ASSUME UsbInv, DataInv, NEW s \in Slots, NEW e \in {InIndex, OutIndex}, CtlBulk(s, e), UsbRest
  PROVE  DataInv'
<1>1. /\ UNCHANGED <<todo, req, msd, blk, vq, packet, serving, parts, cache, fs, backend, halted>>
      /\ Ready(<<s, e>>) /\ slots[s].kind = "disk"
  BY DEF CtlBulk, UsbRest, virtioVars, fsVars, drvVars
<1>2. PICK b : b = BulkPage[Now]
  OBVIOUS
<1>3. /\ Taken(rings[<<s, e>>], hw[<<s, e>>]).buf = b
      /\ req.waiting /\ ~Answered /\ Now \in BulkLabels /\ e = BulkRing(Now) /\ todo # <<>>
  BY <1>1, <1>2, BulkTold
<1>4. Answered' /\ mem'.command = mem.command
  BY BulkKeeps DEF RequestKept
<1>5. Bulk /\ ~Carried /\ Now' = Now /\ Bulk' /\ Carried'
  BY <1>1, <1>3, <1>4 DEF Bulk, Carried, Now
<1>6. \/ /\ unit.phase = "command" /\ e = OutIndex
         /\ \E bad \in MayFail :
              /\ unit' = [phase |-> IF mem[b].op = "write" THEN "out" ELSE "in",
                          command |-> mem[b], refused |-> Refuses(mem[b].lba, bad)]
              /\ faults' = faults + (IF bad THEN 1 ELSE 0)
         /\ UNCHANGED <<mem, disk>>
      \/ /\ unit.phase = "out" /\ e = OutIndex
         /\ disk' = IF unit.refused THEN disk ELSE [disk EXCEPT ![unit.command.lba] = mem[b]]
         /\ unit' = [unit EXCEPT !.phase = "status"]
         /\ UNCHANGED <<mem, faults>>
      \/ /\ unit.phase = "in" /\ e = InIndex
         /\ mem' = [mem EXCEPT ![b] = IF unit.command.op = "capacity" THEN <<LastLba>>
                                        ELSE IF unit.refused THEN @ ELSE disk[unit.command.lba]]
         /\ unit' = [unit EXCEPT !.phase = "status"]
         /\ UNCHANGED <<disk, faults>>
      \/ /\ unit.phase = "status" /\ e = InIndex
         /\ mem' = [mem EXCEPT ![b] = [tag |-> unit.command.tag, status |-> IF unit.refused THEN 1 ELSE 0]]
         /\ unit' = [unit EXCEPT !.phase = "command"]
         /\ UNCHANGED <<disk, faults>>
  BY <1>3 DEF CtlBulk
<1>7. PICK c : c = mem.command
  OBVIOUS
<1>8. /\ c.lba \in 0 .. LastLba
      /\ \/ c.op = "capacity"
         \/ c.op \in {"read", "write"} /\ blk.st = "busy" /\ c.op = blk.op /\ c.lba = blk.lba
  BY <1>5, <1>7 DEF DataInv, CommandOK
<1>9. CommandOK'
  BY <1>1, <1>4, <1>5 DEF DataInv, CommandOK
<1>10. PartsOK'
  BY <1>1 DEF DataInv, PartsOK
<1>11. backend # "virtio"
  BY <1>3 DEF UsbInv, CallOK
<1>12. VirtioOK'
  <2>1. VirtioOK /\ ~Asked /\ ~Asked' /\ backend' # "virtio"
    BY <1>1, <1>11 DEF DataInv, Asked
  <2> QED BY <1>1, <2>1 DEF VirtioOK
<1>13. /\ unit = [phase |-> unit.phase, command |-> unit.command, refused |-> unit.refused]
       /\ faults \in Nat /\ disk = [l \in 0 .. LastLba |-> disk[l]] /\ LastLba \in Nat
  BY SectorAssumption DEF DataInv, UnitOK, MediumOK
<1>14. DOMAIN mem = {"command", "response", "status"}
  BY DEF UsbInv, SideOK
<1>15. CASE Now = "cbw"
  <2>1. Point = 0 /\ Point' = 1 /\ unit.phase = "command" /\ b = "command"
    <3>1. Point = 0 /\ Point' = 1
      BY <1>5, <1>15 DEF Point
    <3> QED BY <1>2, <1>15, <3>1 DEF DataInv, UnitOK, BulkPage
  <2>2. PICK bad \in MayFail :
              /\ unit' = [phase |-> IF c.op = "write" THEN "out" ELSE "in",
                          command |-> c, refused |-> Refuses(c.lba, bad)]
              /\ faults' = faults + (IF bad THEN 1 ELSE 0)
              /\ UNCHANGED <<mem, disk>>
    BY <1>6, <1>7, <2>1
  <2>3. unit'.phase = (IF c.op = "write" THEN "out" ELSE "in") /\ unit'.command = c /\ unit'.refused = Refuses(c.lba, bad)
        /\ unit' = [phase |-> unit'.phase, command |-> unit'.command, refused |-> unit'.refused]
    BY <2>2
  <2>4. (unit'.refused => faults' > 0) /\ faults' \in Nat /\ faults' >= faults
    <3>1. Refuses(c.lba, bad) => bad
      BY <1>8, <1>13 DEF Refuses
    <3>2. faults' = faults + 1 \/ (~bad /\ faults' = faults)
      BY <1>13, <2>2
    <3> QED BY <1>13, <2>3, <3>1, <3>2
  <2>5. UnitOK'
    BY <1>7, <2>1, <2>2, <2>3, <2>4 DEF UnitOK
  <2>6. MediumOK' /\ CallingOK' /\ CacheOK'
    BY <1>1, <2>2, <2>4 DEF DataInv, MediumOK, CallingOK, CacheOK
  <2>7. HaltsOnlyForCause'
    BY <1>1, <1>13, <2>4 DEF DataInv, HaltsOnlyForCause
  <2> QED BY <1>9, <1>10, <1>12, <2>5, <2>6, <2>7 DEF DataInv
<1>16. CASE Now = "data"
  <2>1. /\ Point = 1 /\ Point' = 2 /\ unit.command = c /\ (unit.refused => faults > 0)
        /\ unit.phase = (IF c.op = "write" THEN "out" ELSE "in") /\ b = "response"
    <3>1. Point = 1 /\ Point' = 2
      BY <1>5, <1>16 DEF Point
    <3> QED BY <1>2, <1>7, <1>16, <3>1 DEF DataInv, UnitOK, BulkPage
  <2>2. CASE c.op = "write"
    <3>1. /\ disk' = IF unit.refused THEN disk ELSE [disk EXCEPT ![c.lba] = mem.response]
          /\ unit' = [unit EXCEPT !.phase = "status"] /\ mem' = mem /\ faults' = faults
      BY <1>6, <2>1, <2>2
    <3>2. unit' = [phase |-> "status", command |-> c, refused |-> unit.refused]
      BY <1>13, <2>1, <3>1
    <3>3. MediumOK' /\ (~unit.refused => disk'[c.lba] = mem.response)
      BY <1>8, <1>13, <3>1 DEF MediumOK
    <3>4. unit'.refused \/ Moved'
      BY <1>7, <2>2, <3>1, <3>2, <3>3 DEF Moved
    <3>5. UnitOK'
      <4>1. /\ unit'.phase = "status" /\ unit'.command = c /\ unit'.refused = unit.refused
            /\ unit' = [phase |-> unit'.phase, command |-> unit'.command, refused |-> unit'.refused]
        BY <3>2
      <4> QED BY <1>4, <1>7, <2>1, <3>1, <3>4, <4>1 DEF UnitOK
    <3>6. blk.st = "busy" /\ blk.op = "write" /\ fs.st = "put"
      BY <1>8, <2>2 DEF DataInv, CallingOK
    <3>7. CallingOK' /\ CacheOK'
      BY <1>1, <3>6 DEF DataInv, CallingOK, CacheOK
    <3>8. HaltsOnlyForCause'
      BY <1>1, <3>1 DEF DataInv, HaltsOnlyForCause
    <3> QED BY <1>9, <1>10, <1>12, <3>3, <3>5, <3>7, <3>8 DEF DataInv
  <2>3. CASE c.op # "write"
    <3>1. /\ mem' = [mem EXCEPT !["response"] = IF c.op = "capacity" THEN <<LastLba>>
                                                  ELSE IF unit.refused THEN @ ELSE disk[c.lba]]
          /\ unit' = [unit EXCEPT !.phase = "status"] /\ disk' = disk /\ faults' = faults
      BY <1>6, <2>1, <2>3
    <3>2. unit' = [phase |-> "status", command |-> c, refused |-> unit.refused]
      BY <1>13, <2>1, <3>1
    <3>3. /\ c.op = "capacity" => mem'.response = <<LastLba>>
          /\ c.op # "capacity" /\ ~unit.refused => mem'.response = disk[c.lba]
      <4>1. PICK z : z = IF c.op = "capacity" THEN <<LastLba>>
                        ELSE IF unit.refused THEN mem["response"] ELSE disk[c.lba]
        OBVIOUS
      <4>2. mem' = [mem EXCEPT !["response"] = z]
        BY <3>1, <4>1
      <4>3. mem'.response = z
        BY <1>14, <4>2
      <4>4. (c.op = "capacity" => z = <<LastLba>>) /\ (c.op # "capacity" /\ ~unit.refused => z = disk[c.lba])
        BY <4>1
      <4> QED BY <4>3, <4>4
    <3>4. unit'.refused \/ Moved'
      <4>1. <<LastLba>>[1] = LastLba
        OBVIOUS
      <4> QED BY <1>4, <1>7, <3>1, <3>2, <3>3, <4>1 DEF Moved
    <3>5. UnitOK'
      <4>1. /\ unit'.phase = "status" /\ unit'.command = c /\ unit'.refused = unit.refused
            /\ unit' = [phase |-> unit'.phase, command |-> unit'.command, refused |-> unit'.refused]
        BY <3>2
      <4> QED BY <1>4, <1>7, <2>1, <3>1, <3>4, <4>1 DEF UnitOK
    <3>6. MediumOK' /\ CallingOK' /\ CacheOK' /\ HaltsOnlyForCause'
      BY <1>1, <3>1 DEF DataInv, MediumOK, CallingOK, CacheOK, HaltsOnlyForCause
    <3> QED BY <1>9, <1>10, <1>12, <3>5, <3>6 DEF DataInv
  <2> QED BY <2>2, <2>3
<1>17. CASE Now = "csw"
  <2>1. /\ Point = 2 /\ Point' = 3 /\ unit.command = c /\ (unit.refused => faults > 0)
        /\ unit.phase = "status" /\ (unit.refused \/ Moved) /\ b = "status"
    <3>1. Point = 2 /\ Point' = 3
      BY <1>5, <1>17 DEF Point
    <3> QED BY <1>2, <1>7, <1>17, <3>1 DEF DataInv, UnitOK, BulkPage
  <2>2. /\ mem' = [mem EXCEPT !["status"] = [tag |-> c.tag, status |-> IF unit.refused THEN 1 ELSE 0]]
        /\ unit' = [unit EXCEPT !.phase = "command"] /\ disk' = disk /\ faults' = faults
    BY <1>6, <2>1
  <2>3. unit' = [phase |-> "command", command |-> c, refused |-> unit.refused]
    BY <1>13, <2>1, <2>2
  <2>4. /\ mem'.response = mem.response
        /\ mem'.status = [tag |-> c.tag, status |-> IF unit.refused THEN 1 ELSE 0]
    BY <1>14, <2>2
  <2>5. mem'.status.tag = c.tag /\ mem'.status.status = (IF unit.refused THEN 1 ELSE 0)
    BY <2>4
  <2>6. Moved => Moved'
    BY <1>4, <2>2, <2>4 DEF Moved
  <2>7. UnitOK'
    <3>1. /\ unit'.phase = "command"
          /\ unit' = [phase |-> unit'.phase, command |-> unit'.command, refused |-> unit'.refused]
      BY <2>3
    <3> QED BY <1>4, <1>7, <2>1, <2>2, <2>5, <2>6, <3>1 DEF UnitOK
  <2>8. MediumOK' /\ CallingOK' /\ CacheOK' /\ HaltsOnlyForCause'
    BY <1>1, <2>2 DEF DataInv, MediumOK, CallingOK, CacheOK, HaltsOnlyForCause
  <2> QED BY <1>9, <1>10, <1>12, <2>7, <2>8 DEF DataInv
<1> QED BY <1>3, <1>15, <1>16, <1>17 DEF BulkLabels

\* devfs and the virtio disk leave the USB driver and its command alone.
LEMMA AsideUsb ==
  ASSUME UNCHANGED <<busVars, drvVars, usbVars>>
  PROVE  Point' = Point /\ (Bulk <=> Bulk') /\ mem' = mem /\ unit' = unit /\ msd' = msd
<1>1. todo' = todo /\ req' = req /\ RequestKept /\ rings' = rings /\ hw' = hw
      /\ mem' = mem /\ unit' = unit /\ msd' = msd
  BY DEF busVars, drvVars, usbVars, RequestKept
<1>2. Answered' = Answered
  BY <1>1, NowKept DEF Answered, Queue
<1> QED BY <1>1, <1>2, PointSame

\* A command stays as it is when its call and the medium do.
LEMMA CommandStays ==
  ASSUME UnitOK, CommandOK, UNCHANGED <<mem, unit, msd>>, Point' = Point, Bulk <=> Bulk',
         Bulk => disk' = disk /\ faults' = faults, blk' = blk \/ blk.st # "busy"
  PROVE  UnitOK' /\ CommandOK'
<1>1. CASE Bulk
  BY <1>1 DEF UnitOK, CommandOK, Moved
<1>2. CASE ~Bulk
  <2>1. Point = 0
    BY <1>2, PointIs
  <2> QED BY <1>2, <2>1 DEF UnitOK, CommandOK
<1> QED BY <1>1, <1>2

\* The virtio driver's state stays right when devfs calls or returns.
LEMMA VirtioStays ==
  ASSUME VirtioOK, UNCHANGED <<vq, packet, serving, backend, disk, faults>>, halted' <=> halted,
         blk' = blk \/ (blk.st # "busy" /\ blk'.st # "busy")
  PROVE  VirtioOK'
<1>1. CASE blk' = blk
  BY <1>1 DEF VirtioOK, Asked
<1>2. CASE blk.st # "busy" /\ blk'.st # "busy"
  <2>1. ~Asked /\ ~Asked'
    BY <1>2 DEF Asked
  <2> QED BY <1>2, <2>1 DEF VirtioOK
<1> QED BY <1>1, <1>2

\* What the loop over the sectors does to the frame.
LEMMA AdvanceIs ==
  ASSUME CallingOK, NEW z
  PROVE  /\ Advance(fs) = [st |-> "loop", ask |-> fs.ask, sector |-> fs.sector + 1, last |-> fs.last,
                           inSector |-> 0, done |-> fs.done + Span, out |-> fs.out]
         /\ [Advance(fs) EXCEPT !.out = z] =
               [st |-> "loop", ask |-> fs.ask, sector |-> fs.sector + 1, last |-> fs.last,
                inSector |-> 0, done |-> fs.done + Span, out |-> z]
<1>1. PICK t, a, s, l, i, d, o : fs = [st |-> t, ask |-> a, sector |-> s, last |-> l, inSector |-> i,
                                         done |-> d, out |-> o]
  BY DEF CallingOK
<1>2. fs.ask = a /\ fs.sector = s /\ fs.last = l /\ fs.done = d /\ fs.out = o
  BY <1>1
<1>3. PICK s1, d1, n : s1 = s + 1 /\ d1 = d + Span /\ n = 0
  OBVIOUS
<1>4. Advance(fs) = [fs EXCEPT !.st = "loop", !.sector = s1, !.inSector = n, !.done = d1]
  BY <1>2, <1>3 DEF Advance
<1>5. Advance(fs) = [st |-> "loop", ask |-> a, sector |-> s1, last |-> l, inSector |-> n, done |-> d1, out |-> o]
  BY <1>1, <1>4
<1>6. [Advance(fs) EXCEPT !.out = z] =
        [st |-> "loop", ask |-> a, sector |-> s1, last |-> l, inSector |-> n, done |-> d1, out |-> z]
  BY <1>5
<1> QED BY <1>2, <1>3, <1>5, <1>6

\* A call of the driver from state st of the frame.
LEMMA CallIs ==
  ASSUME CallingOK, NEW op, NEW lba, NEW data, NEW st, Call(op, lba, data), fs' = [fs EXCEPT !.st = st]
  PROVE  /\ blk'.st = "call" /\ blk'.op = op /\ blk'.lba = lba /\ blk'.data = data
         /\ blk' = [st |-> blk'.st, op |-> blk'.op, lba |-> blk'.lba, data |-> blk'.data]
         /\ fs'.st = st /\ fs'.sector = fs.sector /\ fs'.last = fs.last
         /\ fs' = [st |-> fs'.st, ask |-> fs'.ask, sector |-> fs'.sector, last |-> fs'.last,
                   inSector |-> fs'.inSector, done |-> fs'.done, out |-> fs'.out]
<1>1. PICK t, a, s, l, i, d, o : fs = [st |-> t, ask |-> a, sector |-> s, last |-> l, inSector |-> i,
                                         done |-> d, out |-> o]
  BY DEF CallingOK
<1>2. fs' = [st |-> st, ask |-> a, sector |-> s, last |-> l, inSector |-> i, done |-> d, out |-> o]
  BY <1>1
<1>3. fs'.st = st /\ fs'.ask = a /\ fs'.sector = s /\ fs'.last = l /\ fs'.inSector = i /\ fs'.done = d /\ fs'.out = o
  BY <1>2
<1>4. fs.sector = s /\ fs.last = l
  BY <1>1
<1>5. blk' = [st |-> "call", op |-> op, lba |-> lba, data |-> data]
  BY DEF Call
<1>6. blk'.st = "call" /\ blk'.op = op /\ blk'.lba = lba /\ blk'.data = data
  BY <1>5
<1> QED BY <1>2, <1>3, <1>4, <1>5, <1>6

\* A sector is done: the frame moves to the next and the call, if there was
\* one, is over.
LEMMA NextSector ==
  ASSUME CallingOK, NEW z, fs' = Advance(fs) \/ fs' = [Advance(fs) EXCEPT !.out = z],
         blk' = NoCall \/ (blk' = blk /\ blk.st = "idle")
  PROVE  CallingOK' /\ fs'.st = "loop"
<1>1. PICK a, s, l, n, d, o : /\ s = fs.sector + 1 /\ l = fs.last
                              /\ fs' = [st |-> "loop", ask |-> a, sector |-> s, last |-> l, inSector |-> n,
                                        done |-> d, out |-> o]
  <2>1. PICK d : d = fs.done + Span
    OBVIOUS
  <2>2. PICK s, l, a, n : s = fs.sector + 1 /\ l = fs.last /\ a = fs.ask /\ n = 0
    OBVIOUS
  <2>3. /\ Advance(fs) = [st |-> "loop", ask |-> a, sector |-> s, last |-> l, inSector |-> n, done |-> d, out |-> fs.out]
        /\ [Advance(fs) EXCEPT !.out = z] =
              [st |-> "loop", ask |-> a, sector |-> s, last |-> l, inSector |-> n, done |-> d, out |-> z]
    BY <2>1, <2>2, AdvanceIs
  <2>4. PICK o : fs' = [st |-> "loop", ask |-> a, sector |-> s, last |-> l, inSector |-> n, done |-> d, out |-> o]
    BY <2>3
  <2> QED BY <2>2, <2>4
<1>2. /\ fs'.st = "loop" /\ fs'.ask = a /\ fs'.sector = s /\ fs'.last = l /\ fs'.inSector = n
      /\ fs'.done = d /\ fs'.out = o
  BY <1>1
<1>3. fs' = [st |-> fs'.st, ask |-> fs'.ask, sector |-> fs'.sector, last |-> fs'.last,
             inSector |-> fs'.inSector, done |-> fs'.done, out |-> fs'.out]
  BY <1>1, <1>2
<1>4. fs'.sector \in Nat /\ fs'.last \in Nat
  BY <1>1, <1>2 DEF CallingOK
<1>5. /\ blk'.st = "idle" /\ blk'.lba \in Nat
      /\ blk' = [st |-> blk'.st, op |-> blk'.op, lba |-> blk'.lba, data |-> blk'.data]
  <2>1. CASE blk' = NoCall
    <3>1. blk' = [st |-> "idle", op |-> "none", lba |-> 0, data |-> <<>>]
      BY <2>1 DEF NoCall
    <3>2. blk'.st = "idle" /\ blk'.op = "none" /\ blk'.lba = 0 /\ blk'.data = <<>>
      BY <3>1
    <3> QED BY <3>1, <3>2
  <2>2. CASE blk' = blk /\ blk.st = "idle"
    BY <2>2 DEF CallingOK
  <2> QED BY <2>1, <2>2
<1> QED BY <1>2, <1>3, <1>4, <1>5 DEF CallingOK

\* devfs's steps in a file operation.
LEMMA FsData ==
  ASSUME UsbInv, DataInv, FsKernel
  PROVE  DataInv'
<1>1. UNCHANGED <<vq, packet, serving, parts, disk, faults, backend, halted>> /\ ~halted
  BY DEF FsKernel, FsDevStep, virtioVars, read_cached, read_uncached, filled, read_before_write, modify,
         written, file_return, InLoop
<1>2. Point' = Point /\ (Bulk <=> Bulk') /\ mem' = mem /\ unit' = unit /\ msd' = msd
  BY AsideUsb DEF FsKernel
<1>3. CallingOK /\ CacheOK /\ UnitOK /\ CommandOK /\ VirtioOK /\ PartsOK /\ MediumOK
  BY DEF DataInv
<1>4. SUFFICES CallingOK' /\ CacheOK' /\ (blk' = blk \/ (blk.st # "busy" /\ blk'.st # "busy"))
  <2>1. UnitOK' /\ CommandOK'
    BY <1>1, <1>2, <1>3, <1>4, CommandStays
  <2>2. VirtioOK'
    BY <1>1, <1>3, <1>4, VirtioStays
  <2>3. PartsOK' /\ MediumOK' /\ HaltsOnlyForCause'
    BY <1>1, <1>3 DEF PartsOK, MediumOK, HaltsOnlyForCause
  <2> QED BY <1>4, <2>1, <2>2, <2>3 DEF DataInv
<1>5. CASE read_cached
  <2>1. /\ fs.st = "loop" /\ blk' = blk /\ cache' = cache
        /\ fs' = [Advance(fs) EXCEPT !.out = @ \o SubSeq(cache.data, fs.inSector + 1, fs.inSector + Span)]
    BY <1>5 DEF read_cached, InLoop, CopyOut
  <2>2. blk.st = "idle"
    BY <1>3, <2>1 DEF CallingOK
  <2>3. CallingOK' /\ fs'.st = "loop"
    BY <1>3, <2>1, <2>2, NextSector
  <2>4. CacheOK'
    BY <1>1, <1>3, <2>1, <2>3 DEF CacheOK
  <2> QED BY <2>1, <2>3, <2>4
<1>6. CASE read_uncached
  <2>1. /\ fs.st = "loop" /\ fs.sector <= fs.last /\ Call("read", fs.sector, cache.data)
        /\ cache' = [cache EXCEPT !.sector = fs.sector, !.valid = TRUE] /\ fs' = [fs EXCEPT !.st = "fill"]
    BY <1>6 DEF read_uncached, InLoop
  <2>2. /\ blk'.st = "call" /\ blk'.op = "read" /\ blk'.lba = fs.sector
        /\ blk' = [st |-> blk'.st, op |-> blk'.op, lba |-> blk'.lba, data |-> blk'.data]
        /\ fs'.st = "fill" /\ fs'.sector = fs.sector /\ fs'.last = fs.last
        /\ fs' = [st |-> fs'.st, ask |-> fs'.ask, sector |-> fs'.sector, last |-> fs'.last,
                  inSector |-> fs'.inSector, done |-> fs'.done, out |-> fs'.out]
    BY <1>3, <2>1, CallIs
  <2>3. CallingOK' /\ blk.st # "busy"
    BY <1>3, <2>1, <2>2 DEF CallingOK
  <2>4. cache' = [data |-> cache'.data, sector |-> cache'.sector, valid |-> cache'.valid]
        /\ cache'.sector = fs.sector
    BY <1>3, <2>1 DEF CacheOK
  <2>5. CacheOK'
    BY <2>2, <2>4 DEF CacheOK
  <2> QED BY <2>2, <2>3, <2>5
<1>7. CASE filled
  <2>1. /\ fs.st = "fill" /\ blk.st = "done" /\ blk' = NoCall /\ cache' = [cache EXCEPT !.data = blk.data]
        /\ fs' = [Advance(fs) EXCEPT !.out = @ \o SubSeq(blk.data, fs.inSector + 1, fs.inSector + Span)]
    BY <1>7 DEF filled, CopyOut
  <2>2. CallingOK' /\ fs'.st = "loop"
    BY <1>3, <2>1, NextSector
  <2>3. blk.data = disk[fs.sector] /\ cache.sector = fs.sector /\ blk'.st # "busy"
    BY <1>3, <2>1 DEF CallingOK, CacheOK, NoCall
  <2>4. /\ cache' = [data |-> cache'.data, sector |-> cache'.sector, valid |-> cache'.valid]
        /\ cache'.data = blk.data /\ cache'.sector = fs.sector
    BY <1>3, <2>1, <2>3 DEF CacheOK
  <2>5. CacheOK'
    BY <1>1, <2>2, <2>3, <2>4 DEF CacheOK
  <2> QED BY <2>1, <2>2, <2>3, <2>5
<1>8. CASE read_before_write
  <2>1. /\ fs.st = "loop" /\ fs.sector <= fs.last /\ Call("read", fs.sector, Zeroes)
        /\ cache' = cache /\ fs' = [fs EXCEPT !.st = "modify"]
    BY <1>8 DEF read_before_write, InLoop
  <2>2. /\ blk'.st = "call" /\ blk'.op = "read" /\ blk'.lba = fs.sector
        /\ blk' = [st |-> blk'.st, op |-> blk'.op, lba |-> blk'.lba, data |-> blk'.data]
        /\ fs'.st = "modify" /\ fs'.sector = fs.sector /\ fs'.last = fs.last
        /\ fs' = [st |-> fs'.st, ask |-> fs'.ask, sector |-> fs'.sector, last |-> fs'.last,
                  inSector |-> fs'.inSector, done |-> fs'.done, out |-> fs'.out]
    BY <1>3, <2>1, CallIs
  <2>3. CallingOK' /\ blk.st # "busy"
    BY <1>3, <2>1, <2>2 DEF CallingOK
  <2>4. CacheOK'
    BY <1>1, <1>3, <2>1, <2>2 DEF CacheOK
  <2> QED BY <2>2, <2>3, <2>4
<1>9. CASE modify
  <2>1. /\ fs.st = "modify" /\ blk.st = "done" /\ Call("write", fs.sector, CopyIn(blk.data))
        /\ cache' = cache /\ fs' = [fs EXCEPT !.st = "put"]
    BY <1>9 DEF modify
  <2>2. /\ blk'.st = "call" /\ blk'.op = "write" /\ blk'.lba = fs.sector
        /\ blk' = [st |-> blk'.st, op |-> blk'.op, lba |-> blk'.lba, data |-> blk'.data]
        /\ fs'.st = "put" /\ fs'.sector = fs.sector /\ fs'.last = fs.last
        /\ fs' = [st |-> fs'.st, ask |-> fs'.ask, sector |-> fs'.sector, last |-> fs'.last,
                  inSector |-> fs'.inSector, done |-> fs'.done, out |-> fs'.out]
    BY <1>3, <2>1, CallIs
  <2>3. CallingOK'
    BY <1>3, <2>1, <2>2 DEF CallingOK
  <2>4. CacheOK'
    BY <1>1, <1>3, <2>1, <2>2 DEF CacheOK
  <2> QED BY <2>1, <2>2, <2>3, <2>4
<1>10. CASE written
  <2>1. /\ fs.st = "put" /\ blk.st = "done" /\ blk' = NoCall /\ cache' = [cache EXCEPT !.valid = FALSE]
        /\ fs' = Advance(fs)
    BY <1>10 DEF written, Forget
  <2>2. CallingOK' /\ fs'.st = "loop"
    BY <1>3, <2>1, NextSector
  <2>3. cache' = [data |-> cache'.data, sector |-> cache'.sector, valid |-> cache'.valid] /\ ~cache'.valid
    BY <1>3, <2>1 DEF CacheOK
  <2>4. CacheOK' /\ blk'.st # "busy"
    BY <2>1, <2>2, <2>3 DEF CacheOK, NoCall
  <2> QED BY <2>1, <2>2, <2>4
<1>11. CASE file_return
  <2>1. fs.st = "loop" /\ fs' = [IdleFs EXCEPT !.out = fs.out] /\ UNCHANGED <<cache, blk>>
    BY <1>11 DEF file_return
  <2>2. /\ fs'.st = "idle" /\ fs'.sector = 0 /\ fs'.last = 0
        /\ fs' = [st |-> fs'.st, ask |-> fs'.ask, sector |-> fs'.sector, last |-> fs'.last,
                  inSector |-> fs'.inSector, done |-> fs'.done, out |-> fs'.out]
    BY <2>1 DEF IdleFs
  <2>3. CallingOK' /\ CacheOK'
    BY <1>1, <1>3, <2>1, <2>2 DEF CallingOK, CacheOK
  <2> QED BY <2>1, <2>3
<1> QED BY <1>5, <1>6, <1>7, <1>8, <1>9, <1>10, <1>11 DEF FsKernel, FsDevStep

\* Arithmetic of offsets.
LEMMA OffsetsAre ==
  ASSUME NEW x \in Nat, NEW n \in Nat
  PROVE  /\ x \div SectorSize \in Nat /\ LastSector(x, n) \in Nat
         /\ (x * SectorSize) % DwordSpan \in 0 .. DwordSpan - 1 /\ DwordSpan \in Nat \ {0}
<1>1. PICK w, k, v : w = WordSpan /\ k = SectorSize /\ v = DwordSpan
  OBVIOUS
<1>2. w \in Nat /\ w > 0 /\ k \in Nat /\ k > 0 /\ v \in Nat /\ v > 0
  BY <1>1, SectorAssumption, DeviceAssumption
<1>3. \A y \in Int : y % w \in 0 .. w - 1
  BY <1>2
<1>4. \A y \in Nat : y \div k \in Nat
  BY <1>2
<1>5. (x + n - 1) % w \in Nat
  BY <1>2, <1>3
<1>6. x * k \in Nat
  BY <1>2
<1>7. (x * k) % v \in 0 .. v - 1
  BY <1>2, <1>6
<1> QED BY <1>1, <1>2, <1>4, <1>5, <1>7 DEF LastSector

\* The entries up to the first empty one are entries of the boot sector.
LEMMA EntriesAre ==
  /\ Len(Entries) \in Nat
  /\ \A i \in 1 .. Len(Entries) : Entries[i].start \in Nat /\ Entries[i].count \in Nat
<1>1. PICK t : t = PartitionTable
  OBVIOUS
<1>2. t \in Seq([start : Nat, count : Nat])
  BY <1>1, DeviceAssumption
<1>3. CASE ~BootSignature
  BY <1>3 DEF Entries
<1>4. CASE BootSignature
  <2> DEFINE Stops == {n \in 0 .. Len(t) : n = Len(t) \/ t[n + 1].count = 0}
  <2>1. Stops # {} /\ Stops \subseteq Nat
    BY <1>2
  <2> DEFINE R == {ss \in Nat \X Nat : ss[1] < ss[2]}
  <2>0. IsWellFoundedOn(R, Nat)
    BY NatLessThanWellFounded DEF OpToRel
  <2>2. PICK n \in Stops : \A m \in Stops : <<m, n>> \notin R
    <3> HIDE DEF R, Stops
    <3> QED BY <2>0, <2>1, WFMin
  <2>3. \A m \in Stops : ~(m < n)
    <3> SUFFICES ASSUME NEW m \in Stops PROVE ~(m < n)
      OBVIOUS
    <3>1. m \in Nat /\ n \in Nat
      BY <2>1
    <3>2. <<m, n>> \in Nat \X Nat /\ <<m, n>>[1] = m /\ <<m, n>>[2] = n
      BY <3>1
    <3> QED BY <2>2, <3>2
  <2>4. \A i \in 1 .. n : t[i].count # 0
    <3> SUFFICES ASSUME NEW i \in 1 .. n, t[i].count = 0 PROVE FALSE
      OBVIOUS
    <3>1. n \in 0 .. Len(t) /\ Len(t) \in Nat
      BY <1>2
    <3>2. i - 1 \in 0 .. Len(t) /\ (i - 1) + 1 = i /\ i - 1 < n
      BY <3>1
    <3>3. i - 1 \in Stops
      BY <3>2
    <3> QED BY <2>3, <3>2, <3>3
  <2>5. PICK k \in 0 .. Len(t) : Entries = SubSeq(t, 1, k)
    <3>1. \E m \in 0 .. Len(t) : /\ \A i \in 1 .. m : t[i].count # 0
                                 /\ m = Len(t) \/ t[m + 1].count = 0
      BY <2>2, <2>4
    <3> QED BY <1>1, <1>4, <3>1 DEF Entries
  <2>6. Len(Entries) = k /\ \A i \in 1 .. k : Entries[i] = t[i]
    BY <1>2, <2>5
  <2>7. k \in Nat /\ \A i \in 1 .. k : t[i] \in [start : Nat, count : Nat]
    <3>1. PICK S : S = [start : Nat, count : Nat]
      OBVIOUS
    <3>2. t \in Seq(S)
      BY <1>2, <3>1
    <3>3. k \in Nat /\ \A i \in 1 .. k : t[i] \in S
      BY <2>5, <3>2
    <3> QED BY <3>1, <3>3
  <2>8. \A i \in 1 .. k : t[i].start \in Nat /\ t[i].count \in Nat
    BY <2>7
  <2> QED BY <2>6, <2>7, <2>8
<1> QED BY <1>3, <1>4

\* A file operation begins.
LEMMA AskData ==
  ASSUME UsbInv, DataInv, Ask
  PROVE  DataInv'
<1>1. UNCHANGED <<vq, packet, serving, parts, cache, blk, disk, faults, backend, halted>> /\ ~halted /\ fs.st = "idle"
  BY DEF Ask, blockdev_file, virtioVars
<1>2. Point' = Point /\ (Bulk <=> Bulk') /\ mem' = mem /\ unit' = unit /\ msd' = msd
  BY AsideUsb DEF Ask
<1>3. CallingOK /\ CacheOK /\ UnitOK /\ CommandOK /\ VirtioOK /\ PartsOK /\ MediumOK
  BY DEF DataInv
<1>4. PICK op \in {"read", "write"}, p \in 0 .. Len(parts) - 1, o \in Offsets, n \in Lengths :
          blockdev_file(op, p, o, n, IF op = "write" THEN Fresh(n) ELSE <<>>)
  BY DEF Ask
<1>5. PICK off : off = o + parts[p + 1].off
  OBVIOUS
<1>6. PICK a, s, l, i, d, q :
          /\ fs' = [st |-> "loop", ask |-> a, sector |-> s, last |-> l, inSector |-> i, done |-> d, out |-> q]
          /\ s = off \div SectorSize /\ l = LastSector(off, n)
  BY <1>4, <1>5 DEF blockdev_file
<1>7. off \in Nat /\ n \in Nat
  <2>1. p + 1 \in 1 .. Len(parts)
    BY <1>3 DEF PartsOK
  <2>2. parts[p + 1] \in [off : 0 .. DwordSpan - 1, len : Nat]
    <3>1. PICK j : j = p + 1
      OBVIOUS
    <3>2. PICK S : S = [off : 0 .. DwordSpan - 1, len : Nat]
      OBVIOUS
    <3>3. parts \in Seq(S) /\ j \in 1 .. Len(parts)
      BY <1>3, <2>1, <3>1, <3>2 DEF PartsOK
    <3>4. parts[j] \in S
      BY <3>3
    <3> QED BY <3>1, <3>2, <3>4
  <2> QED BY <1>5, <2>2, CallAssumption, DeviceAssumption
<1>8. s \in Nat /\ l \in Nat
  BY <1>6, <1>7, OffsetsAre
<1>9. fs'.st = "loop" /\ fs'.sector = s /\ fs'.last = l
      /\ fs' = [st |-> fs'.st, ask |-> fs'.ask, sector |-> fs'.sector, last |-> fs'.last,
                inSector |-> fs'.inSector, done |-> fs'.done, out |-> fs'.out]
  BY <1>6
<1>10. CallingOK' /\ CacheOK'
  BY <1>1, <1>3, <1>8, <1>9 DEF CallingOK, CacheOK
<1>11. UnitOK' /\ CommandOK' /\ VirtioOK'
  BY <1>1, <1>2, <1>3, CommandStays, VirtioStays
<1>12. PartsOK' /\ MediumOK' /\ HaltsOnlyForCause'
  BY <1>1, <1>3 DEF PartsOK, MediumOK, HaltsOnlyForCause
<1> QED BY <1>10, <1>11, <1>12 DEF DataInv

\* A driver enters its disk: devfs reads the boot sector, then the
\* partitions are there.
LEMMA RegisterData ==
  ASSUME UsbInv, DataInv, Register
  PROVE  DataInv'
<1>1. /\ UNCHANGED <<rings, hw, req, cur, mem, unit, msd, vq, packet, serving, cache, disk, faults, backend>>
      /\ ~halted
  BY DEF Register, busVars, usbVars, virtioVars, fs_dev_add_block_device, device_added
<1>2. CallingOK /\ CacheOK /\ UnitOK /\ CommandOK /\ VirtioOK /\ PartsOK /\ MediumOK
  BY DEF DataInv
<1>3. CASE fs_dev_add_block_device /\ UNCHANGED todo
  <2>1. /\ blk.st = "idle" /\ parts' = parts /\ halted' = halted
        /\ Call("read", 0, Zeroes) /\ fs' = [fs EXCEPT !.st = "table"]
    BY <1>3 DEF fs_dev_add_block_device
  <2>2. RequestKept
    BY <1>1, <1>3 DEF RequestKept
  <2>3. Answered' = Answered
    BY <1>1, <2>2, NowKept DEF Answered, Queue
  <2>4. Point' = Point /\ (Bulk <=> Bulk')
    BY <1>1, <1>3, <2>3, PointSame
  <2>5. /\ blk'.st = "call" /\ blk'.op = "read" /\ blk'.lba = 0
        /\ blk' = [st |-> blk'.st, op |-> blk'.op, lba |-> blk'.lba, data |-> blk'.data]
        /\ fs'.st = "table" /\ fs'.sector = fs.sector /\ fs'.last = fs.last
        /\ fs' = [st |-> fs'.st, ask |-> fs'.ask, sector |-> fs'.sector, last |-> fs'.last,
                  inSector |-> fs'.inSector, done |-> fs'.done, out |-> fs'.out]
    BY <1>2, <2>1, CallIs
  <2>6. CallingOK'
    BY <1>2, <2>5 DEF CallingOK
  <2>7. fs.st = "idle"
    BY <1>3 DEF fs_dev_add_block_device
  <2>8. CacheOK'
    BY <1>1, <1>2, <2>5, <2>7 DEF CacheOK
  <2>9. UnitOK' /\ CommandOK' /\ VirtioOK'
    BY <1>1, <1>2, <2>1, <2>4, <2>5, CommandStays, VirtioStays
  <2>10. PartsOK' /\ MediumOK' /\ HaltsOnlyForCause'
    BY <1>1, <1>2, <2>1 DEF PartsOK, MediumOK, HaltsOnlyForCause
  <2> QED BY <2>6, <2>8, <2>9, <2>10 DEF DataInv
<1>4. CASE device_added /\ todo' = IF backend = "virtio" THEN todo ELSE Tail(todo)
  <2>1. /\ fs.st = "table" /\ blk.st = "done" /\ blk' = NoCall /\ fs' = IdleFs
        /\ parts' = <<[off |-> 0, len |-> 0]>> \o
                      [i \in 1 .. Len(Entries) |-> [off |-> (Entries[i].start * SectorSize) % DwordSpan,
                                                    len |-> (Entries[i].count * SectorSize) % DwordSpan]]
    BY <1>4 DEF device_added
  <2>2. ~halted'
    <3>1. halted' = (BootSignature /\ \E i \in 1 .. Len(PartitionTable) :
                       i <= Len(Entries) + 1 /\ i >= MaxPartitions)
      BY <1>4 DEF device_added
    <3>2. Len(PartitionTable) \in Nat
      BY DeviceAssumption
    <3>3. \A i \in 1 .. Len(PartitionTable) : ~(i >= MaxPartitions)
      BY <3>2, DeviceAssumption
    <3> QED BY <3>1, <3>3
  <2>3. todo = <<>> \/ todo = <<"register">>
    BY <2>1 DEF UsbInv, CallOK
  <2>4. todo' = <<>>
    BY <1>4, <2>1, <2>3, BulkLists DEF UsbInv, CallOK
  <2>5. ~Bulk /\ ~Bulk' /\ Point = 0 /\ Point' = 0
    <3>1. todo # <<>> => Now = "register"
      BY <2>3, BulkLists DEF Now
    <3>2. ~Bulk /\ ~Bulk'
      BY <2>4, <3>1 DEF Bulk, BulkLabels
    <3> QED BY <3>2 DEF Point
  <2>6. /\ blk'.st = "idle" /\ blk'.lba = 0
        /\ blk' = [st |-> blk'.st, op |-> blk'.op, lba |-> blk'.lba, data |-> blk'.data]
        /\ fs'.st = "idle" /\ fs'.sector = 0 /\ fs'.last = 0
        /\ fs' = [st |-> fs'.st, ask |-> fs'.ask, sector |-> fs'.sector, last |-> fs'.last,
                  inSector |-> fs'.inSector, done |-> fs'.done, out |-> fs'.out]
    BY <2>1 DEF NoCall, IdleFs
  <2>7. CallingOK' /\ CacheOK'
    BY <1>1, <1>2, <2>1, <2>6 DEF CallingOK, CacheOK
  <2>8. UnitOK' /\ CommandOK'
    BY <1>1, <1>2, <2>1, <2>5, CommandStays
  <2>9. VirtioOK'
    <3>1. (halted' <=> halted) /\ blk.st # "busy" /\ blk'.st # "busy"
      BY <1>1, <2>1, <2>2, <2>6
    <3> QED BY <1>1, <1>2, <3>1, VirtioStays
  <2>10. PartsOK'
    <3>1. PICK S : S = [off : 0 .. DwordSpan - 1, len : Nat]
      OBVIOUS
    <3>2. PICK n, z, r : /\ n = Len(Entries) /\ z = [off |-> 0, len |-> 0]
                         /\ r = [i \in 1 .. n |-> [off |-> (Entries[i].start * SectorSize) % DwordSpan,
                                                   len |-> (Entries[i].count * SectorSize) % DwordSpan]]
      OBVIOUS
    <3>3. n \in Nat /\ z \in S
      BY <3>1, <3>2, EntriesAre, DeviceAssumption
    <3>4. \A i \in 1 .. n : [off |-> (Entries[i].start * SectorSize) % DwordSpan,
                             len |-> (Entries[i].count * SectorSize) % DwordSpan] \in S
      <4> SUFFICES ASSUME NEW i \in 1 .. n
                   PROVE  [off |-> (Entries[i].start * SectorSize) % DwordSpan,
                           len |-> (Entries[i].count * SectorSize) % DwordSpan] \in S
        OBVIOUS
      <4>1. PICK x, y : x = Entries[i].start /\ y = Entries[i].count
        OBVIOUS
      <4>2. x \in Nat /\ y \in Nat
        BY <3>2, <4>1, EntriesAre
      <4>3. (x * SectorSize) % DwordSpan \in 0 .. DwordSpan - 1
        BY <4>2, OffsetsAre
      <4>4. (y * SectorSize) % DwordSpan \in Nat
        <5>1. (y * SectorSize) % DwordSpan \in 0 .. DwordSpan - 1 /\ DwordSpan \in Nat
          BY <4>2, OffsetsAre
        <5> QED BY <5>1
      <4> QED BY <3>1, <4>1, <4>3, <4>4
    <3>5. r \in [1 .. n -> S]
      BY <3>2, <3>4
    <3>6. r \in Seq(S) /\ <<z>> \in Seq(S)
      BY <3>3, <3>5
    <3>7. parts' = <<z>> \o r
      BY <2>1, <3>2
    <3>8. parts' \in Seq(S)
      BY <3>6, <3>7
    <3> QED BY <3>1, <3>8 DEF PartsOK
  <2>11. MediumOK' /\ HaltsOnlyForCause'
    BY <1>1, <1>2, <2>2 DEF MediumOK, HaltsOnlyForCause
  <2> QED BY <2>7, <2>8, <2>9, <2>10, <2>11 DEF DataInv
<1> QED BY <1>3, <1>4 DEF Register

\* With a virtio disk no USB command is under way.
LEMMA VirtioAlone ==
  ASSUME UsbInv, DataInv, backend = "virtio", UNCHANGED <<busVars, drvVars, usbVars, fsVars, backend>>
  PROVE  /\ UnitOK' /\ CommandOK' /\ PartsOK'
         /\ UNCHANGED <<fs, cache, parts, backend>>
<1>1. Point' = Point /\ (Bulk <=> Bulk') /\ mem' = mem /\ unit' = unit /\ msd' = msd
  BY AsideUsb
<1>2. ~Bulk /\ Point = 0
  <2>1. todo = <<>>
    BY DEF UsbInv, CallOK
  <2> QED BY <2>1, PointIs DEF Bulk
<1>3. UnitOK' /\ CommandOK'
  BY <1>1, <1>2 DEF DataInv, UnitOK, CommandOK
<1> QED BY <1>3 DEF DataInv, PartsOK, fsVars

\* The driver fills in its packet and tells the device, or sees the status.
LEMMA VirtioKernelData ==
  ASSUME UsbInv, DataInv, VirtioKernel
  PROVE  DataInv'
<1>1. backend = "virtio" /\ ~halted /\ UNCHANGED <<fs, cache, parts, backend, serving, disk, faults>>
      /\ UnitOK' /\ CommandOK' /\ PartsOK'
  BY VirtioAlone DEF VirtioKernel, virtio_block_call, virtio_poll
<1>2. CallingOK /\ CacheOK /\ VirtioOK /\ MediumOK
  BY DEF DataInv
<1>3. CacheOK' /\ MediumOK'
  BY <1>1, <1>2 DEF CacheOK, MediumOK
<1>4. PICK b1, b2, b3, b4 : blk = [st |-> b1, op |-> b2, lba |-> b3, data |-> b4]
  BY <1>2 DEF CallingOK
<1>5. blk.st = b1 /\ blk.op = b2 /\ blk.lba = b3 /\ blk.data = b4
  BY <1>4
<1>6. CASE virtio_block_call
  <2>1. /\ b1 = "call" /\ blk' = [blk EXCEPT !.st = "busy"] /\ halted' = halted
        /\ packet' = [type |-> b2, sector |-> b3, data |-> b4, status |-> PLACEHOLDER_STATUS]
        /\ vq' = [vq EXCEPT !.buffers = Chain(b2), !.ring[vq.avail % QueueSize] = 0,
                            !.avail = (vq.avail + 1) % IndexSpan, !.notified = TRUE]
    BY <1>5, <1>6 DEF virtio_block_call, Accept
  <2>2. blk' = [st |-> "busy", op |-> b2, lba |-> b3, data |-> b4]
    BY <1>4, <2>1
  <2>3. /\ blk'.st = "busy" /\ blk'.op = b2 /\ blk'.lba = b3
        /\ blk' = [st |-> blk'.st, op |-> blk'.op, lba |-> blk'.lba, data |-> blk'.data]
    BY <2>2
  <2>4. CallingOK'
    BY <1>1, <1>2, <1>5, <2>1, <2>3 DEF CallingOK
  <2>5. ~Asked /\ serving.seen = vq.avail /\ serving.st # "serve"
    BY <1>2, <1>5, <2>1 DEF Asked, VirtioOK
  <2>6. /\ packet'.type = b2 /\ packet'.sector = b3 /\ packet'.status = PLACEHOLDER_STATUS
        /\ packet' = [type |-> packet'.type, sector |-> packet'.sector, data |-> packet'.data, status |-> packet'.status]
    BY <2>1
  <2>7. /\ vq'.buffers = Chain(b2) /\ vq'.avail = (vq.avail + 1) % IndexSpan
        /\ vq' = [buffers |-> vq'.buffers, ring |-> [i \in 0 .. QueueSize - 1 |-> 0], avail |-> vq'.avail,
                  used |-> vq'.used, notified |-> vq'.notified]
    <3>1. PICK f, r, a, u, n, c, a1, k :
              /\ r = [i \in 0 .. QueueSize - 1 |-> 0] /\ vq = [buffers |-> f, ring |-> r, avail |-> a, used |-> u, notified |-> n]
              /\ c = Chain(b2) /\ a1 = (a + 1) % IndexSpan /\ k = a % QueueSize
      BY <1>2 DEF VirtioOK
    <3>2. vq.avail = a /\ vq.ring = r
      BY <3>1
    <3>3. [r EXCEPT ![k] = 0] = r
      BY <3>1
    <3>4. vq' = [vq EXCEPT !.buffers = c, !.ring[k] = 0, !.avail = a1, !.notified = TRUE]
      BY <2>1, <3>1, <3>2
    <3>5. vq' = [buffers |-> c, ring |-> [r EXCEPT ![k] = 0], avail |-> a1, used |-> u, notified |-> TRUE]
      BY <3>1, <3>4
    <3>6. vq' = [buffers |-> c, ring |-> r, avail |-> a1, used |-> u, notified |-> TRUE]
      BY <3>3, <3>5
    <3>7. vq'.buffers = c /\ vq'.avail = a1 /\ vq'.used = u /\ vq'.notified = TRUE
      BY <3>6
    <3> QED BY <3>1, <3>2, <3>6, <3>7
  <2>8. (vq.avail + 1) % IndexSpan \in 0 .. IndexSpan - 1
    <3>1. IndexSpan \in Nat /\ IndexSpan > 0 /\ vq.avail + 1 \in Nat
      BY <1>2, QueueAssumption DEF VirtioOK
    <3> QED BY <3>1
  <2>9. Asked'
    BY <1>1, <2>3, <2>6 DEF Asked
  <2>10. VirtioOK'
    BY <1>1, <1>2, <2>3, <2>5, <2>6, <2>7, <2>8, <2>9 DEF VirtioOK
  <2> QED BY <1>1, <1>3, <2>1, <2>4, <2>10 DEF DataInv, HaltsOnlyForCause
<1>7. CASE virtio_poll
  <2>1. /\ b1 = "busy" /\ packet.status # PLACEHOLDER_STATUS /\ packet' = FreePacket /\ vq' = vq
        /\ IF packet.status = 0 THEN blk' = [blk EXCEPT !.st = "done", !.data = packet.data] /\ halted' = halted
           ELSE halted' = TRUE /\ blk' = blk
    BY <1>5, <1>7 DEF virtio_poll, Return
  <2>2. ~Asked /\ serving.seen = vq.avail /\ serving.st # "serve"
    BY <1>2, <2>1 DEF Asked, VirtioOK
  <2>3. /\ packet'.status = 0
        /\ packet' = [type |-> packet'.type, sector |-> packet'.sector, data |-> packet'.data, status |-> packet'.status]
    BY <2>1 DEF FreePacket
  <2>4. ~Asked'
    BY <2>3 DEF Asked, PLACEHOLDER_STATUS
  <2>5. IF packet.status = 0 THEN b3 \in 0 .. LastLba /\ packet.data = disk[b3]
        ELSE faults > 0 \/ b3 > LastLba
    BY <1>1, <1>2, <1>5, <2>1, <2>2 DEF VirtioOK
  <2>6. CASE packet.status = 0
    <3>1. blk' = [st |-> "done", op |-> b2, lba |-> b3, data |-> packet.data] /\ halted' = halted
      BY <1>4, <2>1, <2>6
    <3>2. /\ blk'.st = "done" /\ blk'.op = b2 /\ blk'.lba = b3 /\ blk'.data = packet.data
          /\ blk' = [st |-> blk'.st, op |-> blk'.op, lba |-> blk'.lba, data |-> blk'.data]
      BY <3>1
    <3>3. CallingOK'
      BY <1>1, <1>2, <1>5, <2>1, <2>5, <2>6, <3>2 DEF CallingOK
    <3>4. VirtioOK'
      BY <1>1, <1>2, <2>1, <2>2, <2>3, <2>4, <3>2 DEF VirtioOK
    <3> QED BY <1>1, <1>3, <3>1, <3>3, <3>4 DEF DataInv, HaltsOnlyForCause
  <2>7. CASE packet.status # 0
    <3>1. blk' = blk /\ halted'
      BY <2>1, <2>7
    <3>2. CallingOK'
      BY <1>1, <1>2, <3>1 DEF CallingOK
    <3>3. VirtioOK'
      BY <1>1, <1>2, <2>1, <2>2, <2>3, <2>4, <3>1 DEF VirtioOK
    <3>4. b3 \in Nat /\ fs.last \in Nat /\ (b3 = 0 \/ b3 <= fs.last)
      BY <1>2, <1>5, <2>1 DEF CallingOK
    <3>5. HaltsOnlyForCause'
      BY <1>1, <2>5, <2>7, <3>4, SectorAssumption DEF HaltsOnlyForCause
    <3> QED BY <1>1, <1>3, <3>2, <3>3, <3>5 DEF DataInv
  <2> QED BY <2>6, <2>7
<1> QED BY <1>6, <1>7 DEF VirtioKernel

\* The device finds the chain it was told of.
LEMMA ChainIs ==
  ASSUME NEW op
  PROVE  /\ Chain(op)[0].part = "header" /\ Chain(op)[0].next = 1
         /\ Chain(op)[1].part = "data" /\ Chain(op)[1].next = 2 /\ Chain(op)[1].write = (op = "read")
         /\ Chain(op)[2].part = "status" /\ Chain(op)[2].write = TRUE
<1>1. PICK t : t = <<"header", "data", "status">>
  OBVIOUS
<1>2. t[0 + 1] = "header" /\ t[1 + 1] = "data" /\ t[2 + 1] = "status"
  BY <1>1
<1>3. \A i \in 0 .. 2 : Chain(op)[i] = [part |-> t[i + 1], write |-> i = 2 \/ (i = 1 /\ op = "read"),
                                       next |-> IF i = 2 THEN -1 ELSE i + 1]
  BY <1>1 DEF Chain
<1>4. Chain(op)[0].part = "header" /\ Chain(op)[0].next = 1
  BY <1>2, <1>3
<1>5. Chain(op)[1].part = "data" /\ Chain(op)[1].next = 2
  BY <1>2, <1>3
<1>6. Chain(op)[2].part = "status"
  BY <1>2, <1>3
<1>7. Chain(op)[1].write = (op = "read") /\ Chain(op)[2].write = TRUE
  <2>1. PICK b, c : b = (op = "read") /\ c = TRUE
    OBVIOUS
  <2>2. (1 = 2 \/ (1 = 1 /\ op = "read")) = b /\ (2 = 2 \/ (2 = 1 /\ op = "read")) = c
    <3>1. 1 # 2 /\ 2 = 2
      OBVIOUS
    <3>2. CASE op = "read"
      BY <2>1, <3>1, <3>2, Zenon
    <3>3. CASE op # "read"
      BY <2>1, <3>1, <3>3, Zenon
    <3> QED BY <3>2, <3>3
  <2>3. /\ Chain(op)[1] = [part |-> t[1 + 1], write |-> b, next |-> IF 1 = 2 THEN -1 ELSE 1 + 1]
        /\ Chain(op)[2] = [part |-> t[2 + 1], write |-> c, next |-> IF 2 = 2 THEN -1 ELSE 2 + 1]
    BY <1>3, <2>2
  <2>4. Chain(op)[1].write = b /\ Chain(op)[2].write = c
    BY <2>3
  <2> QED BY <2>1, <2>4
<1> QED BY <1>4, <1>5, <1>6, <1>7

\* The device takes the chain, serves it and enters it as used.
LEMMA VirtioDeviceData ==
  ASSUME UsbInv, DataInv, VirtioDevice
  PROVE  DataInv'
<1>1. backend = "virtio" /\ UNCHANGED <<fs, cache, parts, backend, blk, halted>>
      /\ UnitOK' /\ CommandOK' /\ PartsOK'
  BY VirtioAlone DEF VirtioDevice, VirtioFetch, VirtioServe, VirtioUsed
<1>2. CallingOK /\ CacheOK /\ VirtioOK /\ MediumOK /\ HaltsOnlyForCause
  BY DEF DataInv
<1>3. PICK v1, v2, v3 : serving = [st |-> v1, seen |-> v2, head |-> v3] /\ v3 = 0
  BY <1>2 DEF VirtioOK
<1>4. serving.st = v1 /\ serving.seen = v2 /\ serving.head = 0
  BY <1>3
<1>5. PICK f, r, a, u, n : /\ r = [i \in 0 .. QueueSize - 1 |-> 0]
                           /\ vq = [buffers |-> f, ring |-> r, avail |-> a, used |-> u, notified |-> n]
  BY <1>2 DEF VirtioOK
<1>6. vq.buffers = f /\ vq.ring = r /\ vq.avail = a /\ vq.used = u /\ vq.notified = n
  BY <1>5
<1>7. CASE VirtioFetch
  <2>1. /\ v1 = "idle" /\ v2 # a
        /\ serving' = [st |-> "serve", seen |-> (v2 + 1) % IndexSpan, head |-> r[v2 % QueueSize]]
        /\ UNCHANGED <<vq, packet, disk, faults>>
    BY <1>4, <1>6, <1>7 DEF VirtioFetch
  <2>2. Asked /\ (v2 + 1) % IndexSpan = a
    BY <1>2, <1>4, <1>6, <2>1 DEF VirtioOK
  <2>3. r[v2 % QueueSize] = 0
    <3>1. QueueSize \in Nat /\ QueueSize > 0 /\ v2 \in Nat
      BY <1>2, <1>4, QueueAssumption DEF VirtioOK
    <3>2. v2 % QueueSize \in 0 .. QueueSize - 1
      BY <3>1
    <3> QED BY <1>5, <3>2
  <2>4. serving' = [st |-> "serve", seen |-> a, head |-> 0]
    BY <2>1, <2>2, <2>3
  <2>5. /\ serving'.st = "serve" /\ serving'.seen = a
        /\ serving' = [st |-> serving'.st, seen |-> serving'.seen, head |-> 0]
    BY <2>4
  <2>6. Asked'
    BY <1>1, <2>1, <2>2 DEF Asked
  <2>7. VirtioOK'
    BY <1>1, <1>2, <1>6, <2>1, <2>2, <2>5, <2>6 DEF VirtioOK
  <2>8. CallingOK' /\ CacheOK' /\ MediumOK' /\ HaltsOnlyForCause'
    BY <1>1, <1>2, <2>1 DEF CallingOK, CacheOK, MediumOK, HaltsOnlyForCause
  <2> QED BY <1>1, <2>7, <2>8 DEF DataInv
<1>8. CASE VirtioUsed
  <2>1. /\ vq' = [vq EXCEPT !.used = (vq.used + 1) % IndexSpan] /\ serving' = [serving EXCEPT !.st = "idle"]
        /\ UNCHANGED <<packet, disk, faults>>
    BY <1>8 DEF VirtioUsed
  <2>2. serving' = [st |-> "idle", seen |-> v2, head |-> 0]
    BY <1>3, <2>1
  <2>3. /\ serving'.st = "idle" /\ serving'.seen = v2
        /\ serving' = [st |-> serving'.st, seen |-> serving'.seen, head |-> 0]
    BY <2>2
  <2>4. PICK w : w = (vq.used + 1) % IndexSpan
    OBVIOUS
  <2>5. vq' = [buffers |-> f, ring |-> r, avail |-> a, used |-> w, notified |-> n]
    BY <1>5, <2>1, <2>4
  <2>6. vq'.buffers = f /\ vq'.ring = r /\ vq'.avail = a /\ vq'.used = w /\ vq'.notified = n
    BY <2>5
  <2>7. vq' = [buffers |-> vq'.buffers, ring |-> [i \in 0 .. QueueSize - 1 |-> 0], avail |-> vq'.avail,
               used |-> vq'.used, notified |-> vq'.notified]
    BY <1>5, <2>5, <2>6
  <2>8. Asked <=> Asked'
    BY <1>1, <2>1 DEF Asked
  <2>9. VirtioOK'
    BY <1>1, <1>2, <1>4, <1>6, <2>1, <2>3, <2>6, <2>7, <2>8 DEF VirtioOK
  <2>10. CallingOK' /\ CacheOK' /\ MediumOK' /\ HaltsOnlyForCause'
    BY <1>1, <1>2, <2>1 DEF CallingOK, CacheOK, MediumOK, HaltsOnlyForCause
  <2> QED BY <1>1, <2>9, <2>10 DEF DataInv
<1>9. CASE VirtioServe
  <2>1. v1 = "serve" /\ serving' = [serving EXCEPT !.st = "finish"] /\ vq' = vq
    BY <1>4, <1>9 DEF VirtioServe
  <2>2. /\ Asked /\ v2 = a /\ packet.type = blk.op /\ packet.sector = blk.lba /\ f = Chain(blk.op)
        /\ blk.st = "busy"
    BY <1>2, <1>4, <1>6, <2>1 DEF VirtioOK, Asked
  <2>3. PICK p1, p2, p3, p4 : packet = [type |-> p1, sector |-> p2, data |-> p3, status |-> p4]
    BY <1>2 DEF VirtioOK
  <2>4. packet.type = p1 /\ packet.sector = p2 /\ packet.data = p3
    BY <2>3
  <2>5. p1 \in {"read", "write"} /\ p2 \in Nat /\ blk.op = p1 /\ blk.lba = p2 /\ (p1 = "write" => fs.st = "put")
    BY <1>2, <2>2, <2>4 DEF CallingOK
  <2>6. /\ f[0].part = "header" /\ f[f[0].next].part = "data" /\ f[f[f[0].next].next].part = "status"
        /\ f[f[f[0].next].next].write /\ f[f[0].next].write = (p1 = "read")
    <3>1. f = Chain(p1)
      BY <2>2, <2>5
    <3>2. /\ f[0].part = "header" /\ f[0].next = 1 /\ f[1].part = "data" /\ f[1].next = 2
          /\ f[1].write = (p1 = "read") /\ f[2].part = "status" /\ f[2].write = TRUE
      BY <3>1, ChainIs, Zenon
    <3> QED BY <3>2, Zenon
  <2>7. PICK bad \in MayFail, refused \in BOOLEAN :
          /\ refused <=> Refuses(p2, bad)
          /\ faults' = faults + (IF bad THEN 1 ELSE 0)
          /\ packet' = [packet EXCEPT !.data = IF refused \/ p1 = "write" THEN @ ELSE disk[p2],
                                      !.status = IF refused THEN 1 ELSE 0]
          /\ disk' = IF refused \/ p1 = "read" THEN disk ELSE [disk EXCEPT ![p2] = p3]
    <3>1. PICK bad \in MayFail :
            LET refused == Refuses(p2, bad) \/ ~(/\ f[0].part = "header" /\ f[f[0].next].part = "data"
                                                 /\ f[f[f[0].next].next].part = "status"
                                                 /\ f[f[f[0].next].next].write
                                                 /\ f[f[0].next].write = (p1 = "read")) IN
            /\ faults' = faults + (IF bad THEN 1 ELSE 0)
            /\ packet' = [packet EXCEPT !.data = IF refused \/ p1 = "write" THEN @ ELSE disk[p2],
                                        !.status = IF refused THEN 1 ELSE 0]
            /\ disk' = IF refused \/ p1 = "read" THEN disk ELSE [disk EXCEPT ![p2] = p3]
      BY <1>4, <1>6, <1>9, <2>4 DEF VirtioServe
    <3>2. PICK refused \in BOOLEAN : refused <=> Refuses(p2, bad)
      <4>1. TRUE \in BOOLEAN /\ FALSE \in BOOLEAN
        OBVIOUS
      <4>2. CASE Refuses(p2, bad)
        BY <4>1, <4>2, Zenon
      <4>3. CASE ~Refuses(p2, bad)
        BY <4>1, <4>3, Zenon
      <4> QED BY <4>2, <4>3
    <3> QED BY <2>6, <3>1, <3>2
  <2>8. PICK d, c : /\ d = (IF refused \/ p1 = "write" THEN p3 ELSE disk[p2]) /\ c = (IF refused THEN 1 ELSE 0)
    OBVIOUS
  <2>9. packet' = [type |-> p1, sector |-> p2, data |-> d, status |-> c]
    <3>1. packet' = [packet EXCEPT !.data = d, !.status = c]
      BY <2>3, <2>4, <2>7, <2>8
    <3> QED BY <2>3, <3>1
  <2>10. /\ packet'.type = p1 /\ packet'.sector = p2 /\ packet'.data = d /\ packet'.status = c
         /\ packet' = [type |-> packet'.type, sector |-> packet'.sector, data |-> packet'.data, status |-> packet'.status]
    BY <2>9
  <2>11. ~Asked'
    BY <2>8, <2>10 DEF Asked, PLACEHOLDER_STATUS
  <2>12. faults' \in Nat /\ faults' >= faults /\ (bad => faults' > 0) /\ faults \in Nat
    <3>1. faults' = faults + 1 \/ (~bad /\ faults' = faults)
      BY <1>2, <2>7 DEF MediumOK
    <3> QED BY <1>2, <3>1 DEF MediumOK
  <2>13. IF c = 0 THEN p2 \in 0 .. LastLba /\ d = disk'[p2] ELSE faults' > 0 \/ p2 > LastLba
    <3>1. CASE refused
      BY <2>7, <2>8, <2>12, <3>1 DEF Refuses
    <3>2. CASE ~refused
      <4>1. c = 0 /\ p2 \in 0 .. LastLba
        BY <2>5, <2>7, <2>8, <3>2, SectorAssumption DEF Refuses
      <4>2. CASE p1 = "read"
        BY <2>7, <2>8, <3>2, <4>1, <4>2
      <4>3. CASE p1 = "write"
        <5>1. disk' = [disk EXCEPT ![p2] = p3] /\ d = p3
          BY <2>7, <2>8, <3>2, <4>3
        <5>2. DOMAIN disk = 0 .. LastLba
          BY <1>2 DEF MediumOK
        <5> QED BY <4>1, <5>1, <5>2
      <4> QED BY <2>5, <4>2, <4>3
    <3> QED BY <3>1, <3>2
  <2>14. serving' = [st |-> "finish", seen |-> v2, head |-> 0]
    BY <1>3, <2>1
  <2>15. /\ serving'.st = "finish" /\ serving'.seen = v2
         /\ serving' = [st |-> serving'.st, seen |-> serving'.seen, head |-> 0]
    BY <2>14
  <2>16. VirtioOK'
    BY <1>1, <1>2, <1>4, <1>6, <2>1, <2>2, <2>5, <2>10, <2>11, <2>13, <2>15 DEF VirtioOK
  <2>17. MediumOK'
    <3>1. disk = [l \in 0 .. LastLba |-> disk[l]]
      BY <1>2 DEF MediumOK
    <3>2. disk' = disk \/ disk' = [disk EXCEPT ![p2] = p3]
      BY <2>7
    <3> QED BY <2>12, <3>1, <3>2 DEF MediumOK
  <2>18. CacheOK'
    <3>1. fs.st = "put" \/ disk' = disk
      BY <2>5, <2>7
    <3> QED BY <1>1, <1>2, <3>1 DEF CacheOK
  <2>19. CallingOK'
    BY <1>1, <1>2, <2>2 DEF CallingOK
  <2>20. HaltsOnlyForCause'
    BY <1>1, <1>2, <2>12 DEF HaltsOnlyForCause
  <2> QED BY <1>1, <2>16, <2>17, <2>18, <2>19, <2>20 DEF DataInv
<1> QED BY <1>7, <1>8, <1>9 DEF VirtioDevice

\* The machine starts with the data in order.
LEMMA DataStart == Init => DataInv
<1> SUFFICES ASSUME Init PROVE DataInv
  OBVIOUS
<1>1. todo = <<>> /\ blk = NoCall /\ faults = 0 /\ ~halted /\ disk = FirstDisk /\ fs = IdleFs /\ parts = <<>>
  BY DEF Init, initialise_xhci, FsDevInit
<1>2. ~Bulk /\ Point = 0
  BY <1>1, PointIs DEF Bulk
<1>3. UnitOK /\ CommandOK
  BY <1>2 DEF Init, UsbInit, UnitOK, CommandOK
<1>4. CallingOK
  BY <1>1 DEF CallingOK, IdleFs, NoCall
<1>5. CacheOK
  BY <1>1 DEF Init, FsDevInit, CacheOK, IdleFs
<1>6. VirtioOK
  <2>1. ~Asked /\ blk.st # "busy"
    BY <1>1 DEF Asked, NoCall
  <2>2. IndexSpan \in Nat /\ IndexSpan > 0
    BY QueueAssumption
  <2> QED BY <2>1, <2>2 DEF Init, initialise_queue, FreePacket, VirtioOK
<1>7. PartsOK /\ MediumOK /\ HaltsOnlyForCause
  BY <1>1 DEF PartsOK, MediumOK, FirstDisk, HaltsOnlyForCause
<1> QED BY <1>3, <1>4, <1>5, <1>6, <1>7 DEF DataInv

\* Every step of the stack keeps the data in order.
LEMMA DataStep ==
  ASSUME UsbInv, DataInv, [Next]_vars
  PROVE  DataInv'
<1>1. CASE UsbKernel
  <2>1. backend = "usb" /\ UsbRest
    BY <1>1 DEF UsbKernel
  <2>2. CASE XhciRest /\ (set_up_port \/ send_command_ring_trb \/ send_control_transfer \/ Complete \/ arm_keyboard)
    BY <2>1, <2>2, SteadySteps, SteadyKeeps
  <2>3. CASE send_bbb
    BY <2>1, <2>3, SteadySteps, SteadyKeeps
  <2>4. CASE read_capacity
    BY <2>1, <2>4, CapacityData
  <2>5. CASE block_call
    BY <2>1, <2>5, BlockCallData
  <2>6. CASE BulkDone
    BY <2>1, <2>6, BulkDoneData
  <2> QED BY <1>1, <2>2, <2>3, <2>4, <2>5, <2>6 DEF UsbKernel
<1>2. CASE Register
  BY <1>2, RegisterData
<1>3. CASE Ask
  BY <1>3, AskData
<1>4. CASE FsKernel
  BY <1>4, FsData
<1>5. CASE VirtioKernel
  BY <1>5, VirtioKernelData
<1>6. CASE VirtioDevice
  BY <1>6, VirtioDeviceData
<1>7. CASE Interrupt \/ UNCHANGED vars
  BY <1>7, SteadySteps, SteadyKeeps
<1>8. CASE Controller
  <2>1. UsbRest
    BY <1>8 DEF Controller
  <2>2. CASE XhciRest /\ XhciController
    BY <2>1, <2>2, SteadySteps, SteadyKeeps
  <2>3. CASE \E s \in Slots, e \in {InIndex, OutIndex} : CtlBulk(s, e)
    BY <2>1, <2>3, BulkData
  <2> QED BY <1>8, <2>2, <2>3 DEF Controller
<1> QED BY <1>1, <1>2, <1>3, <1>4, <1>5, <1>6, <1>7, <1>8 DEF Next, System, Kernel

\* The whole stack: the USB traffic, and the data that goes with it from
\* devfs's calls through either driver to the medium and back.
THEOREM StackInOrder == Spec => []StackInv
<1>1. Init => StackInv
  BY UsbStart, DataStart DEF StackInv
<1>2. StackInv /\ [Next]_vars => StackInv'
  BY UsbStep, DataStep DEF StackInv
<1> QED BY <1>1, <1>2, PTL DEF Spec

\* No assertion of the drivers (result type, completion code, tag and status
\* of a command, a sector past the last, the partition limit) fails unless
\* the medium refused a command or the request ends past the medium.
THEOREM KernelHaltsForCause == Spec => []HaltsOnlyForCause
<1>1. StackInv => HaltsOnlyForCause
  BY DEF StackInv, DataInv
<1> QED BY <1>1, StackInOrder, PTL

\* blockdev_read_file may use the cached sector whenever it is valid: it is
\* the sector on the medium.
THEOREM CachedSectorIsCurrent == Spec => []CacheCoherent
<1>1. StackInv => CacheCoherent
  BY DEF StackInv, DataInv, CacheOK, CacheCoherent
<1> QED BY <1>1, StackInOrder, PTL

-----------------------------------------------------------------------------
(* The bytes of a transfer, and the array of bytes that a device file is.   *)

\* Sector l once the first n bytes of the request under way are written.
Merged(n, l) ==
    [j \in 1 .. SectorSize |->
       LET k == SectorSize * l + (j - 1) - fs.ask.off IN
       IF k \in 0 .. n - 1 THEN fs.ask.buf[k + 1] ELSE before[l][j]]

Shaped(d) == /\ d = [l \in 0 .. LastLba |-> d[l]]
             /\ \A l \in 0 .. LastLba : d[l] = [j \in 1 .. SectorSize |-> d[l][j]]

\* Between operations; before the device is there nothing was read.
RestOK ==
    /\ IF fs.st \in {"idle", "table"} THEN fs.ask = NoAsk
       ELSE fs.ask \in [op : {"read", "write"}, off : Nat, num : Nat, buf : Seq(Nat)]
    /\ parts = <<>> => fs.st \in {"idle", "table"} /\ fs.out = <<>>
    /\ fs.st = "table" => parts = <<>>
    /\ ops \in Nat
    /\ Shaped(disk) /\ Shaped(before)
    /\ cache.valid /\ fs.st # "fill" => cache.sector \in 0 .. LastLba

\* The sector to write is on its way as devfs gave it.
PageOK ==
    /\ Bulk /\ mem.command.op = "write" => mem.response = blk.data
    /\ (~halted \/ Asked) /\ backend = "virtio" /\ blk.st = "busy" /\ blk.op = "write" => packet.data = blk.data

\* Where the loop is: at the first byte that is not done, or all are done.
Transfers == fs.st \in {"loop", "fill", "modify", "put"}
PlaceOK ==
    Transfers =>
      /\ fs.inSector \in 0 .. SectorSize - 1 /\ fs.done \in 0 .. fs.ask.num
      /\ fs.done = fs.ask.num \/ SectorSize * fs.sector + fs.inSector = fs.ask.off + fs.done
      /\ fs.ask.num = 0 \/ fs.ask.off + fs.ask.num <= SectorSize * fs.last + SectorSize
      /\ fs.done = 0 \/ fs.ask.off + fs.done <= SectorSize * (LastLba + 1)

\* What was read and what was written so far.
ReadOK ==
    Transfers /\ fs.ask.op = "read" =>
      /\ fs.st \in {"loop", "fill"} /\ disk = before
      /\ fs.out = [i \in 1 .. fs.done |-> Bytes(before)[fs.ask.off + i - 1]]
WriteOK ==
    Transfers /\ fs.ask.op = "write" =>
      /\ fs.st \in {"loop", "modify", "put"} /\ fs.out = <<>>
      /\ \A l \in 0 .. LastLba : (fs.st = "put" /\ l = fs.sector) \/ disk[l] = Merged(fs.done, l)
      /\ fs.st = "put" => fs.sector \in 0 .. LastLba /\ blk.data = Merged(fs.done + Span, fs.sector)

BytesInv == RestOK /\ PageOK /\ PlaceOK /\ ReadOK /\ WriteOK

\* Arithmetic of sectors and bytes.
LEMMA Scaled ==
  ASSUME NEW a \in Nat, NEW b \in Nat
  PROVE  /\ SectorSize * a \in Nat /\ SectorSize * (a + 1) = SectorSize * a + SectorSize
         /\ a <= b => SectorSize * a <= SectorSize * b
         /\ a < b => SectorSize * a + SectorSize <= SectorSize * b
<1>1. PICK s \in Nat : s = SectorSize /\ s > 0
  BY SectorAssumption
<1>2. s * a \in Nat /\ s * b \in Nat /\ s * (a + 1) = s * a + s
  BY <1>1
<1>3. ASSUME a <= b PROVE s * a <= s * b
  <2>1. PICK c \in Nat : b = a + c
    <3>1. b - a \in Nat /\ b = a + (b - a)
      BY <1>3
    <3> QED BY <3>1
  <2>2. s * b = s * a + s * c /\ s * c \in Nat
    BY <1>1, <2>1
  <2> QED BY <1>2, <2>2
<1>4. ASSUME a < b PROVE s * a + s <= s * b
  <2>1. PICK c \in Nat : b = (a + 1) + c
    <3>1. b - a - 1 \in Nat /\ b = (a + 1) + (b - a - 1)
      BY <1>4
    <3> QED BY <3>1
  <2>2. s * b = s * (a + 1) + s * c /\ s * c \in Nat
    BY <1>1, <2>1
  <2> QED BY <1>2, <2>2
<1> QED BY <1>1, <1>2, <1>3, <1>4

\* Quotient and remainder.
LEMMA Divided ==
  ASSUME NEW i \in Nat, NEW s \in Nat \ {0}
  PROVE  i \div s \in Nat /\ i % s \in 0 .. s - 1 /\ i = s * (i \div s) + (i % s)
<1>1. i % s \in 0 .. s - 1 /\ i = s * (i \div s) + (i % s)
  OBVIOUS
<1>2. i \div s \in Nat
  OBVIOUS
<1> QED BY <1>1, <1>2

\* A byte's sector and its place there.
LEMMA Placed ==
  ASSUME NEW i \in Nat
  PROVE  \E q \in Nat, r \in 0 .. SectorSize - 1 :
            i \div SectorSize = q /\ i % SectorSize = r /\ i = SectorSize * q + r
<1>1. /\ i \div SectorSize \in Nat /\ i % SectorSize \in 0 .. SectorSize - 1
      /\ i = SectorSize * (i \div SectorSize) + (i % SectorSize)
  BY Divided, SectorAssumption
<1> QED BY <1>1, Zenon

\* They are the only ones.
LEMMA PlacedOnce ==
  ASSUME NEW k \in Nat, NEW j \in 0 .. SectorSize - 1, NEW i, i = SectorSize * k + j
  PROVE  i \in Nat /\ i \div SectorSize = k /\ i % SectorSize = j
<1>1. SectorSize \in Nat /\ SectorSize > 0
  BY SectorAssumption
<1>2. SectorSize * k \in Nat /\ i \in Nat
  BY <1>1, Scaled
<1>3. PICK q \in Nat, r \in 0 .. SectorSize - 1 :
         i \div SectorSize = q /\ i % SectorSize = r /\ i = SectorSize * q + r
  BY <1>2, Placed
<1>4. q \in Nat /\ r \in 0 .. SectorSize - 1 /\ i = SectorSize * q + r
  BY <1>3
<1>5. SectorSize * q \in Nat
  BY <1>4, Scaled
<1>6. ~(q < k)
  <2>1. q < k => SectorSize * q + SectorSize <= SectorSize * k
    BY <1>4, Scaled
  <2> QED BY <1>1, <1>2, <1>4, <1>5, <2>1
<1>7. ~(k < q)
  <2>1. k < q => SectorSize * k + SectorSize <= SectorSize * q
    BY <1>4, Scaled
  <2> QED BY <1>1, <1>2, <1>4, <1>5, <2>1
<1>8. q = k
  BY <1>4, <1>6, <1>7
<1>9. r = j
  BY <1>1, <1>2, <1>4, <1>8
<1> QED BY <1>2, <1>3, <1>8, <1>9

\* The frame and the array of bytes stay; the sector to write, and no other,
\* may reach the medium.
Carry ==
    /\ UNCHANGED <<fs, before, ops, parts, cache>>
    /\ fs.st = "put" => blk'.data = blk.data
    /\ disk' = disk \/ (fs.st = "put" /\ disk' = [disk EXCEPT ![fs.sector] = blk.data])

\* The sector on its way while devfs waits for the write.
LEMMA PutIs ==
  ASSUME BytesInv, fs.st = "put"
  PROVE  /\ fs.ask.op = "write" /\ fs.sector \in 0 .. LastLba /\ Transfers
         /\ blk.data = Merged(fs.done + Span, fs.sector)
         /\ blk.data = [j \in 1 .. SectorSize |-> blk.data[j]]
<1>1. Transfers /\ fs.ask.op = "write"
  BY DEF BytesInv, RestOK, ReadOK, Transfers
<1>2. fs.sector \in 0 .. LastLba /\ blk.data = Merged(fs.done + Span, fs.sector)
  BY <1>1 DEF BytesInv, WriteOK
<1>3. Merged(fs.done + Span, fs.sector) = [j \in 1 .. SectorSize |-> Merged(fs.done + Span, fs.sector)[j]]
  BY DEF Merged
<1> QED BY <1>1, <1>2, <1>3

\* Such steps keep the bytes in order.
LEMMA CarryKeeps ==
  ASSUME BytesInv, Carry
  PROVE  RestOK' /\ PlaceOK' /\ ReadOK' /\ WriteOK'
<1>1. UNCHANGED <<fs, before, ops, parts, cache>>
  BY DEF Carry
<1>2. Shaped(disk)'
  <2>1. CASE disk' = disk
    BY <2>1 DEF BytesInv, RestOK, Shaped
  <2>2. CASE fs.st = "put" /\ disk' = [disk EXCEPT ![fs.sector] = blk.data]
    <3>1. PICK d, x, v : d = disk /\ x = fs.sector /\ v = blk.data
      OBVIOUS
    <3>2. /\ x \in 0 .. LastLba /\ v = [j \in 1 .. SectorSize |-> v[j]]
          /\ d = [l \in 0 .. LastLba |-> d[l]]
          /\ \A l \in 0 .. LastLba : d[l] = [j \in 1 .. SectorSize |-> d[l][j]]
      BY <2>2, <3>1, PutIs DEF BytesInv, RestOK, Shaped
    <3>3. disk' = [d EXCEPT ![x] = v]
      BY <2>2, <3>1
    <3>4. disk' = [l \in 0 .. LastLba |-> disk'[l]] /\ \A l \in 0 .. LastLba : disk'[l] = IF l = x THEN v ELSE d[l]
      BY <3>2, <3>3
    <3>5. \A l \in 0 .. LastLba : disk'[l] = [j \in 1 .. SectorSize |-> disk'[l][j]]
      <4> TAKE l \in 0 .. LastLba
      <4>1. disk'[l] = v \/ disk'[l] = d[l]
        BY <3>4
      <4> QED BY <3>2, <4>1
    <3> QED BY <3>4, <3>5 DEF Shaped
  <2> QED BY <2>1, <2>2 DEF Carry
<1>3. RestOK'
  BY <1>1, <1>2 DEF BytesInv, RestOK, Shaped
<1>4. PlaceOK'
  BY <1>1 DEF BytesInv, PlaceOK, Transfers
<1>5. ReadOK'
  <2>1. Transfers' = Transfers /\ Bytes(before)' = Bytes(before)
    BY <1>1 DEF Transfers, Bytes
  <2>2. Transfers /\ fs.ask.op = "read" => disk' = disk
    BY DEF BytesInv, ReadOK, Carry
  <2> QED BY <1>1, <2>1, <2>2 DEF BytesInv, ReadOK
<1>6. WriteOK'
  <2>1. Transfers' = Transfers /\ Span' = Span
    BY <1>1 DEF Transfers, Span
  <2>2. \A n, l : Merged(n, l)' = Merged(n, l)
    BY <1>1 DEF Merged
  <2>3. SUFFICES ASSUME Transfers, fs.ask.op = "write"
                 PROVE  /\ fs.st \in {"loop", "modify", "put"} /\ fs.out = <<>>
                        /\ \A l \in 0 .. LastLba : (fs.st = "put" /\ l = fs.sector) \/ disk'[l] = Merged(fs.done, l)
                        /\ fs.st = "put" => fs.sector \in 0 .. LastLba /\ blk'.data = Merged(fs.done + Span, fs.sector)
    BY <1>1, <2>1, <2>2 DEF WriteOK
  <2>4. /\ fs.st \in {"loop", "modify", "put"} /\ fs.out = <<>>
        /\ \A l \in 0 .. LastLba : (fs.st = "put" /\ l = fs.sector) \/ disk[l] = Merged(fs.done, l)
        /\ fs.st = "put" => fs.sector \in 0 .. LastLba /\ blk.data = Merged(fs.done + Span, fs.sector)
    BY <2>3 DEF BytesInv, WriteOK
  <2>5. fs.st = "put" => blk'.data = blk.data
    BY DEF Carry
  <2>6. \A l \in 0 .. LastLba : (fs.st = "put" /\ l = fs.sector) \/ disk'[l] = disk[l]
    <3>1. disk = [l \in 0 .. LastLba |-> disk[l]]
      BY DEF BytesInv, RestOK, Shaped
    <3> QED BY <3>1 DEF Carry
  <2> QED BY <2>4, <2>5, <2>6
<1> QED BY <1>3, <1>4, <1>5, <1>6

\* The steps of the USB driver, the controller and the disk are such.
LEMMA UsbCarries ==
  ASSUME UsbInv, DataInv, BytesInv, UsbKernel \/ Interrupt \/ Controller \/ UNCHANGED vars
  PROVE  Carry /\ PageOK'
<1>1. UNCHANGED <<fs, before, ops, parts, cache, packet, backend>>
  BY DEF UsbKernel, Interrupt, Controller, UsbRest, fsVars, virtioVars, vars
<1>2. PageOK
  BY DEF BytesInv
<1>3. ASSUME Steady PROVE Carry /\ PageOK'
  <2>1. UNCHANGED <<mem, blk, disk, packet, backend>> /\ (halted' <=> halted) /\ (Bulk <=> Bulk')
    BY <1>3 DEF Steady
  <2> QED BY <1>1, <1>2, <2>1 DEF Carry, PageOK, Asked
<1>4. CASE UsbRest /\ backend = "usb" /\ read_capacity
  <2>1. UNCHANGED <<blk, disk, halted>> /\ mem'.command.op = "capacity"
    BY <1>4 DEF read_capacity
  <2> QED BY <1>1, <1>2, <2>1 DEF Carry, PageOK, Asked
<1>5. CASE UsbRest /\ backend = "usb" /\ block_call
  <2>1. /\ blk' = [blk EXCEPT !.st = "busy"] /\ disk' = disk /\ blk.st = "call"
        /\ \/ mem' = [command |-> [op |-> blk.op, lba |-> blk.lba, tag |-> tag], response |-> blk.data, status |-> NoStatus]
           \/ todo' = todo
    BY <1>5 DEF block_call, Accept, Command
  <2>2. blk'.data = blk.data
    <3>1. blk = [st |-> blk.st, op |-> blk.op, lba |-> blk.lba, data |-> blk.data]
      BY DEF DataInv, CallingOK
    <3> QED BY <2>1, <3>1
  <2>3. ~Bulk' \/ mem'.response = blk.data
    <3>1. todo = <<>> \/ todo = <<"register">>
      BY <2>1 DEF UsbInv, CallOK
    <3>2. todo' = todo => ~Bulk'
      BY <3>1, BulkLists DEF Bulk, Now, BulkLabels
    <3> QED BY <2>1, <3>2
  <2> QED BY <1>1, <1>5, <2>1, <2>2, <2>3 DEF Carry, PageOK, Asked
<1>6. CASE UsbRest /\ backend = "usb" /\ BulkDone
  <2>1. /\ Now \in BulkLabels /\ todo' = Tail(todo) /\ disk' = disk /\ req.waiting
        /\ \/ blk' = blk /\ mem' = mem
           \/ Now = "csw" /\ mem.command.op # "capacity" /\ blk' = [blk EXCEPT !.st = "done", !.data = mem.response]
           \/ Now = "csw" /\ mem.command.op = "capacity" /\ blk' = blk
    BY <1>6 DEF BulkDone, Return, Now
  <2>2. Bulk
    BY <2>1 DEF UsbInv, TrafficOK, RequestOK, Bulk
  <2>3. Now = "csw" => ~Bulk'
    BY <2>1, <2>2, BulkNext DEF Bulk, Now, BulkLabels
  <2>4. blk' = blk \/ (blk'.data = mem.response /\ mem.command.op = blk.op)
    <3>1. blk = [st |-> blk.st, op |-> blk.op, lba |-> blk.lba, data |-> blk.data]
      BY DEF DataInv, CallingOK
    <3>2. mem.command.op # "capacity" => mem.command.op = blk.op
      BY <2>2 DEF DataInv, CommandOK
    <3> QED BY <2>1, <3>1, <3>2
  <2>5. fs.st = "put" => blk'.data = blk.data
    <3>1. fs.st = "put" => blk.op = "write"
      BY DEF DataInv, CallingOK
    <3> QED BY <1>2, <2>2, <2>4, <3>1 DEF PageOK
  <2>6. Bulk' => mem' = mem /\ blk' = blk
    BY <2>1, <2>3
  <2> QED BY <1>1, <1>2, <1>6, <2>1, <2>2, <2>5, <2>6 DEF Carry, PageOK, Asked
<1>7. ASSUME UsbRest, NEW s \in Slots, NEW e \in {InIndex, OutIndex}, CtlBulk(s, e) PROVE Carry /\ PageOK'
  <2>1. /\ UNCHANGED <<todo, blk, halted>> /\ Ready(<<s, e>>) /\ slots[s].kind = "disk"
    BY <1>7 DEF CtlBulk, drvVars
  <2>2. PICK b : b = BulkPage[Now]
    OBVIOUS
  <2>3. /\ Taken(rings[<<s, e>>], hw[<<s, e>>]).buf = b
        /\ req.waiting /\ ~Answered /\ Now \in BulkLabels /\ todo # <<>>
    BY <2>1, <2>2, BulkTold
  <2>4. Bulk /\ Bulk' /\ ~Carried
    BY <2>1, <2>3 DEF Bulk, Carried, Now
  <2>5. mem'.command = mem.command
    BY <1>7, BulkKeeps DEF RequestKept
  <2>6. PICK c : c = mem.command
    OBVIOUS
  <2>7. /\ Now = "cbw" => unit.phase = "command"
        /\ Now = "data" => unit.command = c /\ unit.phase = IF c.op = "write" THEN "out" ELSE "in"
        /\ Now = "csw" => unit.phase = "status"
    BY <2>4, <2>6, PointIs DEF DataInv, UnitOK
  <2>8. \/ unit.phase \in {"command", "status"} /\ disk' = disk
           /\ (mem' = mem \/ \E v : mem' = [mem EXCEPT ![b] = v])
        \/ unit.phase = "out" /\ mem' = mem
           /\ disk' = IF unit.refused THEN disk ELSE [disk EXCEPT ![unit.command.lba] = mem[b]]
        \/ unit.phase = "in" /\ disk' = disk
    BY <1>7, <2>3 DEF CtlBulk
  <2>9. DOMAIN mem = {"command", "response", "status"}
    BY DEF UsbInv, SideOK
  <2>10. c.op = "write" => /\ fs.st = "put" /\ c.lba = fs.sector /\ mem.response = blk.data
    BY <1>2, <2>4, <2>6 DEF DataInv, CommandOK, CallingOK, PageOK, Asked
  <2>11. CASE Now = "data"
    <3>1. b = "response"
      BY <2>2, <2>11 DEF BulkPage
    <3>2. CASE c.op = "write"
      <4>1. mem' = mem /\ (disk' = disk \/ disk' = [disk EXCEPT ![fs.sector] = blk.data])
        BY <2>7, <2>8, <2>10, <2>11, <3>1, <3>2
      <4> QED BY <1>1, <1>2, <2>1, <2>4, <2>10, <3>2, <4>1 DEF Carry, PageOK, Asked
    <3>3. CASE c.op # "write"
      <4>1. disk' = disk
        BY <2>7, <2>8, <2>11, <3>3
      <4> QED BY <1>1, <1>2, <2>1, <2>5, <2>6, <3>3, <4>1 DEF Carry, PageOK, Asked
    <3> QED BY <3>2, <3>3
  <2>12. CASE Now # "data"
    <3>1. Now \in {"cbw", "csw"} /\ b \in {"command", "status"}
      BY <2>2, <2>3, <2>12 DEF BulkLabels, BulkPage
    <3>2. disk' = disk /\ (mem' = mem \/ \E v : mem' = [mem EXCEPT ![b] = v])
      BY <2>7, <2>8, <3>1
    <3>3. mem'.response = mem.response
      BY <2>9, <3>1, <3>2
    <3> QED BY <1>1, <1>2, <2>1, <2>4, <2>5, <3>2, <3>3 DEF Carry, PageOK, Asked
  <2> QED BY <2>11, <2>12
<1>8. CASE UsbKernel
  <2>1. backend = "usb" /\ UsbRest
    BY <1>8 DEF UsbKernel
  <2>2. CASE XhciRest /\ (set_up_port \/ send_command_ring_trb \/ send_control_transfer \/ Complete \/ arm_keyboard)
    BY <1>3, <2>1, <2>2, SteadySteps
  <2>3. CASE send_bbb
    BY <1>3, <2>1, <2>3, SteadySteps
  <2> QED BY <1>4, <1>5, <1>6, <1>8, <2>1, <2>2, <2>3 DEF UsbKernel
<1>9. CASE Interrupt \/ UNCHANGED vars
  BY <1>3, <1>9, SteadySteps
<1>10. CASE Controller
  <2>1. UsbRest
    BY <1>10 DEF Controller
  <2>2. CASE XhciRest /\ XhciController
    BY <1>3, <2>1, <2>2, SteadySteps
  <2> QED BY <1>7, <1>10, <2>1, <2>2 DEF Controller
<1> QED BY <1>8, <1>9, <1>10

\* So are those of the virtio driver and its disk.
LEMMA VirtioCarries ==
  ASSUME UsbInv, DataInv, BytesInv, VirtioKernel \/ VirtioDevice
  PROVE  Carry /\ PageOK'
<1>1. /\ UNCHANGED <<fs, before, ops, parts, cache, backend, todo, mem>> /\ backend = "virtio"
  BY DEF VirtioKernel, VirtioDevice, fsVars, drvVars, usbVars
<1>2. PageOK /\ VirtioOK /\ CallingOK
  BY DEF BytesInv, DataInv
<1>3. ~Bulk /\ ~Bulk'
  <2>1. todo = <<>>
    BY <1>1 DEF UsbInv, CallOK
  <2> QED BY <1>1, <2>1 DEF Bulk
<1>4. PICK b1, b2, b3, b4 : blk = [st |-> b1, op |-> b2, lba |-> b3, data |-> b4]
  BY <1>2 DEF CallingOK
<1>5. /\ blk.st = b1 /\ blk.op = b2 /\ blk.lba = b3 /\ blk.data = b4
      /\ fs.st = "put" => b2 = "write"
  BY <1>2, <1>4 DEF CallingOK
<1>6. CASE virtio_block_call
  <2>1. /\ blk' = [blk EXCEPT !.st = "busy"] /\ disk' = disk
        /\ packet' = [type |-> b2, sector |-> b3, data |-> b4, status |-> PLACEHOLDER_STATUS]
    BY <1>5, <1>6 DEF virtio_block_call, Accept
  <2>2. blk' = [st |-> "busy", op |-> b2, lba |-> b3, data |-> b4]
    BY <1>4, <2>1
  <2>3. blk'.data = b4 /\ packet'.data = b4
    BY <2>1, <2>2
  <2> QED BY <1>1, <1>3, <1>5, <2>1, <2>3 DEF Carry, PageOK
<1>7. CASE virtio_poll
  <2>1. /\ b1 = "busy" /\ ~halted /\ disk' = disk
        /\ \/ blk' = [blk EXCEPT !.st = "done", !.data = packet.data]
           \/ halted' = TRUE /\ blk' = blk
    BY <1>5, <1>7 DEF virtio_poll, Return
  <2>2. b2 = "write" => packet.data = b4
    BY <1>1, <1>2, <1>5, <2>1 DEF PageOK
  <2>3. CASE blk' = [blk EXCEPT !.st = "done", !.data = packet.data]
    <3>1. blk' = [st |-> "done", op |-> b2, lba |-> b3, data |-> packet.data]
      BY <1>4, <2>3
    <3>2. blk'.st = "done" /\ blk'.data = packet.data
      BY <3>1
    <3> QED BY <1>1, <1>3, <1>5, <2>1, <2>2, <3>2 DEF Carry, PageOK
  <2>4. CASE halted' = TRUE /\ blk' = blk
    <3>1. packet' = FreePacket
      BY <1>7 DEF virtio_poll
    <3>2. ~Asked'
      BY <3>1 DEF Asked, FreePacket, PLACEHOLDER_STATUS
    <3> QED BY <1>1, <1>3, <2>1, <2>4, <3>2 DEF Carry, PageOK
  <2> QED BY <2>1, <2>3, <2>4
<1>8. CASE VirtioFetch \/ VirtioUsed
  <2>1. UNCHANGED <<packet, blk, disk, halted>>
    BY <1>8 DEF VirtioFetch, VirtioUsed
  <2> QED BY <1>1, <1>2, <1>3, <2>1 DEF Carry, PageOK, Asked
<1>9. CASE VirtioServe
  <2>1. UNCHANGED <<blk, halted>> /\ serving.st = "serve"
    BY <1>9 DEF VirtioServe
  <2>2. /\ packet.type = b2 /\ packet.sector = b3 /\ b1 = "busy"
        /\ packet = [type |-> packet.type, sector |-> packet.sector, data |-> packet.data, status |-> packet.status]
    BY <1>2, <1>5, <2>1 DEF VirtioOK, Asked
  <2>3. \E r \in BOOLEAN :
          /\ packet' = [packet EXCEPT !.data = IF r \/ packet.type = "write" THEN @ ELSE disk[packet.sector],
                                      !.status = IF r THEN 1 ELSE 0]
          /\ disk' = IF r \/ packet.type = "read" THEN disk ELSE [disk EXCEPT ![packet.sector] = packet.data]
    <3>1. \E r : /\ packet' = [packet EXCEPT !.data = IF r \/ packet.type = "write" THEN @ ELSE disk[packet.sector],
                                             !.status = IF r THEN 1 ELSE 0]
                 /\ disk' = IF r \/ packet.type = "read" THEN disk ELSE [disk EXCEPT ![packet.sector] = packet.data]
      BY <1>9, Zenon DEF VirtioServe
    <3>2. PICK r : /\ packet' = [packet EXCEPT !.data = IF r \/ packet.type = "write" THEN @ ELSE disk[packet.sector],
                                               !.status = IF r THEN 1 ELSE 0]
                   /\ disk' = IF r \/ packet.type = "read" THEN disk ELSE [disk EXCEPT ![packet.sector] = packet.data]
      BY <3>1
    <3>3. CASE r
      <4> WITNESS TRUE \in BOOLEAN
      <4> QED BY <3>2, <3>3
    <3>4. CASE ~r
      <4> WITNESS FALSE \in BOOLEAN
      <4> QED BY <3>2, <3>4
    <3> QED BY <3>3, <3>4
  <2>4. b2 \in {"read", "write"}
    BY <1>2, <1>5, <2>2 DEF CallingOK
  <2>5. CASE b2 = "write"
    <3>1. packet'.data = packet.data
      <4>1. PICK v : packet' = [packet EXCEPT !.data = packet.data, !.status = v]
        BY <2>2, <2>3, <2>5
      <4>2. PICK p1, p2, p3, p4 : packet = [type |-> p1, sector |-> p2, data |-> p3, status |-> p4]
        BY <2>2
      <4> QED BY <4>1, <4>2
    <3>2. fs.st = "put" /\ fs.sector = b3
      BY <1>2, <1>5, <2>2, <2>5 DEF CallingOK
    <3>3. disk' = disk \/ disk' = [disk EXCEPT ![b3] = packet.data]
      BY <2>2, <2>3
    <3>4. packet.data = b4
      BY <1>1, <1>2, <1>5, <2>1, <2>2, <2>5 DEF PageOK, VirtioOK
    <3> QED BY <1>1, <1>3, <1>5, <2>1, <3>1, <3>2, <3>3, <3>4 DEF Carry, PageOK
  <2>6. CASE b2 = "read"
    <3>1. disk' = disk
      BY <2>2, <2>3, <2>6
    <3> QED BY <1>1, <1>3, <1>5, <2>1, <2>6, <3>1 DEF Carry, PageOK
  <2> QED BY <2>4, <2>5, <2>6
<1> QED BY <1>6, <1>7, <1>8, <1>9 DEF VirtioKernel, VirtioDevice

\* devfs calls, or takes an answer, only when no sector is on its way.
LEMMA PageStays ==
  ASSUME DataInv, PageOK, UNCHANGED <<mem, packet, backend>>, halted' <=> halted, Bulk' => Bulk,
         blk' = blk \/ (blk.st # "busy" /\ blk'.st # "busy")
  PROVE  PageOK'
<1>1. CASE blk' = blk
  BY <1>1 DEF PageOK, Asked
<1>2. CASE blk.st # "busy" /\ blk'.st # "busy"
  <2>1. ~(Bulk /\ mem.command.op = "write")
    BY <1>2 DEF DataInv, CommandOK
  <2> QED BY <1>2, <2>1 DEF PageOK
<1> QED BY <1>1, <1>2

\* The device is entered.
LEMMA RegisterBytes ==
  ASSUME UsbInv, DataInv, BytesInv, Register
  PROVE  BytesInv' /\ fs.ask = NoAsk /\ fs'.ask = NoAsk /\ fs'.out = fs.out /\ disk' = disk
<1>1. UNCHANGED <<mem, packet, backend, cache, disk, before, ops>> /\ ~halted
  BY DEF Register, usbVars, virtioVars, fs_dev_add_block_device, device_added
<1>2. RestOK /\ PageOK /\ CallingOK
  BY DEF BytesInv, DataInv
<1>3. CASE fs_dev_add_block_device /\ UNCHANGED todo
  <2>1. /\ blk.st = "idle" /\ parts' = parts /\ halted' = halted /\ fs.st = "idle" /\ parts = <<>>
        /\ Call("read", 0, Zeroes) /\ fs' = [fs EXCEPT !.st = "table"]
    BY <1>3 DEF fs_dev_add_block_device
  <2>2. PICK t, a, s, l, i, d, o : fs = [st |-> t, ask |-> a, sector |-> s, last |-> l, inSector |-> i,
                                         done |-> d, out |-> o]
    BY <1>2 DEF CallingOK
  <2>3. fs' = [st |-> "table", ask |-> a, sector |-> s, last |-> l, inSector |-> i, done |-> d, out |-> o]
    BY <2>1, <2>2
  <2>4. fs'.st = "table" /\ fs'.ask = fs.ask /\ fs'.out = fs.out /\ blk'.st = "call"
    BY <2>1, <2>2, <2>3 DEF Call
  <2>5. RestOK'
    BY <1>1, <1>2, <2>1, <2>4 DEF RestOK, Shaped
  <2>6. Bulk' => Bulk
    BY <1>3 DEF Bulk, Now
  <2>7. PageOK'
    BY <1>1, <1>2, <2>1, <2>4, <2>6, PageStays
  <2>8. fs.ask = NoAsk
    BY <1>2, <2>1 DEF RestOK
  <2> QED BY <1>1, <2>4, <2>5, <2>7, <2>8 DEF BytesInv, PlaceOK, ReadOK, WriteOK, Transfers
<1>4. CASE device_added /\ todo' = IF backend = "virtio" THEN todo ELSE Tail(todo)
  <2>1. /\ fs.st = "table" /\ blk.st = "done" /\ blk' = NoCall /\ fs' = IdleFs
    BY <1>4 DEF device_added
  <2>2. fs'.st = "idle" /\ fs'.ask = NoAsk /\ fs'.out = <<>> /\ blk'.st = "idle"
    BY <2>1 DEF IdleFs, NoCall
  <2>3. RestOK'
    BY <1>1, <1>2, <2>1, <2>2 DEF RestOK, Shaped
  <2>4. todo' = <<>>
    <3>1. todo = <<>> \/ todo = <<"register">>
      BY <2>1 DEF UsbInv, CallOK
    <3> QED BY <1>4, <2>1, <3>1, BulkLists DEF UsbInv, CallOK
  <2>5. ~Bulk'
    BY <2>4 DEF Bulk
  <2>6. PageOK'
    BY <2>2, <2>5 DEF PageOK
  <2>7. fs.ask = NoAsk /\ fs.out = <<>>
    BY <1>2, <2>1 DEF RestOK
  <2> QED BY <1>1, <2>2, <2>3, <2>6, <2>7 DEF BytesInv, PlaceOK, ReadOK, WriteOK, Transfers
<1> QED BY <1>3, <1>4 DEF Register

\* A file operation begins, with none of its bytes done.
LEMMA AskBytes ==
  ASSUME UsbInv, DataInv, BytesInv, Ask
  PROVE  BytesInv' /\ fs.ask = NoAsk /\ fs'.ask # NoAsk /\ before' = disk /\ disk' = disk
         /\ fs'.ask \in [op : {"read", "write"}, off : Nat, num : Nat, buf : Seq(Nat)]
<1>1. /\ UNCHANGED <<mem, packet, parts, cache, blk, disk, backend, halted, todo>> /\ fs.st = "idle"
      /\ before' = disk /\ ops' = ops + 1 /\ parts # <<>>
  BY DEF Ask, Started, blockdev_file, virtioVars, usbVars, drvVars
<1>2. RestOK /\ PageOK /\ PartsOK /\ MediumOK
  BY DEF BytesInv, DataInv
<1>3. PICK op \in {"read", "write"}, p \in 0 .. Len(parts) - 1, o \in Offsets, n \in Lengths :
          blockdev_file(op, p, o, n, IF op = "write" THEN Fresh(n) ELSE <<>>)
  BY DEF Ask
<1>4. PICK off, z : off = o + parts[p + 1].off /\ z = IF op = "write" THEN Fresh(n) ELSE <<>>
  OBVIOUS
<1>5. PICK a, s, l, i, d, q :
          /\ fs' = [st |-> "loop", ask |-> a, sector |-> s, last |-> l, inSector |-> i, done |-> d, out |-> q]
          /\ a = [op |-> op, off |-> off, num |-> n, buf |-> z] /\ s = off \div SectorSize
          /\ l = LastSector(off, n) /\ i = off % SectorSize /\ d = 0 /\ q = <<>>
  BY <1>3, <1>4 DEF blockdev_file
<1>6. fs'.st = "loop" /\ fs'.ask = a /\ fs'.sector = s /\ fs'.last = l /\ fs'.inSector = i /\ fs'.done = d /\ fs'.out = q
  BY <1>5
<1>7. a.op = op /\ a.off = off /\ a.num = n /\ a.buf = z
  BY <1>5
<1>8. off \in Nat /\ n \in Nat /\ off + n <= WordSpan
  <2>1. PICK S, j : S = [off : 0 .. DwordSpan - 1, len : Nat] /\ j = p + 1
    OBVIOUS
  <2>2. parts \in Seq(S) /\ j \in 1 .. Len(parts)
    BY <1>2, <2>1 DEF PartsOK
  <2>3. parts[j] \in S
    BY <2>2
  <2>4. parts[p + 1].off \in 0 .. DwordSpan - 1 /\ DwordSpan \in Nat /\ WordSpan \in Nat
    BY <2>1, <2>3, DeviceAssumption
  <2>5. o \in Nat /\ n \in Nat /\ o + DwordSpan + n <= WordSpan
    BY CallAssumption
  <2> QED BY <1>4, <2>4, <2>5
<1>9. z \in Seq(Nat)
  <2>1. \A j \in 1 .. n : 100 * (ops + 1) + j \in Nat
    BY <1>2, <1>8 DEF RestOK
  <2>2. Fresh(n) \in Seq(Nat)
    BY <1>8, <2>1 DEF Fresh
  <2> QED BY <1>4, <2>2
<1>10. a \in [op : {"read", "write"}, off : Nat, num : Nat, buf : Seq(Nat)] /\ a # NoAsk
  BY <1>5, <1>7, <1>8, <1>9 DEF NoAsk
<1>11. fs.ask = NoAsk
  BY <1>1, <1>2 DEF RestOK
<1>12. RestOK'
  <2>1. ops' \in Nat
    BY <1>1, <1>2 DEF RestOK
  <2> QED BY <1>1, <1>2, <1>6, <1>10, <2>1 DEF RestOK, Shaped
<1>13. PageOK'
  BY <1>1, <1>2, PageStays DEF Bulk, Now
<1>14. PlaceOK'
  <2>1. SectorSize \in Nat /\ SectorSize > 0
    BY SectorAssumption
  <2>2. s \in Nat /\ i \in 0 .. SectorSize - 1 /\ off = SectorSize * s + i
    BY <1>5, <1>8, Placed
  <2>3. n = 0 \/ off + n <= SectorSize * l + SectorSize
    <3>1. SUFFICES ASSUME n # 0 PROVE off + n <= SectorSize * l + SectorSize
      OBVIOUS
    <3>2. PICK y : y = off + n - 1
      OBVIOUS
    <3>3. y \in Nat /\ y < WordSpan /\ WordSpan \in Nat
      BY <1>8, <3>1, <3>2, DeviceAssumption
    <3>4. y % WordSpan = y
      BY <3>3
    <3>5. l = y \div SectorSize
      BY <1>5, <3>2, <3>4 DEF LastSector
    <3>6. l \in Nat /\ \E r \in 0 .. SectorSize - 1 : y = SectorSize * l + r
      BY <3>3, <3>5, Placed
    <3>7. SectorSize * l \in Nat
      BY <3>6, Scaled
    <3> QED BY <1>8, <2>1, <3>2, <3>6, <3>7
  <2>4. d \in 0 .. n /\ off + d = off /\ d = 0
    BY <1>5, <1>8
  <2> QED BY <1>6, <1>7, <2>2, <2>3, <2>4 DEF PlaceOK
<1>15. ReadOK'
  <2>1. q = [k \in 1 .. d |-> Bytes(before')[off + k - 1]]
    <3>1. 1 .. d = {}
      BY <1>5
    <3> QED BY <1>5, <3>1
  <2> QED BY <1>1, <1>6, <1>7, <2>1 DEF ReadOK, Bytes
<1>16. WriteOK'
  <2>1. \A w \in 0 .. LastLba : Merged(fs.done, w)' = disk[w]
    <3> TAKE w \in 0 .. LastLba
    <3>1. Merged(fs.done, w)' = [j \in 1 .. SectorSize |-> disk[w][j]]
      <4>1. 0 .. d - 1 = {}
        BY <1>5
      <4> QED BY <1>1, <1>6, <4>1 DEF Merged
    <3> QED BY <1>2, <3>1 DEF RestOK, Shaped
  <2> QED BY <1>1, <1>5, <1>6, <2>1 DEF WriteOK
<1> QED BY <1>1, <1>6, <1>10, <1>11, <1>12, <1>13, <1>14, <1>15, <1>16 DEF BytesInv

\* The part of the sector at hand that the transfer covers.
LEMMA SpanIs ==
  ASSUME CallingOK, BytesInv, Transfers
  PROVE  /\ SectorSize \in Nat /\ SectorSize > 0 /\ fs.sector \in Nat /\ SectorSize * fs.sector \in Nat
         /\ fs.ask \in [op : {"read", "write"}, off : Nat, num : Nat, buf : Seq(Nat)]
         /\ fs.ask.off \in Nat /\ fs.ask.num \in Nat
         /\ fs.inSector \in 0 .. SectorSize - 1 /\ fs.done \in Nat /\ fs.done <= fs.ask.num
         /\ Span \in Nat /\ fs.inSector + Span <= SectorSize /\ fs.done + Span <= fs.ask.num
         /\ fs.done + Span = fs.ask.num \/ fs.inSector + Span = SectorSize
         /\ Span = 0 \/ SectorSize * fs.sector + fs.inSector = fs.ask.off + fs.done
<1>1. SectorSize \in Nat /\ SectorSize > 0 /\ fs.sector \in Nat
  BY SectorAssumption DEF CallingOK
<1>2. SectorSize * fs.sector \in Nat
  BY <1>1, Scaled
<1>3. fs.ask \in [op : {"read", "write"}, off : Nat, num : Nat, buf : Seq(Nat)]
  BY DEF BytesInv, RestOK, Transfers
<1>4. fs.ask.off \in Nat /\ fs.ask.num \in Nat
  BY <1>3
<1>5. /\ fs.inSector \in 0 .. SectorSize - 1 /\ fs.done \in 0 .. fs.ask.num
      /\ fs.done = fs.ask.num \/ SectorSize * fs.sector + fs.inSector = fs.ask.off + fs.done
  BY DEF BytesInv, PlaceOK
<1>6. PICK n, d, i : n = fs.ask.num /\ d = fs.done /\ i = fs.inSector
  OBVIOUS
<1>7. Span = IF SectorSize - i < n - d THEN SectorSize - i ELSE n - d
  BY <1>6 DEF Span
<1>8. n \in Nat /\ d \in 0 .. n /\ i \in 0 .. SectorSize - 1
  BY <1>4, <1>5, <1>6
<1>9. /\ Span \in Nat /\ i + Span <= SectorSize /\ d + Span <= n /\ (d + Span = n \/ i + Span = SectorSize)
      /\ d = n => Span = 0
  BY <1>1, <1>7, <1>8
<1> QED BY <1>1, <1>2, <1>3, <1>4, <1>5, <1>6, <1>8, <1>9

\* The loop moves on.
Moves ==
    /\ fs'.st = "loop" /\ fs'.ask = fs.ask /\ fs'.sector = fs.sector + 1 /\ fs'.last = fs.last
    /\ fs'.inSector = 0 /\ fs'.done = fs.done + Span

\* It stays at the first byte that is not done.
LEMMA PlaceOn ==
  ASSUME CallingOK, BytesInv, Transfers, Moves, fs.sector \in 0 .. LastLba
  PROVE  PlaceOK'
<1>1. PICK S, x, y, o, n, d, i, p :
        /\ S = SectorSize /\ x = fs.sector /\ y = SectorSize * fs.sector /\ o = fs.ask.off /\ n = fs.ask.num
        /\ d = fs.done /\ i = fs.inSector /\ p = Span
  OBVIOUS
<1>2. /\ S \in Nat /\ S > 0 /\ y \in Nat /\ o \in Nat /\ n \in Nat /\ i \in 0 .. S - 1 /\ d \in Nat /\ d <= n
      /\ p \in Nat /\ i + p <= S /\ d + p <= n /\ (d + p = n \/ i + p = S)
      /\ p = 0 \/ y + i = o + d
  BY <1>1, SpanIs
<1>3. /\ n = 0 \/ o + n <= SectorSize * fs.last + S
      /\ d = 0 \/ o + d <= SectorSize * (LastLba + 1)
  BY <1>1 DEF BytesInv, PlaceOK
<1>4. SectorSize * (fs.sector + 1) = y + S /\ y + S <= SectorSize * (LastLba + 1) /\ SectorSize * (LastLba + 1) \in Nat
  <2>1. LastLba \in Nat /\ fs.sector \in Nat
    BY SectorAssumption
  <2>2. fs.sector <= LastLba => SectorSize * fs.sector <= SectorSize * LastLba
    BY <2>1, Scaled
  <2>3. SectorSize * (LastLba + 1) = SectorSize * LastLba + SectorSize /\ SectorSize * LastLba \in Nat
    BY <2>1, Scaled
  <2>4. SectorSize * (fs.sector + 1) = SectorSize * fs.sector + SectorSize
    BY <2>1, Scaled
  <2> QED BY <1>1, <1>2, <2>2, <2>3, <2>4
<1>5. PICK e : e = SectorSize * (LastLba + 1)
  OBVIOUS
<1>6. d + p \in 0 .. n /\ 0 \in 0 .. S - 1
  BY <1>2
<1>7. d + p = n \/ (y + S) + 0 = o + (d + p)
  <2>1. CASE p = 0
    BY <1>2, <2>1
  <2>2. CASE p # 0
    BY <1>2, <2>2
  <2> QED BY <2>1, <2>2
<1>8. d + p = 0 \/ o + (d + p) <= e
  <2>1. CASE p = 0
    BY <1>2, <1>3, <1>5, <2>1
  <2>2. CASE p # 0
    BY <1>2, <1>4, <1>5, <2>2
  <2> QED BY <2>1, <2>2
<1>9. /\ fs'.inSector = 0 /\ fs'.done = d + p /\ fs'.ask = fs.ask /\ fs'.last = fs.last
      /\ SectorSize * fs'.sector = y + S
  BY <1>1, <1>4 DEF Moves
<1> QED BY <1>1, <1>3, <1>5, <1>6, <1>7, <1>8, <1>9 DEF PlaceOK

\* A byte of the array is a byte of its sector.
LEMMA ByteOf ==
  ASSUME NEW d, NEW l \in 0 .. LastLba, NEW j \in 0 .. SectorSize - 1, NEW i, i = SectorSize * l + j
  PROVE  i \in 0 .. SectorSize * (LastLba + 1) - 1 /\ Bytes(d)[i] = d[l][j + 1]
<1>1. LastLba \in Nat /\ l \in Nat /\ SectorSize \in Nat
  BY SectorAssumption
<1>2. i \in Nat /\ i \div SectorSize = l /\ i % SectorSize = j
  BY <1>1, PlacedOnce
<1>3. i \in 0 .. SectorSize * (LastLba + 1) - 1
  <2>1. l <= LastLba => SectorSize * l <= SectorSize * LastLba
    BY <1>1, Scaled
  <2>2. SectorSize * (LastLba + 1) = SectorSize * LastLba + SectorSize /\ SectorSize * LastLba \in Nat
    BY <1>1, Scaled
  <2>3. SectorSize * l \in Nat
    BY <1>1, Scaled
  <2> QED BY <1>1, <1>2, <2>1, <2>2, <2>3
<1>4. Bytes(d)[i] = d[i \div SectorSize][(i % SectorSize) + 1]
  BY <1>3 DEF Bytes
<1> QED BY <1>2, <1>3, <1>4

\* A function on 1 .. m is a sequence.
LEMMA SeqOf ==
  ASSUME NEW T, NEW f, NEW m \in Nat, f = [k \in 1 .. m |-> f[k]], \A k \in 1 .. m : f[k] \in T
  PROVE  f \in Seq(T) /\ Len(f) = m
OBVIOUS

\* Part of a sequence, and it put after another.
Cut(v, i, p) == SubSeq(v, i + 1, i + p)
Joined(s, q) == s \o q

\* The part is as long as asked for and has the elements of its place.
LEMMA CutIs ==
  ASSUME NEW T, NEW v \in Seq(T), NEW i \in Nat, NEW p \in Nat, i + p <= Len(v)
  PROVE  Cut(v, i, p) \in Seq(T) /\ Len(Cut(v, i, p)) = p /\ \A m \in 1 .. p : Cut(v, i, p)[m] = v[i + m]
<1>1. PICK a, b : a = i + 1 /\ b = i + p
  OBVIOUS
<1>2. a \in 1 .. Len(v) + 1 /\ b \in a - 1 .. Len(v) /\ b - a + 1 = p /\ \A m \in 1 .. p : a + m - 1 = i + m
  BY <1>1
<1>3. SubSeq(v, a, b) \in Seq(T) /\ Len(SubSeq(v, a, b)) = b - a + 1
      /\ \A m \in 1 .. b - a + 1 : SubSeq(v, a, b)[m] = v[a + m - 1]
  BY <1>2, SubSeqProperties
<1> QED BY <1>1, <1>2, <1>3 DEF Cut

\* The sequence so made.
LEMMA JoinedIs ==
  ASSUME NEW T, NEW s \in Seq(T), NEW q \in Seq(T)
  PROVE  /\ Joined(s, q) \in Seq(T) /\ Len(Joined(s, q)) = Len(s) + Len(q)
         /\ \A k \in 1 .. Len(s) + Len(q) : Joined(s, q)[k] = IF k <= Len(s) THEN s[k] ELSE q[k - Len(s)]
BY ConcatProperties, Zenon DEF Joined

\* The bytes read are those of the array.
LEMMA ReadOn ==
  ASSUME CallingOK, BytesInv, Transfers, fs.ask.op = "read", Moves, fs.sector \in 0 .. LastLba,
         disk' = disk, before' = before,
         fs'.out = fs.out \o SubSeq(disk[fs.sector], fs.inSector + 1, fs.inSector + Span)
  PROVE  ReadOK'
<1>1. PICK S, x, y, o, n, d, i, p :
        /\ S = SectorSize /\ x = fs.sector /\ y = SectorSize * fs.sector /\ o = fs.ask.off /\ n = fs.ask.num
        /\ d = fs.done /\ i = fs.inSector /\ p = Span
  OBVIOUS
<1>2. /\ S \in Nat /\ S > 0 /\ y \in Nat /\ o \in Nat /\ n \in Nat /\ i \in 0 .. S - 1 /\ d \in Nat /\ d <= n
      /\ p \in Nat /\ i + p <= S /\ d + p <= n
      /\ p = 0 \/ y + i = o + d
  BY <1>1, SpanIs
<1>3. PICK B, v, t : B = Bytes(before) /\ v = disk[fs.sector] /\ t = fs.out
  OBVIOUS
<1>4. /\ v = before[x] /\ v = [j \in 1 .. S |-> v[j]] /\ disk = before
      /\ t = [k \in 1 .. d |-> B[o + k - 1]]
  BY <1>1, <1>3 DEF BytesInv, RestOK, Shaped, ReadOK
<1>5. PICK T : T = {B[o + k - 1] : k \in 1 .. d + p} \cup {v[j] : j \in 1 .. S}
  OBVIOUS
<1>6. /\ t \in Seq(T) /\ Len(t) = d /\ v \in Seq(T) /\ Len(v) = S
  <2>1. t = [k \in 1 .. d |-> t[k]] /\ \A k \in 1 .. d : t[k] \in T
    <3>1. \A k \in 1 .. d : k \in 1 .. d + p
      BY <1>2
    <3>2. \A k \in 1 .. d : B[o + k - 1] \in T
      BY <1>5, <3>1, Zenon
    <3> QED BY <1>4, <3>2
  <2>2. \A j \in 1 .. S : v[j] \in T
    BY <1>5
  <2>3. t \in Seq(T) /\ Len(t) = d
    BY <1>2, <2>1, SeqOf
  <2>4. v \in Seq(T) /\ Len(v) = S
    <3>1. S \in Nat /\ v = [j \in 1 .. S |-> v[j]]
      BY <1>2, <1>4
    <3> QED BY <2>2, <3>1, SeqOf, Zenon
  <2> QED BY <2>3, <2>4
<1>7. PICK u : u = [k \in 1 .. d + p |-> B[o + k - 1]]
  OBVIOUS
<1>8. u \in Seq(T) /\ Len(u) = d + p
  <2>1. \A k \in 1 .. d + p : B[o + k - 1] \in T
    BY <1>5
  <2>2. PICK m : m = d + p
    OBVIOUS
  <2>3. m \in Nat /\ u = [k \in 1 .. m |-> u[k]] /\ \A k \in 1 .. m : u[k] \in T
    BY <1>2, <1>7, <2>1, <2>2
  <2>4. u \in Seq(T) /\ Len(u) = m
    BY <2>3, SeqOf, Zenon
  <2> QED BY <2>2, <2>4
<1>9. PICK q, w : q = Cut(v, i, p) /\ w = Joined(t, q)
  OBVIOUS
<1>10. /\ w \in Seq(T) /\ Len(w) = d + p
       /\ \A k \in 1 .. d + p : w[k] = IF k <= d THEN t[k] ELSE v[i + (k - d)]
  <2>1. i \in Nat /\ i + p <= Len(v) /\ v \in Seq(T) /\ p \in Nat /\ t \in Seq(T) /\ Len(t) = d
    BY <1>2, <1>6
  <2>2. q \in Seq(T) /\ Len(q) = p /\ \A m \in 1 .. p : q[m] = v[i + m]
    BY <1>9, <2>1, CutIs
  <2>3. /\ w \in Seq(T) /\ Len(w) = Len(t) + Len(q)
        /\ \A k \in 1 .. Len(t) + Len(q) : w[k] = IF k <= Len(t) THEN t[k] ELSE q[k - Len(t)]
    <3>1. t \in Seq(T) /\ q \in Seq(T)
      BY <2>1, <2>2
    <3>2. /\ Joined(t, q) \in Seq(T) /\ Len(Joined(t, q)) = Len(t) + Len(q)
          /\ \A k \in 1 .. Len(t) + Len(q) : Joined(t, q)[k] = IF k <= Len(t) THEN t[k] ELSE q[k - Len(t)]
      BY <3>1, JoinedIs, Zenon
    <3> QED BY <1>9, <3>2, Zenon
  <2>4. \A k \in 1 .. d + p : k <= d \/ k - d \in 1 .. p
    BY <1>2
  <2> QED BY <2>1, <2>2, <2>3, <2>4
<1>11. \A k \in 1 .. d + p : w[k] = u[k]
  <2> TAKE k \in 1 .. d + p
  <2>1. u[k] = B[o + k - 1]
    BY <1>7
  <2>2. CASE k <= d
    BY <1>2, <1>4, <1>10, <2>1, <2>2
  <2>3. CASE ~(k <= d)
    <3>1. PICK j : j = i + (k - d) - 1
      OBVIOUS
    <3>2. j \in 0 .. S - 1 /\ o + k - 1 = y + j /\ j + 1 = i + (k - d)
      BY <1>2, <2>3, <3>1
    <3>3. B[o + k - 1] = before[x][j + 1]
      BY <1>1, <1>3, <3>2, ByteOf
    <3> QED BY <1>4, <1>10, <2>1, <2>3, <3>2, <3>3
  <2> QED BY <2>2, <2>3
<1>12. w = u
  BY <1>2, <1>8, <1>10, <1>11, SameSeq
<1>13. fs'.out = u /\ fs'.done = d + p /\ fs'.ask = fs.ask /\ fs'.st = "loop"
  BY <1>1, <1>3, <1>9, <1>12 DEF Moves, Cut, Joined
<1>14. Bytes(before)' = B
  BY <1>3 DEF Bytes
<1> QED BY <1>1, <1>4, <1>7, <1>13, <1>14 DEF ReadOK

\* The part of the sector that the transfer covers is copied in.
LEMMA MergeIn ==
  ASSUME CallingOK, BytesInv, Transfers, NEW v, v = Merged(fs.done, fs.sector)
  PROVE  CopyIn(v) = Merged(fs.done + Span, fs.sector)
<1>1. PICK S, x, y, o, n, d, i, p, b, c :
        /\ S = SectorSize /\ x = fs.sector /\ y = SectorSize * fs.sector /\ o = fs.ask.off /\ n = fs.ask.num
        /\ d = fs.done /\ i = fs.inSector /\ p = Span /\ b = fs.ask.buf /\ c = before[fs.sector]
  OBVIOUS
<1>2. /\ S \in Nat /\ S > 0 /\ y \in Nat /\ o \in Nat /\ i \in 0 .. S - 1 /\ d \in Nat /\ p \in Nat
      /\ p = 0 \/ y + i = o + d
  BY <1>1, SpanIs
<1>3. v = [j \in 1 .. S |-> IF y + (j - 1) - o \in 0 .. d - 1 THEN b[y + (j - 1) - o + 1] ELSE c[j]]
  BY <1>1 DEF Merged
<1>4. Merged(fs.done + Span, fs.sector) =
        [j \in 1 .. S |-> IF y + (j - 1) - o \in 0 .. (d + p) - 1 THEN b[y + (j - 1) - o + 1] ELSE c[j]]
  BY <1>1 DEF Merged
<1>5. CopyIn(v) = [j \in 1 .. S |-> IF j - i \in 1 .. p THEN b[d + j - i] ELSE v[j]]
  BY <1>1 DEF CopyIn
<1>6. \A j \in 1 .. S : /\ CopyIn(v)[j] = IF j - i \in 1 .. p THEN b[d + j - i] ELSE v[j]
                        /\ v[j] = IF y + (j - 1) - o \in 0 .. d - 1 THEN b[y + (j - 1) - o + 1] ELSE c[j]
  BY <1>3, <1>5
<1>7. ASSUME NEW j \in 1 .. S
      PROVE  CopyIn(v)[j] = IF y + (j - 1) - o \in 0 .. (d + p) - 1 THEN b[y + (j - 1) - o + 1] ELSE c[j]
  <2>1. PICK k : k = y + (j - 1) - o
    OBVIOUS
  <2>2. k \in Int /\ j \in Int
    BY <1>2, <2>1
  <2>3. CASE p = 0
    <3>1. ~(j - i \in 1 .. p) /\ d + p = d
      BY <1>2, <2>2, <2>3
    <3> QED BY <1>6, <3>1
  <2>4. CASE p # 0
    <3>1. d + j - i = k + 1
      BY <1>2, <2>1, <2>2, <2>4
    <3>2. CASE j - i \in 1 .. p
      <4>1. k \in 0 .. (d + p) - 1
        BY <1>2, <2>2, <3>1, <3>2
      <4> QED BY <1>6, <2>1, <3>1, <3>2, <4>1
    <3>3. CASE ~(j - i \in 1 .. p)
      <4>1. k \in 0 .. (d + p) - 1 <=> k \in 0 .. d - 1
        BY <1>2, <2>2, <3>1, <3>3
      <4> QED BY <1>6, <2>1, <3>3, <4>1
    <3> QED BY <3>2, <3>3
  <2> QED BY <2>3, <2>4
<1>8. CopyIn(v) = [j \in 1 .. S |-> CopyIn(v)[j]]
  BY <1>5
<1> QED BY <1>4, <1>7, <1>8

\* No other sector has a part in it.
LEMMA MergeElse ==
  ASSUME CallingOK, BytesInv, Transfers, NEW l \in Nat, l # fs.sector
  PROVE  Merged(fs.done + Span, l) = Merged(fs.done, l)
<1>1. PICK S, x, y, z, o, d, i, p :
        /\ S = SectorSize /\ x = fs.sector /\ y = SectorSize * fs.sector /\ z = SectorSize * l /\ o = fs.ask.off
        /\ d = fs.done /\ i = fs.inSector /\ p = Span
  OBVIOUS
<1>2. /\ S \in Nat /\ S > 0 /\ y \in Nat /\ o \in Nat /\ i \in 0 .. S - 1 /\ d \in Nat /\ p \in Nat
      /\ i + p <= S /\ x \in Nat
      /\ p = 0 \/ y + i = o + d
  BY <1>1, SpanIs
<1>3. z \in Nat /\ (z + S <= y \/ y + S <= z)
  <2>1. z \in Nat /\ (l < x => z + S <= y) /\ (x < l => y + S <= z)
    BY <1>1, <1>2, Scaled
  <2>2. l < x \/ x < l
    BY <1>1, <1>2
  <2> QED BY <2>1, <2>2
<1>4. \A j \in 1 .. S : z + (j - 1) - o \in 0 .. (d + p) - 1 <=> z + (j - 1) - o \in 0 .. d - 1
  <2> TAKE j \in 1 .. S
  <2>1. PICK k : k = z + (j - 1) - o
    OBVIOUS
  <2>2. k \in Int /\ j \in Int
    BY <1>2, <1>3, <2>1
  <2>3. CASE p = 0
    BY <1>2, <2>3
  <2>4. CASE p # 0
    <3>1. o = y + i - d
      BY <1>2, <2>4
    <3>2. ~(k \in d .. (d + p) - 1)
      BY <1>2, <1>3, <2>1, <2>2, <3>1
    <3> QED BY <1>2, <2>1, <2>2, <3>2
  <2> QED BY <2>3, <2>4
<1> QED BY <1>1, <1>4 DEF Merged

\* What is written so far is in its place on the medium.
LEMMA WriteOn ==
  ASSUME CallingOK, BytesInv, fs.st = "put", blk.data = disk[fs.sector], Moves, fs'.out = fs.out,
         disk' = disk, before' = before
  PROVE  WriteOK'
<1>1. fs.ask.op = "write" /\ Transfers /\ blk.data = Merged(fs.done + Span, fs.sector) /\ fs.out = <<>>
  BY PutIs DEF BytesInv, WriteOK
<1>2. \A l \in 0 .. LastLba : disk[l] = Merged(fs.done + Span, l)
  <2> TAKE l \in 0 .. LastLba
  <2>1. CASE l = fs.sector
    BY <1>1, <2>1
  <2>2. CASE l # fs.sector
    <3>1. disk[l] = Merged(fs.done, l)
      BY <1>1, <2>2 DEF BytesInv, WriteOK
    <3>2. l \in Nat
      BY SectorAssumption
    <3> QED BY <1>1, <2>2, <3>1, <3>2, MergeElse
  <2> QED BY <2>1, <2>2
<1>3. fs'.st = "loop" /\ fs'.ask = fs.ask /\ fs'.done = fs.done + Span
  BY DEF Moves
<1>4. \A l : Merged(fs.done, l)' = Merged(fs.done + Span, l)
  BY <1>3 DEF Merged
<1> QED BY <1>1, <1>2, <1>3, <1>4 DEF WriteOK

\* The frame when the loop moves on.
LEMMA MovesIs ==
  ASSUME CallingOK, NEW z, fs' = Advance(fs) \/ fs' = [Advance(fs) EXCEPT !.out = z]
  PROVE  /\ Moves /\ (fs' = [Advance(fs) EXCEPT !.out = z] => fs'.out = z)
         /\ fs' = Advance(fs) => fs'.out = fs.out
<1>1. PICK s, d, n : s = fs.sector + 1 /\ d = fs.done + Span /\ n = 0
  OBVIOUS
<1>2. /\ Advance(fs) = [st |-> "loop", ask |-> fs.ask, sector |-> s, last |-> fs.last, inSector |-> n,
                        done |-> d, out |-> fs.out]
      /\ [Advance(fs) EXCEPT !.out = z] = [st |-> "loop", ask |-> fs.ask, sector |-> s, last |-> fs.last,
                                           inSector |-> n, done |-> d, out |-> z]
  BY <1>1, AdvanceIs
<1>3. CASE fs' = Advance(fs)
  <2>1. fs'.st = "loop" /\ fs'.ask = fs.ask /\ fs'.sector = s /\ fs'.last = fs.last /\ fs'.inSector = n /\ fs'.done = d
    BY <1>2, <1>3
  <2>2. (fs' = [Advance(fs) EXCEPT !.out = z] => fs'.out = z) /\ (fs' = Advance(fs) => fs'.out = fs.out)
    BY <1>2
  <2> QED BY <1>1, <2>1, <2>2 DEF Moves
<1>4. CASE fs' = [Advance(fs) EXCEPT !.out = z]
  <2>1. /\ fs'.st = "loop" /\ fs'.ask = fs.ask /\ fs'.sector = s /\ fs'.last = fs.last /\ fs'.inSector = n
        /\ fs'.done = d /\ fs'.out = z /\ (fs' = Advance(fs) => fs'.out = fs.out)
    BY <1>2, <1>4
  <2> QED BY <1>1, <2>1 DEF Moves
<1> QED BY <1>3, <1>4

\* The frame when only its state changes.
Turns(st) ==
    /\ fs'.st = st /\ fs'.ask = fs.ask /\ fs'.sector = fs.sector /\ fs'.last = fs.last
    /\ fs'.inSector = fs.inSector /\ fs'.done = fs.done /\ fs'.out = fs.out

\* It is so for an update of the state.
LEMMA TurnsIs ==
  ASSUME CallingOK, NEW st, fs' = [fs EXCEPT !.st = st]
  PROVE  Turns(st)
<1>1. PICK t, a, s, l, i, d, o : fs = [st |-> t, ask |-> a, sector |-> s, last |-> l, inSector |-> i,
                                         done |-> d, out |-> o]
  BY DEF CallingOK
<1>2. fs' = [st |-> st, ask |-> a, sector |-> s, last |-> l, inSector |-> i, done |-> d, out |-> o]
  BY <1>1
<1> QED BY <1>1, <1>2 DEF Turns

\* The bytes stay in place when only the state changes.
LEMMA TurnsKeep ==
  ASSUME BytesInv, Transfers, NEW st \in {"fill", "modify", "put"}, Turns(st), disk' = disk, before' = before,
         IF st = "fill" THEN fs.ask.op = "read" ELSE fs.ask.op = "write",
         fs.st # "put", st = "put" => fs.sector \in 0 .. LastLba /\ blk'.data = Merged(fs.done + Span, fs.sector)
  PROVE  PlaceOK' /\ ReadOK' /\ WriteOK'
<1>1. Transfers' /\ Span' = Span /\ Bytes(before)' = Bytes(before)
  BY DEF Transfers, Turns, Span, Bytes
<1>2. \A n, l : Merged(n, l)' = Merged(n, l)
  BY DEF Merged, Turns
<1>3. PlaceOK'
  BY DEF BytesInv, PlaceOK, Turns
<1>4. ReadOK'
  BY <1>1 DEF BytesInv, ReadOK, Turns
<1>5. WriteOK'
  BY <1>1, <1>2 DEF BytesInv, WriteOK, Turns
<1> QED BY <1>3, <1>4, <1>5

\* The medium a driver call needs is there.
LEMMA CalledSector ==
  ASSUME CallingOK, fs.st \in {"fill", "modify", "put"}, blk.st = "done"
  PROVE  fs.sector \in 0 .. LastLba /\ blk.data = disk[fs.sector]
BY DEF CallingOK

\* A sector is read: from the cache, or by the driver.
LEMMA ReadMoves ==
  ASSUME DataInv, BytesInv, read_cached \/ filled, before' = before
  PROVE  /\ Moves /\ PlaceOK' /\ ReadOK' /\ WriteOK' /\ Transfers /\ disk' = disk
         /\ cache'.valid => cache'.sector \in 0 .. LastLba
<1>1. CallingOK /\ CacheOK
  BY DEF DataInv
<1>2. SUFFICES /\ Transfers /\ fs.ask.op = "read" /\ fs.sector \in 0 .. LastLba /\ disk' = disk
               /\ cache'.valid => cache'.sector \in 0 .. LastLba
               /\ fs' = [Advance(fs) EXCEPT !.out =
                           fs.out \o SubSeq(disk[fs.sector], fs.inSector + 1, fs.inSector + Span)]
  <2>1. Moves /\ fs'.out = fs.out \o SubSeq(disk[fs.sector], fs.inSector + 1, fs.inSector + Span)
    BY <1>1, <1>2, MovesIs
  <2>2. PlaceOK'
    BY <1>1, <1>2, <2>1, PlaceOn
  <2>3. ReadOK'
    BY <1>1, <1>2, <2>1, ReadOn
  <2>4. WriteOK'
    BY <1>2, <2>1 DEF WriteOK, Moves
  <2> QED BY <1>2, <2>1, <2>2, <2>3, <2>4
<1>3. PICK s, d, n : s = fs.sector + 1 /\ d = fs.done + Span /\ n = 0
  OBVIOUS
<1>4. Advance(fs).out = fs.out
  <2>1. Advance(fs) = [st |-> "loop", ask |-> fs.ask, sector |-> s, last |-> fs.last, inSector |-> n,
                       done |-> d, out |-> fs.out]
    BY <1>1, <1>3, AdvanceIs
  <2> QED BY <2>1
<1>5. CASE read_cached
  <2>1. /\ fs.st = "loop" /\ fs.ask.op = "read" /\ cache.valid /\ cache.sector = fs.sector /\ cache' = cache /\ disk' = disk
        /\ fs' = [Advance(fs) EXCEPT !.out = @ \o SubSeq(cache.data, fs.inSector + 1, fs.inSector + Span)]
    BY <1>5 DEF read_cached, InLoop, CopyOut, Cached
  <2>2. cache.data = disk[fs.sector] /\ fs.sector \in 0 .. LastLba
    BY <1>1, <2>1 DEF CacheOK, BytesInv, RestOK
  <2>3. fs' = [Advance(fs) EXCEPT !.out = fs.out \o SubSeq(disk[fs.sector], fs.inSector + 1, fs.inSector + Span)]
    BY <1>4, <2>1, <2>2
  <2> QED BY <2>1, <2>2, <2>3 DEF Transfers
<1>6. CASE filled
  <2>1. /\ fs.st = "fill" /\ blk.st = "done" /\ cache' = [cache EXCEPT !.data = blk.data] /\ disk' = disk
        /\ fs' = [Advance(fs) EXCEPT !.out = @ \o SubSeq(blk.data, fs.inSector + 1, fs.inSector + Span)]
    BY <1>6 DEF filled, CopyOut
  <2>2. blk.data = disk[fs.sector] /\ fs.sector \in 0 .. LastLba
    BY <1>1, <2>1, CalledSector
  <2>3. fs' = [Advance(fs) EXCEPT !.out = fs.out \o SubSeq(disk[fs.sector], fs.inSector + 1, fs.inSector + Span)]
    BY <1>4, <2>1, <2>2
  <2>4. fs.ask.op = "read" /\ Transfers
    BY <2>1 DEF BytesInv, RestOK, WriteOK, Transfers
  <2>5. cache'.sector = fs.sector
    BY <1>1, <2>1 DEF CacheOK
  <2> QED BY <2>1, <2>2, <2>3, <2>4, <2>5
<1> QED BY <1>5, <1>6

\* devfs's steps in a file operation: until it returns, the caller's view
\* does not change.
LEMMA FsBytes ==
  ASSUME UsbInv, DataInv, BytesInv, FsKernel
  PROVE  /\ BytesInv' /\ disk' = disk
         /\ file_return \/ (fs'.ask = fs.ask /\ fs.ask # NoAsk /\ before' = before)
<1>1. UNCHANGED <<packet, parts, disk, backend, halted, ops>>
  BY DEF FsKernel, FsDevStep, virtioVars, read_cached, read_uncached, filled, read_before_write, modify,
         written, file_return, InLoop
<1>2. (Bulk <=> Bulk') /\ mem' = mem
  BY AsideUsb DEF FsKernel
<1>3. CallingOK /\ CacheOK /\ RestOK /\ PageOK
  BY DEF DataInv, BytesInv
<1>4. ASSUME blk' = blk \/ (blk.st # "busy" /\ blk'.st # "busy") PROVE PageOK'
  BY <1>1, <1>2, <1>3, <1>4, PageStays
<1>5. ASSUME Transfers, Transfers', fs'.ask = fs.ask, before' = before,
             cache'.valid /\ fs'.st # "fill" => cache'.sector \in 0 .. LastLba
      PROVE  RestOK' /\ fs.ask # NoAsk
  <2>1. fs.ask \in [op : {"read", "write"}, off : Nat, num : Nat, buf : Seq(Nat)] /\ parts # <<>>
    BY <1>3, <1>5 DEF RestOK, Transfers
  <2>2. fs.ask # NoAsk
    BY <2>1 DEF NoAsk
  <2> QED BY <1>1, <1>3, <1>5, <2>1, <2>2 DEF RestOK, Transfers, Shaped
<1>6. CASE read_cached \/ filled
  <2>1. before' = before
    <3>1. fs'.st # "idle"
      <4>1. \E z : fs' = [Advance(fs) EXCEPT !.out = z]
        BY <1>6 DEF read_cached, filled, CopyOut
      <4> QED BY <1>3, <4>1, MovesIs DEF Moves
    <3> QED BY <3>1 DEF FsKernel
  <2>2. /\ Moves /\ PlaceOK' /\ ReadOK' /\ WriteOK' /\ Transfers
        /\ cache'.valid => cache'.sector \in 0 .. LastLba
    BY <1>6, <2>1, ReadMoves
  <2>3. blk' = blk \/ (blk.st # "busy" /\ blk'.st # "busy")
    BY <1>6 DEF read_cached, filled, NoCall
  <2>4. PageOK'
    BY <1>4, <2>3
  <2>5. Transfers' /\ fs'.ask = fs.ask
    BY <2>2 DEF Transfers, Moves
  <2>6. RestOK' /\ fs.ask # NoAsk
    BY <1>5, <2>1, <2>2, <2>5
  <2> QED BY <1>1, <2>1, <2>2, <2>4, <2>5, <2>6 DEF BytesInv
<1>7. CASE read_uncached \/ read_before_write
  <2>1. PICK st \in {"fill", "modify"} :
          /\ fs.st = "loop" /\ fs' = [fs EXCEPT !.st = st] /\ blk'.st = "call"
          /\ IF st = "fill" THEN fs.ask.op = "read" ELSE fs.ask.op = "write" /\ cache' = cache
    BY <1>7 DEF read_uncached, read_before_write, InLoop, Call
  <2>2. Turns(st) /\ Transfers /\ blk.st = "idle"
    BY <1>3, <2>1, TurnsIs DEF Transfers, CallingOK
  <2>3. before' = before /\ Transfers' /\ fs'.ask = fs.ask
    BY <2>1, <2>2 DEF FsKernel, Turns, Transfers
  <2>4. PlaceOK' /\ ReadOK' /\ WriteOK'
    BY <1>1, <2>1, <2>2, <2>3, TurnsKeep
  <2>5. PageOK'
    BY <1>4, <2>1, <2>2
  <2>6. cache'.valid /\ fs'.st # "fill" => cache'.sector \in 0 .. LastLba
    BY <1>3, <2>1, <2>2 DEF RestOK, Turns
  <2>7. RestOK' /\ fs.ask # NoAsk
    BY <1>5, <2>2, <2>3, <2>6
  <2> QED BY <1>1, <2>3, <2>4, <2>5, <2>7 DEF BytesInv
<1>8. CASE modify
  <2>1. /\ fs.st = "modify" /\ blk.st = "done" /\ Call("write", fs.sector, CopyIn(blk.data))
        /\ fs' = [fs EXCEPT !.st = "put"] /\ cache' = cache
    BY <1>8 DEF modify
  <2>2. Turns("put") /\ Transfers /\ blk'.st = "call" /\ blk'.data = CopyIn(blk.data)
    BY <1>3, <2>1, TurnsIs DEF Transfers, Call
  <2>3. fs.sector \in 0 .. LastLba /\ blk.data = disk[fs.sector]
    BY <1>3, <2>1, CalledSector
  <2>4. fs.ask.op = "write" /\ disk[fs.sector] = Merged(fs.done, fs.sector)
    <3>1. fs.ask.op = "write"
      BY <1>3, <2>1, <2>2 DEF BytesInv, ReadOK, RestOK
    <3> QED BY <2>1, <2>2, <2>3, <3>1 DEF BytesInv, WriteOK
  <2>5. blk'.data = Merged(fs.done + Span, fs.sector)
    BY <1>3, <2>2, <2>3, <2>4, MergeIn
  <2>6. before' = before /\ Transfers' /\ fs'.ask = fs.ask /\ fs'.st = "put"
    BY <2>2 DEF FsKernel, Turns, Transfers
  <2>7. PlaceOK' /\ ReadOK' /\ WriteOK'
    BY <1>1, <2>1, <2>2, <2>3, <2>4, <2>5, <2>6, TurnsKeep
  <2>8. PageOK'
    BY <1>4, <2>1, <2>2
  <2>9. RestOK' /\ fs.ask # NoAsk
    BY <1>3, <1>5, <2>1, <2>2, <2>6 DEF RestOK
  <2> QED BY <1>1, <2>6, <2>7, <2>8, <2>9 DEF BytesInv
<1>9. CASE written
  <2>1. /\ fs.st = "put" /\ blk.st = "done" /\ fs' = Advance(fs) /\ blk' = NoCall
        /\ cache' = [cache EXCEPT !.valid = FALSE]
    BY <1>9 DEF written, Forget
  <2>2. Moves /\ Transfers /\ ~cache'.valid /\ blk'.st = "idle" /\ fs'.out = fs.out
    BY <1>3, <2>1, MovesIs DEF Transfers, CacheOK, NoCall
  <2>3. before' = before /\ Transfers' /\ fs'.ask = fs.ask
    BY <2>2 DEF FsKernel, Moves, Transfers
  <2>4. fs.sector \in 0 .. LastLba /\ blk.data = disk[fs.sector]
    BY <1>3, <2>1, CalledSector
  <2>5. PlaceOK'
    BY <1>3, <2>2, <2>4, PlaceOn
  <2>6. WriteOK'
    BY <1>1, <1>3, <2>1, <2>2, <2>3, <2>4, WriteOn
  <2>7. ReadOK'
    BY <2>1, <2>3, PutIs DEF ReadOK
  <2>8. PageOK'
    BY <1>4, <2>1, <2>2
  <2>9. RestOK' /\ fs.ask # NoAsk
    BY <1>5, <2>2, <2>3
  <2> QED BY <1>1, <2>3, <2>5, <2>6, <2>7, <2>8, <2>9 DEF BytesInv
<1>10. CASE file_return
  <2>1. fs.st = "loop" /\ fs' = [IdleFs EXCEPT !.out = fs.out] /\ UNCHANGED <<cache, blk>>
    BY <1>10 DEF file_return
  <2>2. fs'.st = "idle" /\ fs'.ask = NoAsk
    BY <2>1 DEF IdleFs
  <2>3. before' = FirstDisk /\ Shaped(FirstDisk)
    BY <2>2 DEF FsKernel, FirstDisk, Shaped
  <2>4. RestOK'
    <3>1. parts # <<>>
      BY <1>3, <2>1 DEF RestOK
    <3>2. Shaped(before)'
      BY <2>3 DEF Shaped
    <3> QED BY <1>1, <1>3, <2>1, <2>2, <3>1, <3>2 DEF RestOK, Shaped
  <2>5. PageOK'
    BY <1>4, <2>1
  <2> QED BY <1>1, <1>10, <2>2, <2>4, <2>5 DEF BytesInv, PlaceOK, ReadOK, WriteOK, Transfers
<1> QED BY <1>6, <1>7, <1>8, <1>9, <1>10 DEF FsKernel, FsDevStep

\* When the machine starts, the medium is as it came.
LEMMA BytesStart == Init => BytesInv
<1> SUFFICES ASSUME Init PROVE BytesInv
  OBVIOUS
<1>1. /\ todo = <<>> /\ blk = NoCall /\ disk = FirstDisk /\ before = FirstDisk /\ fs = IdleFs /\ parts = <<>>
      /\ ops = 0 /\ ~cache.valid
  BY DEF Init, initialise_xhci, FsDevInit
<1>2. fs.st = "idle" /\ fs.ask = NoAsk /\ fs.out = <<>> /\ blk.st = "idle"
  BY <1>1 DEF IdleFs, NoCall
<1>3. Shaped(FirstDisk)
  BY DEF Shaped, FirstDisk
<1>4. RestOK
  BY <1>1, <1>2, <1>3 DEF RestOK
<1>5. PageOK
  BY <1>1, <1>2 DEF PageOK, Bulk
<1> QED BY <1>2, <1>4, <1>5 DEF BytesInv, PlaceOK, ReadOK, WriteOK, Transfers

\* Every step keeps the bytes in order.
LEMMA BytesStep ==
  ASSUME UsbInv, DataInv, BytesInv, [Next]_vars
  PROVE  BytesInv'
<1>1. CASE UsbKernel \/ Interrupt \/ Controller \/ UNCHANGED vars
  <2>1. Carry /\ PageOK'
    BY <1>1, UsbCarries
  <2> QED BY <2>1, CarryKeeps DEF BytesInv
<1>2. CASE VirtioKernel \/ VirtioDevice
  <2>1. Carry /\ PageOK'
    BY <1>2, VirtioCarries
  <2> QED BY <2>1, CarryKeeps DEF BytesInv
<1>3. CASE Register
  BY <1>3, RegisterBytes
<1>4. CASE Ask
  BY <1>4, AskBytes
<1>5. CASE FsKernel
  BY <1>5, FsBytes
<1> QED BY <1>1, <1>2, <1>3, <1>4, <1>5 DEF Next, System, Kernel

\* At every moment of a transfer the bytes read so far are those of the
\* medium as the request found it, and the medium differs from it in exactly
\* the bytes written so far.
THEOREM BytesInOrder == Spec => [](StackInv /\ BytesInv)
<1>1. Init => BytesInv
  BY BytesStart
<1>2. StackInv /\ BytesInv /\ [Next]_vars => BytesInv'
  BY BytesStep DEF StackInv
<1> QED BY <1>1, <1>2, StackInOrder, PTL DEF Spec

\* A driver's or a device's step is not seen by the caller.
LEMMA CarryUnseen ==
  ASSUME BytesInv, Carry
  PROVE  UNCHANGED <<Image, fs.ask, Answer>>
<1>1. fs' = fs /\ before' = before
  BY DEF Carry
<1>2. (Busy <=> Busy') /\ Answer' = Answer
  BY <1>1 DEF Busy, Answer
<1>3. CASE Busy
  BY <1>1, <1>2, <1>3 DEF Image, Bytes
<1>4. CASE ~Busy
  <2>1. fs.st # "put"
    <3>1. fs.ask = NoAsk
      BY <1>4 DEF Busy
    <3>2. NoAsk \notin [op : {"read", "write"}, off : Nat, num : Nat, buf : Seq(Nat)]
      BY DEF NoAsk
    <3> QED BY <3>1, <3>2 DEF BytesInv, RestOK
  <2>2. disk' = disk
    BY <2>1 DEF Carry
  <2> QED BY <1>1, <1>2, <1>4, <2>2 DEF Image, Bytes
<1> QED BY <1>1, <1>2, <1>3, <1>4

\* When the loop ends every byte is done, and all of them are on the medium.
LEMMA AllDone ==
  ASSUME CallingOK, BytesInv, file_return
  PROVE  /\ Transfers /\ fs.done = fs.ask.num
         /\ fs.ask.num = 0 \/ fs.ask.off + fs.ask.num <= SectorSize * (LastLba + 1)
<1>1. fs.st = "loop" /\ fs.sector > fs.last /\ Transfers
  BY DEF file_return, Transfers
<1>2. PICK y, z, o, n, d, i : /\ y = SectorSize * fs.sector /\ z = SectorSize * fs.last /\ o = fs.ask.off
                              /\ n = fs.ask.num /\ d = fs.done /\ i = fs.inSector
  OBVIOUS
<1>3. fs.sector \in Nat /\ fs.last \in Nat
  BY DEF CallingOK
<1>4. y \in Nat /\ z \in Nat /\ z + SectorSize <= y
  BY <1>1, <1>2, <1>3, Scaled
<1>5. o \in Nat /\ n \in Nat /\ d \in Nat /\ d <= n /\ i \in Nat /\ SectorSize \in Nat
  BY <1>1, <1>2, SpanIs
<1>6. /\ d = n \/ y + i = o + d
      /\ n = 0 \/ o + n <= z + SectorSize
      /\ d = 0 \/ o + d <= SectorSize * (LastLba + 1)
  BY <1>1, <1>2 DEF BytesInv, PlaceOK
<1>7. d = n
  BY <1>4, <1>5, <1>6
<1> QED BY <1>1, <1>2, <1>6, <1>7

\* The medium once all bytes are written.
LEMMA AllWritten ==
  ASSUME CallingOK, BytesInv, Transfers, fs.st = "loop", fs.ask.op = "write", fs.done = fs.ask.num
  PROVE  Bytes(disk) = [i \in 0 .. SectorSize * (LastLba + 1) - 1 |->
                          IF i \in fs.ask.off .. fs.ask.off + fs.ask.num - 1
                          THEN fs.ask.buf[i - fs.ask.off + 1] ELSE Bytes(before)[i]]
<1>1. ASSUME NEW i \in 0 .. SectorSize * (LastLba + 1) - 1
      PROVE  Bytes(disk)[i] = IF i \in fs.ask.off .. fs.ask.off + fs.ask.num - 1
                              THEN fs.ask.buf[i - fs.ask.off + 1] ELSE Bytes(before)[i]
  <2>1. LastLba \in Nat /\ SectorSize \in Nat /\ SectorSize * (LastLba + 1) \in Nat
    BY SectorAssumption, Scaled
  <2>2. PICK q \in Nat, r \in 0 .. SectorSize - 1 :
           i \div SectorSize = q /\ i % SectorSize = r /\ i = SectorSize * q + r
    BY <2>1, Placed
  <2>3. q \in Nat /\ r \in 0 .. SectorSize - 1 /\ i = SectorSize * q + r /\ SectorSize * q \in Nat
    BY <2>2, Scaled
  <2>4. q \in 0 .. LastLba
    <3>1. LastLba < q => SectorSize * LastLba + SectorSize <= SectorSize * q
      BY <2>1, <2>3, Scaled
    <3>2. SectorSize * (LastLba + 1) = SectorSize * LastLba + SectorSize /\ SectorSize * LastLba \in Nat
      BY <2>1, Scaled
    <3>3. ~(LastLba < q)
      BY <2>1, <2>3, <3>1, <3>2
    <3> QED BY <2>1, <2>3, <3>3
  <2>5. Bytes(disk)[i] = disk[q][r + 1] /\ Bytes(before)[i] = before[q][r + 1]
    BY <2>3, <2>4, ByteOf
  <2>6. disk[q] = Merged(fs.ask.num, q)
    BY <2>4 DEF BytesInv, WriteOK
  <2>7. PICK o, n, y, j : o = fs.ask.off /\ n = fs.ask.num /\ y = SectorSize * q /\ j = r + 1
    OBVIOUS
  <2>8. o \in Nat /\ n \in Nat
    BY <2>7, SpanIs
  <2>9. /\ j \in 1 .. SectorSize /\ y + (j - 1) - o = i - o
        /\ y + (j - 1) - o \in 0 .. n - 1 <=> i \in o .. o + n - 1
    BY <2>1, <2>3, <2>7, <2>8
  <2>10. Merged(n, q)[j] = IF y + (j - 1) - o \in 0 .. n - 1 THEN fs.ask.buf[y + (j - 1) - o + 1] ELSE before[q][j]
    BY <2>7, <2>9 DEF Merged
  <2> QED BY <2>5, <2>6, <2>7, <2>9, <2>10
<1>2. Bytes(disk) = [i \in 0 .. SectorSize * (LastLba + 1) - 1 |-> Bytes(disk)[i]]
  BY DEF Bytes
<1> QED BY <1>1, <1>2

\* The call returns: the request is served, at once as far as its caller
\* can tell.
LEMMA ReturnServes ==
  ASSUME CallingOK, BytesInv, file_return
  PROVE  Store!Read \/ Store!Write
<1>1. fs.st = "loop" /\ fs' = [IdleFs EXCEPT !.out = fs.out] /\ disk' = disk
  BY DEF file_return
<1>2. fs'.ask = NoAsk /\ fs'.out = fs.out
  BY <1>1 DEF IdleFs
<1>3. /\ Transfers /\ fs.done = fs.ask.num
      /\ fs.ask.num = 0 \/ fs.ask.off + fs.ask.num <= SectorSize * (LastLba + 1)
  BY AllDone
<1>4. Store!Served
  BY <1>2, <1>3 DEF Store!Served, Store!None, NoAsk
<1>5. fs.ask.op \in {"read", "write"} /\ Busy /\ ~Busy'
  <2>1. fs.ask \in [op : {"read", "write"}, off : Nat, num : Nat, buf : Seq(Nat)]
    BY <1>3, SpanIs
  <2>2. fs.ask # NoAsk
    BY <2>1 DEF NoAsk
  <2> QED BY <1>2, <2>1, <2>2 DEF Busy
<1>6. Image = Bytes(before) /\ Image' = Bytes(disk) /\ Answer = <<>> /\ Answer' = fs.out
  <2>1. Image' = Bytes(disk')
    BY <1>5 DEF Image
  <2> QED BY <1>1, <1>2, <1>5, <2>1 DEF Image, Answer
<1>7. CASE fs.ask.op = "read"
  <2>1. disk = before /\ fs.out = [i \in 1 .. fs.ask.num |-> Image[fs.ask.off + i - 1]]
    BY <1>3, <1>6, <1>7 DEF BytesInv, ReadOK
  <2> QED BY <1>4, <1>6, <1>7, <2>1 DEF Store!Read
<1>8. CASE fs.ask.op = "write"
  <2>1. fs.out = <<>>
    BY <1>3, <1>8 DEF BytesInv, WriteOK
  <2>2. Image' = [i \in 0 .. SectorSize * (LastLba + 1) - 1 |->
                    IF i \in fs.ask.off .. fs.ask.off + fs.ask.num - 1
                    THEN fs.ask.buf[i - fs.ask.off + 1] ELSE Image[i]]
    BY <1>1, <1>3, <1>6, <1>8, AllWritten
  <2> QED BY <1>4, <1>6, <1>8, <2>1, <2>2 DEF Store!Write
<1> QED BY <1>5, <1>7, <1>8

\* Every step is a step of the array of bytes, or none.
LEMMA StoreStep ==
  ASSUME UsbInv, DataInv, BytesInv, [Next]_vars
  PROVE  [Store!Next]_<<Image, fs.ask, Answer>>
<1>1. CASE UsbKernel \/ Interrupt \/ Controller \/ UNCHANGED vars
  BY <1>1, UsbCarries, CarryUnseen
<1>2. CASE VirtioKernel \/ VirtioDevice
  BY <1>2, VirtioCarries, CarryUnseen
<1>3. CASE Register
  <2>1. fs.ask = NoAsk /\ fs'.ask = NoAsk /\ fs'.out = fs.out /\ disk' = disk
    BY <1>3, RegisterBytes
  <2> QED BY <2>1 DEF Image, Answer, Busy, Bytes
<1>4. CASE Ask
  <2>1. /\ fs.ask = NoAsk /\ fs'.ask # NoAsk /\ before' = disk /\ disk' = disk
        /\ fs'.ask \in [op : {"read", "write"}, off : Nat, num : Nat, buf : Seq(Nat)]
    BY <1>4, AskBytes
  <2>2. Image' = Image /\ Answer' = <<>>
    BY <2>1 DEF Image, Answer, Busy, Bytes
  <2>3. Store!Ask
    BY <2>1, <2>2 DEF Store!Ask, Store!None, NoAsk
  <2> QED BY <2>3 DEF Store!Next
<1>5. CASE FsKernel
  <2>1. disk' = disk /\ (file_return \/ (fs'.ask = fs.ask /\ fs.ask # NoAsk /\ before' = before))
    BY <1>5, FsBytes
  <2>2. CASE file_return
    <3>1. CallingOK
      BY DEF DataInv
    <3> QED BY <2>2, <3>1, ReturnServes DEF Store!Next
  <2>3. CASE fs'.ask = fs.ask /\ fs.ask # NoAsk /\ before' = before
    BY <2>3 DEF Image, Answer, Busy, Bytes
  <2> QED BY <2>1, <2>2, <2>3
<1> QED BY <1>1, <1>2, <1>3, <1>4, <1>5 DEF Next, System, Kernel

\* A device file is an array of bytes over either driver: whatever the
\* alignment of a request, a write replaces exactly the bytes it covers and
\* a read returns exactly those that are there.
THEOREM DeviceFileIsBytes == Spec => ImplementsByteStore
<1>1. Init => Store!Init
  <2> SUFFICES ASSUME Init PROVE Store!Init
    OBVIOUS
  <2>1. fs = IdleFs /\ disk = FirstDisk
    BY DEF Init, FsDevInit
  <2>2. fs.ask = NoAsk /\ fs.out = <<>>
    BY <2>1 DEF IdleFs
  <2> QED BY <2>1, <2>2 DEF Store!Init, Store!None, NoAsk, Image, Answer, Busy
<1>2. StackInv /\ BytesInv /\ [Next]_vars => [Store!Next]_<<Image, fs.ask, Answer>>
  BY StoreStep DEF StackInv
<1> QED BY <1>1, <1>2, BytesInOrder, PTL DEF Spec, ImplementsByteStore, Store!Spec
=============================================================================
