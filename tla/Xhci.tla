-------------------------------- MODULE Xhci --------------------------------
(***************************************************************************)
(* The xHCI driver (xhci_driver.c) and the controller it drives.  The      *)
(* kernel is one thread: it puts TRBs on a ring, rings a doorbell and      *)
(* spins on a flag in its stack frame.  The flag is set by the interrupt   *)
(* handler through a pointer kept in the device's slot.  The controller    *)
(* (external) takes TRBs, posts events and interrupts in its own time.     *)
(***************************************************************************)
EXTENDS BlockIO

CONSTANTS
    Count,          \* TRBs in a ring (PAGE_SIZE / sizeof(struct TRB), 256)
    Slots,          \* slot numbers the controller can hand out (not 0)
    Ports,          \* port indices, 0 .. max_ports - 1
    Plugged,        \* Plugged[p]: what is in port p: "disk", "keyboard", "none"
    MaxReports      \* bound on the key reports a keyboard sends

(* A ring holds the longest request, four TRBs, the link and one to spare: *)
(* a ring filled up would flip the link's bit twice.                       *)
ASSUME XhciAssumption ==
    /\ Count \in Nat /\ Count >= 6
    /\ Slots \subseteq Nat \ {0}
    /\ Plugged \in [Ports -> {"disk", "keyboard", "none"}]
    /\ MaxReports \in Nat

VARIABLES
    rings,          \* the rings in memory; the driver's positions are in them
    hw,             \* the controller's position in each ring
    belled,         \* rings whose doorbell was rung
    ehb, irq,       \* event handler busy; interrupt pending at the processor
    changes,        \* port changes the controller has yet to report
    stages,         \* stages of the control transfer each slot has taken
    slots,          \* per slot: trb handler, handler data, device context
    todo,           \* the requests the running driver code still makes
    req,            \* the frame it spins on: waiting, done, result
    cur, port,      \* slot and port being set up
    reports,        \* key reports sent so far
    stale           \* a completion was written into a frame that had returned

busVars == <<rings, hw, belled, ehb, irq, changes, stages>>
drvVars == <<slots, todo, req, cur, port, reports, stale>>
xhciVars == <<busVars, drvVars, halted>>

-----------------------------------------------------------------------------
(* The rings of transfer request blocks (TRBs) through which driver and    *)
(* controller talk (xhci_trb.c).  A TRB belongs to the consumer when its    *)
(* cycle bit equals the consumer's; the last TRB of a ring the driver fills *)
(* is a link back to the first that toggles both sides' cycle.              *)

Toggle(c) == 1 - c

Blank == [type |-> "none"]
Link  == [type |-> "link"]

(* A ring in memory, with the position of the side that keeps it. *)
create_ring ==
    [trb   |-> [i \in 0 .. Count - 1 |-> IF i = Count - 1 THEN Link ELSE Blank],
     bit   |-> [i \in 0 .. Count - 1 |-> 0],
     idx   |-> 0,
     cycle |-> 1]

(* The driver as producer: the link's bit is flipped and skipped as soon as *)
(* it is reached.                                                          *)
enqueue_ring(r, t) ==
    LET wraps == r.idx + 1 = Count - 1 IN
    [trb   |-> [r.trb EXCEPT ![r.idx] = t],
     bit   |-> [i \in 0 .. Count - 1 |->
                  IF i = r.idx THEN r.cycle
                  ELSE IF wraps /\ i = Count - 1 THEN Toggle(r.bit[i]) ELSE r.bit[i]],
     idx   |-> IF wraps THEN 0 ELSE r.idx + 1,
     cycle |-> IF wraps THEN Toggle(r.cycle) ELSE r.cycle]

(* The driver as consumer (of the event ring, whose last TRB the controller *)
(* uses as well).  Of a TRB already taken only the cycle bit is looked at   *)
(* again: the rest is not told apart from an empty one.                     *)
Dequeuable(r) == r.bit[r.idx] = r.cycle
dequeue_ring(r) ==
    LET wraps == r.idx + 1 = Count IN
    [r EXCEPT !.trb[r.idx] = Blank,
              !.idx = IF wraps THEN 0 ELSE r.idx + 1,
              !.cycle = IF wraps THEN Toggle(r.cycle) ELSE r.cycle]

(* The controller's side of a ring: a position of its own, [idx, cycle]. *)
StartPos == [idx |-> 0, cycle |-> 1]
Fetch(r, p) ==
    IF r.trb[p.idx].type = "link" /\ r.bit[p.idx] = p.cycle
      THEN [idx |-> 0, cycle |-> Toggle(p.cycle)] ELSE p
Available(r, p) ==
    LET f == Fetch(r, p) IN r.trb[f.idx].type # "link" /\ r.bit[f.idx] = f.cycle
Taken(r, p) == r.trb[Fetch(r, p).idx]
Spent(r, p) == [r EXCEPT !.trb[Fetch(r, p).idx] = Blank]
After(r, p) == LET f == Fetch(r, p) IN [f EXCEPT !.idx = f.idx + 1]

(* The controller as producer of the event ring. *)
PostTo(r, p, t) == [r EXCEPT !.trb[p.idx] = t, !.bit[p.idx] = p.cycle]
AfterPost(p) == IF p.idx + 1 = Count THEN [idx |-> 0, cycle |-> Toggle(p.cycle)]
                ELSE [p EXCEPT !.idx = p.idx + 1]

-----------------------------------------------------------------------------
(* Endpoint index of a device context: 1 is endpoint 1 out, 2 is 1 in, ... *)
calculate_endpoint_index(num, isIn) == 2 * num + (IF isIn THEN 1 ELSE 0) - 1
InIndex  == calculate_endpoint_index(1, TRUE)
OutIndex == calculate_endpoint_index(2, FALSE)
set_context_entries(eps) == CHOOSE n \in 1 .. 31 : n - 1 \in eps /\ \A e \in eps : e <= n - 1

(* Rings are named <<slot, endpoint index>>; slot 0 stands for the controller. *)
CmdRing == <<0, 0>>
EventRing == <<0, 1>>

NoResult == [type |-> "none", slot |-> 0, code |-> 0, ed |-> FALSE]
Idle     == [waiting |-> FALSE, done |-> FALSE, result |-> NoResult]

(* A slot: which function takes its events, where that function puts them,  *)
(* the state in its device context, the endpoints running and those in the *)
(* input context with its context_entries.                                 *)
FreshSlot == [handler |-> "to_slot_0", data |-> "null", state |-> "off",
              kind |-> "none", running |-> {}, eps |-> {}, entries |-> 0]

-----------------------------------------------------------------------------
(* Requests.  Each is the TRBs it enqueues on one ring.                    *)

CommandLabels == {"enable_slot", "address_blocked", "address", "evaluate", "configure"}
ControlLabels == {"descriptor_head", "descriptor", "config_head", "config",
                  "set_configuration", "set_idle", "set_protocol", "max_lun"}
WithData == {"descriptor_head", "descriptor", "config_head", "config", "max_lun"}

CommandTrb(q) ==
    [type |-> IF q \in {"address_blocked", "address"} THEN "set_address" ELSE q,
     slot |-> IF q = "enable_slot" THEN 0 ELSE cur,
     bsr  |-> q = "address_blocked"]

(* make_request: setup, data if there is an output buffer, status in the   *)
(* other direction (in, without data), and the event data TRB that alone   *)
(* interrupts.                                                             *)
make_request(q) ==
    LET data == q \in WithData IN
    <<[type |-> IF data THEN "setup_in" ELSE "setup_none", ioc |-> FALSE]>>
    \o (IF data THEN <<[type |-> "data_in", ioc |-> FALSE]>> ELSE <<>>)
    \o <<[type |-> IF data THEN "status_out" ELSE "status_in", ioc |-> FALSE],
         [type |-> "event_data", ioc |-> TRUE]>>

(* One after another. *)
EnqueueAll(r, ts) ==
    LET e[k \in 0 .. Len(ts)] == IF k = 0 THEN r ELSE enqueue_ring(e[k - 1], ts[k])
    IN  e[Len(ts)]

(* Put a request on ring n, point slot s at this frame and ring. *)
Send(n, ts, s, handler) ==
    /\ rings' = [rings EXCEPT ![n] = EnqueueAll(@, ts)]
    /\ slots' = [slots EXCEPT ![s].data = "frame", ![s].handler = handler]
    /\ belled' = belled \cup {n}
    /\ req' = [Idle EXCEPT !.waiting = TRUE]

(* enable_slot leaves the handler alone: the slot is not known yet, and    *)
(* every fresh slot copies to slot 0.                                      *)
send_command_ring_trb ==
    /\ ~halted /\ ~req.waiting /\ todo # <<>> /\ Head(todo) \in CommandLabels
    /\ LET s == IF Head(todo) = "enable_slot" THEN 0 ELSE cur IN
       Send(CmdRing, <<CommandTrb(Head(todo))>>, s,
            IF s = 0 THEN slots[0].handler ELSE "copy")
    /\ UNCHANGED <<hw, ehb, irq, changes, stages, todo, cur, port, reports, stale, halted>>

send_control_transfer ==
    /\ ~halted /\ ~req.waiting /\ todo # <<>> /\ Head(todo) \in ControlLabels
    /\ Send(<<cur, 0>>, make_request(Head(todo)), cur, "copy")
    /\ UNCHANGED <<hw, ehb, irq, changes, stages, todo, cur, port, reports, stale, halted>>

-----------------------------------------------------------------------------
(* What the driver does with an answer.                                    *)

ResultOK(q, r) ==
    /\ r.code = 1
    /\ q \in CommandLabels => r.type = "command"
    /\ q \in ControlLabels => r.type = "transfer" /\ r.slot = cur /\ r.ed

(* The assertions on the device context after a command. *)
ContextOK(q, s) ==
    /\ q = "address_blocked" => s.state = "default" /\ 0 \in s.running
    /\ q = "address" => s.state = "addressed"
    /\ q = "configure" => s.eps \subseteq s.running

(* Endpoints a class driver adds before it configures them. *)
ClassEndpoints(p) == IF Plugged[p] = "disk" THEN {InIndex, OutIndex} ELSE {InIndex}

(* What set_up_port and the class drivers ask for, in order. *)
SetUpScript == <<"enable_slot", "address_blocked", "address", "descriptor_head",
                 "evaluate", "descriptor", "config_head", "config">>
initialise_msd == <<"configure", "set_configuration", "max_lun", "capacity", "register">>
initialise_keyboard == <<"set_configuration", "set_idle", "set_protocol", "configure",
                         "arm_keyboard">>
ClassScript(p) == IF Plugged[p] = "disk" THEN initialise_msd ELSE initialise_keyboard

(* The frame of request q returned: its slot's pointer dangles from now on, *)
(* except slot 0's, which is reset.  The slot's contexts and rings for what *)
(* comes next are made.                                                    *)
Complete ==
    /\ ~halted /\ req.waiting /\ req.done
    /\ Head(todo) \in CommandLabels \cup ControlLabels
    /\ LET q == Head(todo)
           s == IF q = "enable_slot" THEN req.result.slot ELSE cur
           new == CASE q = "enable_slot" -> {0}
                    [] q = "config" /\ Plugged[port] = "disk" -> ClassEndpoints(port)
                    [] q = "set_protocol" -> ClassEndpoints(port)
                    [] OTHER -> {}
           eps == slots[s].eps \cup new
       IN IF ResultOK(q, req.result) /\ (q = "enable_slot" \/ ContextOK(q, slots[s]))
                                     /\ s # 0
          THEN /\ slots' = [slots EXCEPT
                     ![0].data = IF q = "enable_slot" THEN "null" ELSE @,
                     ![s].data = IF q = "enable_slot" THEN @ ELSE "dead",
                     ![s].eps = eps,
                     ![s].kind = IF q = "enable_slot" THEN Plugged[port] ELSE @,
                     ![s].entries = IF new = {} THEN @ ELSE set_context_entries(eps)]
               /\ rings' = [n \in DOMAIN rings \cup {<<s, e>> : e \in new} |->
                              IF n \in DOMAIN rings THEN rings[n] ELSE create_ring]
               /\ hw' = [n \in DOMAIN hw \cup {<<s, e>> : e \in new} |->
                              IF n \in DOMAIN hw THEN hw[n] ELSE StartPos]
               /\ todo' = Tail(todo) \o (IF q = "config" THEN ClassScript(port) ELSE <<>>)
               /\ cur' = s
               /\ UNCHANGED halted
          ELSE halted' = TRUE /\ UNCHANGED <<slots, rings, hw, todo, cur>>
    /\ req' = Idle
    /\ UNCHANGED <<belled, ehb, irq, changes, stages, port, reports, stale>>

(* The next port: nothing to do if it is empty, otherwise reset it (the    *)
(* controller will report the change) and start.                           *)
set_up_port ==
    /\ ~halted /\ todo = <<>> /\ ~req.waiting /\ port + 1 \in Ports
    /\ port' = port + 1
    /\ IF Plugged[port + 1] = "none" THEN UNCHANGED <<todo, changes>>
       ELSE todo' = SetUpScript /\ changes' = changes + 1
    /\ UNCHANGED <<rings, hw, belled, ehb, irq, stages, slots, req, cur, reports, stale, halted>>

(* The end of initialise_keyboard: from here on packet_recv takes the      *)
(* slot's events and puts the report buffer on the ring again.             *)
ReportTrb == [type |-> "normal", ioc |-> TRUE]
(* Mutant: the slot's events keep going where the last request wanted them. *)
MutKeepHandler ==
    /\ ~halted /\ ~req.waiting /\ todo # <<>> /\ Head(todo) = "arm_keyboard"
    /\ rings' = [rings EXCEPT ![<<cur, InIndex>>] = enqueue_ring(@, ReportTrb)]
    /\ belled' = belled \cup {<<cur, InIndex>>}
    /\ todo' = Tail(todo)
    /\ UNCHANGED <<slots, hw, ehb, irq, changes, stages, req, cur, port, reports, stale, halted>>
arm_keyboard ==
    /\ ~halted /\ ~req.waiting /\ todo # <<>> /\ Head(todo) = "arm_keyboard"
    /\ slots' = [slots EXCEPT ![cur].data = "keyboard", ![cur].handler = "packet_recv"]
    /\ rings' = [rings EXCEPT ![<<cur, InIndex>>] = enqueue_ring(@, ReportTrb)]
    /\ belled' = belled \cup {<<cur, InIndex>>}
    /\ todo' = Tail(todo)
    /\ UNCHANGED <<hw, ehb, irq, changes, stages, req, cur, port, reports, stale, halted>>

-----------------------------------------------------------------------------
(* The interrupt handler: one event per interrupt.                         *)

(* fetch_and_copy and fetch_and_copy_to_slot_0: write through the pointer  *)
(* kept in slot t.                                                         *)
CopyTo(t, e) ==
    /\ req' = IF slots[t].data = "frame" THEN [req EXCEPT !.done = TRUE, !.result = e] ELSE req
    /\ stale' = (stale \/ slots[t].data = "dead")
    /\ halted' = (slots[t].data \in {"null", "keyboard"})
    /\ rings' = [rings EXCEPT ![EventRing] = dequeue_ring(@)]
    /\ UNCHANGED belled

packet_recv(e) ==
    /\ halted' = (e.type # "transfer" \/ e.code # 1)
    /\ rings' = [rings EXCEPT ![EventRing] = dequeue_ring(@),
                              ![<<e.slot, InIndex>>] = enqueue_ring(@, ReportTrb)]
    /\ belled' = belled \cup {<<e.slot, InIndex>>}
    /\ UNCHANGED <<req, stale>>

Ignore ==
    /\ rings' = [rings EXCEPT ![EventRing] = dequeue_ring(@)]
    /\ UNCHANGED <<req, stale, halted, belled>>

(* Mutant: the event handler busy bit is written as it was read. *)
MutKeepBusy == ehb' = ehb /\ irq' = FALSE
(* Moving the dequeue pointer clears the busy bit; the controller          *)
(* interrupts again if events are left.                                    *)
update_erdp == LET left == Dequeuable(dequeue_ring(rings[EventRing])) IN
               ehb' = left /\ irq' = left

handle_incoming_event ==
    /\ irq /\ ~halted
    /\ LET e == rings[EventRing].trb[rings[EventRing].idx] IN
       IF ~Dequeuable(rings[EventRing])
       THEN irq' = FALSE /\ UNCHANGED <<ehb, rings, req, stale, halted, belled>>
       ELSE /\ update_erdp
            /\ CASE e.type = "port" -> Ignore
                 [] e.type # "port" /\ slots[e.slot].handler = "copy" -> CopyTo(e.slot, e)
                 [] e.type # "port" /\ slots[e.slot].handler = "to_slot_0" -> CopyTo(0, e)
                 [] e.type # "port" /\ slots[e.slot].handler = "packet_recv" -> packet_recv(e)
                 [] e.type # "port" /\ slots[e.slot].handler = "null" ->
                      /\ halted' = TRUE
                      /\ rings' = [rings EXCEPT ![EventRing] = dequeue_ring(@)]
                      /\ UNCHANGED <<req, stale, belled>>
    /\ UNCHANGED <<hw, changes, stages, slots, todo, cur, port, reports>>

-----------------------------------------------------------------------------
(* The controller and the devices (external).                              *)

Room == AfterPost(hw[EventRing]).idx # rings[EventRing].idx
(* Post event e in memory r, the controller's positions being h. *)
Post(e, r, h) ==
    /\ Room
    /\ rings' = [r EXCEPT ![EventRing] = PostTo(@, hw[EventRing], e)]
    /\ hw' = [h EXCEPT ![EventRing] = AfterPost(@)]
    /\ ehb' = TRUE
    /\ irq' = (irq \/ ~ehb)
(* Take a TRB of ring n; an event tells of it. *)
Take(n) == [hw EXCEPT ![n] = After(rings[n], @)]
PostFor(n, e) == Post(e, [rings EXCEPT ![n] = Spent(@, hw[n])], Take(n))
Ready(n) == n \in belled /\ n \in DOMAIN rings /\ Available(rings[n], hw[n])
(* A ring run dry is left alone until its doorbell rings again. *)
Served(n) == belled' = IF Available(rings[n], After(rings[n], hw[n])) THEN belled
                       ELSE belled \ {n}

(* A command: completion code 1 if the slot is in a state that allows it.  *)
CtlCommand ==
    /\ Ready(CmdRing)
    /\ LET t == Taken(rings[CmdRing], hw[CmdRing])
           s == slots[t.slot]
           done(slot, code) == [type |-> "command", slot |-> slot, code |-> code, ed |-> FALSE]
           legal == CASE t.type = "set_address" -> s.state \in {"enabled", "default"}
                                                   /\ s.entries >= 1
                      [] t.type = "evaluate" -> s.state \in {"default", "addressed"}
                      [] t.type = "configure" -> s.state = "addressed"
                                                 /\ \A e \in s.eps : e < s.entries
       IN IF t.type = "enable_slot"
          THEN \E n \in Slots :
                 /\ slots[n].state = "off" /\ \A m \in Slots : m < n => slots[m].state # "off"
                 /\ slots' = [slots EXCEPT ![n].state = "enabled"]
                 /\ PostFor(CmdRing, done(n, 1))
          ELSE /\ slots' = IF ~legal THEN slots
                           ELSE [slots EXCEPT ![t.slot].state =
                                   CASE t.type = "set_address" ->
                                          IF t.bsr THEN "default" ELSE "addressed"
                                     [] t.type = "evaluate" -> @
                                     [] t.type = "configure" -> "configured",
                                 ![t.slot].running =
                                   IF t.type = "configure" THEN s.eps ELSE {0}]
               /\ PostFor(CmdRing, done(t.slot, IF legal THEN 1 ELSE 19))
    /\ Served(CmdRing)
    /\ UNCHANGED <<changes, stages, todo, req, cur, port, reports, stale, halted>>

GoodControl == {<<"setup_none", "status_in">>, <<"setup_in", "data_in", "status_out">>}

(* One TRB of a control transfer. *)
CtlControl(s) ==
    /\ Ready(<<s, 0>>)
    /\ LET t == Taken(rings[<<s, 0>>], hw[<<s, 0>>])
           seen == Append(stages[s], t.type)
           ok == 0 \in slots[s].running /\ stages[s] \in GoodControl
       IN /\ stages' = [stages EXCEPT ![s] = IF t.type = "event_data" THEN <<>> ELSE seen]
          /\ IF t.ioc
             THEN PostFor(<<s, 0>>, [type |-> "transfer", slot |-> s, code |-> IF ok THEN 1 ELSE 6,
                                     ed |-> t.type = "event_data"])
             ELSE hw' = Take(<<s, 0>>) /\ UNCHANGED <<rings, ehb, irq>>
    /\ Served(<<s, 0>>)
    /\ UNCHANGED <<changes, drvVars, halted>>

(* A key was pressed or released: the report goes into the buffer. *)
CtlReport(s) ==
    /\ reports < MaxReports
    /\ slots[s].kind = "keyboard"
    /\ Ready(<<s, InIndex>>)
    /\ reports' = reports + 1
    /\ PostFor(<<s, InIndex>>, [type |-> "transfer", slot |-> s, code |-> 1, ed |-> FALSE])
    /\ Served(<<s, InIndex>>)
    /\ UNCHANGED <<changes, stages, slots, todo, req, cur, port, stale, halted>>

CtlPortChange ==
    /\ changes > 0
    /\ changes' = changes - 1
    /\ Post([type |-> "port", slot |-> 0, code |-> 1, ed |-> FALSE], rings, hw)
    /\ UNCHANGED <<belled, stages, drvVars, halted>>

-----------------------------------------------------------------------------
(* initialise_xhci: the chip is reset, the rings are made, every slot's    *)
(* events go to slot 0's frame, and the ports are set up one by one.       *)
initialise_xhci ==
    /\ rings = [n \in {CmdRing, EventRing} |-> create_ring]
    /\ hw = [n \in {CmdRing, EventRing} |-> StartPos]
    /\ belled = {} /\ ehb = FALSE /\ irq = FALSE /\ changes = 0
    /\ stages = [s \in Slots |-> <<>>]
    /\ slots = [s \in Slots \cup {0} |-> FreshSlot]
    /\ todo = <<>> /\ req = Idle /\ cur = 0 /\ port = -1 /\ reports = 0
    /\ stale = FALSE

XhciDriver == \/ set_up_port \/ send_command_ring_trb \/ send_control_transfer
              \/ Complete \/ arm_keyboard \/ handle_incoming_event
XhciController == CtlCommand \/ (\E s \in Slots : CtlControl(s) \/ CtlReport(s)) \/ CtlPortChange
=============================================================================
