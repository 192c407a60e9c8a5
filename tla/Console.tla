------------------------------ MODULE Console -------------------------------
(***************************************************************************)
(* The terminal under two actors: a process that writes to it or reads from *)
(* it inside a system call (interrupts are on, lowlevel.asm), and the      *)
(* keyboard's interrupt, which echoes and buffers what is typed and can    *)
(* come between any two pieces of the call.                                *)
(***************************************************************************)
EXTENDS Keyboard

CONSTANTS Keys,                 \* what can be typed, by kind of keyboard
          Codes,                \* kind -> key -> what pressing sends
          Breaks,               \* key -> the scan codes of letting it go
          Char,                 \* key -> <<plain, shifted>>, as engraved
          Shifts, CapsKey,      \* the modifier keys
          Untaken,              \* keys the decoder has no code for
          Misprinted,           \* keys whose shifted character it has wrong
          StrayByte,            \* of a key typed while the port is set up
          Output, Nums,         \* what processes write, how much they read
          MaxPresses, MaxCalls, \* bounds, by kind of keyboard
          MaxStray              \* bound on early bytes
VARIABLES kind,                 \* "usb" or "ps2"
          boot,                 \* next step of initialise_ps2
          wire,                 \* bytes at the PS/2 port, [byte, char]
          held,                 \* keys physically down, oldest first
          capsOn,               \* caps lock as the user sees it
          kb,                   \* the driver's decoder
          tty, in,              \* the terminal
          call,                 \* the system call in progress
          expect,               \* what was typed, edited, and not yet read
          cause,                \* why something may be lost or the kernel stop
          presses, calls, stray
vars == <<kind, boot, wire, held, capsOn, kb, tty, in, call, expect, cause,
          presses, calls, stray>>
keyVars == <<held, capsOn, presses>>

NoCall == [pc |-> "idle", c |-> Blank, x |-> 0, n |-> 0, out |-> <<>>, want |-> <<>>]
Reading == call.pc \in {"shuffle", "adjust"}
Writing == call.pc # "idle" /\ ~Reading
Booted == kind = "usb" \/ boot > Len(initialise_ps2)
halted == tty.halt \/ in.halt \/ kb.halt

Init ==
    /\ kind \in {"usb", "ps2"} /\ boot = 1
    /\ wire = <<>> /\ held = <<>> /\ capsOn = FALSE
    /\ kb = [shift |-> FALSE, caps |-> FALSE, report |-> <<>>, data |-> <<>>,
             want |-> 1, halt |-> FALSE]
    /\ tty = initialise_tty /\ in = EmptyInput /\ call = NoCall
    /\ expect = <<>> /\ cause = {}
    /\ presses = 0 /\ calls = 0 /\ stray = 0

-----------------------------------------------------------------------------
(* The system calls. *)
Goes(w) == LET s == WriteStep(w, tty) IN call' = s.w /\ tty' = s.t
tty_write_char ==
    /\ \/ /\ call.pc = "idle" /\ calls < MaxCalls[kind]
          /\ calls' = calls + 1
          /\ \E c \in Output : Goes([NoCall EXCEPT !.pc = "store", !.c = c])
       \/ Writing /\ Goes(call) /\ UNCHANGED calls
    /\ UNCHANGED <<in, expect, cause>>

(* tty_read: counted and copied; moved down; next adjusted.  The rest is   *)
(* counted from next as it is then: if it became less than was copied, the *)
(* loop runs off the buffer.                                               *)
tty_read ==
    /\ \/ /\ call.pc = "idle" /\ calls < MaxCalls[kind]
          /\ calls' = calls + 1
          /\ \E num \in Nums :
               LET n == ReadCount(in, num)
                   m == IF n < Len(expect) THEN n ELSE Len(expect)
               IN
               /\ call' = [call EXCEPT !.pc = IF n = 0 THEN "idle" ELSE "shuffle", !.n = n,
                             !.out = SubSeq(Pending(in), 1, n),
                             !.want = SubSeq(expect, 1, m)]
               /\ expect' = SubSeq(expect, m + 1, Len(expect))
          /\ UNCHANGED in
       \/ /\ call.pc = "shuffle"
          /\ call' = [call EXCEPT !.pc = "adjust"]
          /\ in' = IF in.next < call.n THEN [in EXCEPT !.halt = TRUE] ELSE Shuffle(in, call.n)
          /\ UNCHANGED <<calls, expect>>
       \/ /\ call.pc = "adjust"
          /\ call' = [call EXCEPT !.pc = "idle", !.n = 0]
          /\ in' = [in EXCEPT !.next = @ - call.n]
          /\ UNCHANGED <<calls, expect>>
    /\ UNCHANGED <<tty, cause>>

(* The calls on descriptors 0 to 2, one character at a time or at once; a  *)
(* read of nothing leaves the process blocked, to be tried again.          *)
stdout_write == Booted /\ tty_write_char
stdin_read == Booted /\ tty_read

-----------------------------------------------------------------------------
(* What typing c should leave to be read: a backspace takes back the last   *)
(* character of the line, and never the end of the line before (tty.c:175). *)
Edited(s, c) == CASE c = None -> s
                  [] c = Erase -> IF s = <<>> \/ Last(s) = Newline THEN s ELSE Front(s)
                  [] OTHER -> Append(s, c)

(* Why a character typed now may get lost or stop the kernel: a write is in *)
(* progress; it has put the cursor past the edge; it is about to draw the   *)
(* character left of the cursor, which the key leaves at the row's start;  *)
(* the buffer is full; a read has counted what it will move; or a backspace *)
(* meets the end of a line.                                                *)
Causes(st, t, c) ==
    (IF Writing THEN {"write"} ELSE {})
    \cup (IF Writing /\ c # Erase /\ st.tty.cx = chars_width THEN {"edge"} ELSE {})
    \cup (IF call.pc \in {"mark", "index", "plot"} /\ t.cx = 0 THEN {"start"} ELSE {})
    \cup (IF c # Erase /\ st.in.next = InputLength THEN {"full"} ELSE {})
    \cup (IF call.pc = "adjust" \/ (call.pc = "shuffle" /\ c = Erase /\ st.in.next <= call.n)
          THEN {"read"} ELSE {})
    \cup (IF c = Erase /\ st.in.next > 0 /\ Last(Pending(st.in)) = Newline THEN {"line"} ELSE {})

(* tty_provide_stdin: echo, then buffer. *)
tty_provide_stdin(st, c) ==
    IF c = None \/ st.tty.halt \/ st.in.halt THEN st
    ELSE LET t == Echo(st.tty, c) IN
         [tty |-> t, in |-> IF t.halt THEN st.in ELSE Provide(st.in, c),
          cause |-> st.cause \cup Causes(st, t, c)]
Typed(chars) ==
    LET st == FoldLeft(tty_provide_stdin, [tty |-> tty, in |-> in, cause |-> cause], chars)
    IN tty' = st.tty /\ in' = st.in /\ cause' = st.cause

(* A byte at the PS/2 port. *)
ps2_interrupt ==
    /\ kind = "ps2" /\ Booted /\ wire # <<>>
    /\ wire' = Tail(wire)
    /\ LET r == handle_incoming_byte(kb, Head(wire).byte) IN
       /\ kb' = [r.kb EXCEPT !.halt = r.halt]
       /\ Typed(<<r.char>>)
    /\ expect' = Edited(expect, Head(wire).char)
    /\ UNCHANGED <<call, calls, boot, keyVars, stray>>

(* A report of the USB keyboard: the keys that are down now.  The modifier  *)
(* keys are in a byte of their own, which packet_recv does not look at.    *)
Report == LET keys == SelectSeq(held, LAMBDA k : k \notin Shifts)
          IN [i \in DOMAIN keys |-> Codes["usb"][keys[i]]]
packet_recv ==
    /\ kind = "usb" /\ Report # kb.report
    /\ LET r == packet_chars(kb, Report)
           new == SelectSeq(held, LAMBDA k : Codes["usb"][k] \notin Range(kb.report))
       IN /\ kb' = r.st
          /\ Typed(r.chars)
          /\ expect' = FoldLeft(Edited, expect, [i \in DOMAIN new |-> Char[new[i]][1]])
    /\ UNCHANGED <<call, calls, boot, wire, keyVars, stray>>

-----------------------------------------------------------------------------
(* The user.  A PS/2 key sends its codes as it goes down; the last of them *)
(* carries what the user meant.  Bytes arrive in order, so it changes      *)
(* nothing for the kernel that the user waits for them to be taken.        *)
Shifted == \E i \in DOMAIN held : held[i] \in Shifts
Meant(k) ==
    LET c == IF Shifted /\ Char[k][2] # None THEN Char[k][2] ELSE Char[k][1]
    IN IF Shifted \/ capsOn THEN toupper(c) ELSE c
Bytes(codes, c) == [i \in DOMAIN codes |-> [byte |-> codes[i],
                                           char |-> IF i = Len(codes) THEN c ELSE None]]
Press(k) ==
    /\ Booted /\ wire = <<>> /\ presses < MaxPresses[kind] /\ k \notin Range(held)
    /\ presses' = presses + 1
    /\ held' = Append(held, k)
    /\ capsOn' = IF k = CapsKey THEN ~capsOn ELSE capsOn
    /\ wire' = IF kind = "ps2" THEN wire \o Bytes(Codes["ps2"][k], Meant(k)) ELSE wire
    /\ cause' = cause \cup
          (IF k \in Untaken \/ (kind = "usb" /\ k \in Shifts \cup {CapsKey}) THEN {"key"} ELSE {})
          \cup (IF k \in Misprinted /\ Shifted THEN {"table"} ELSE {})
    /\ UNCHANGED <<boot, kb, tty, in, call, expect, calls, stray>>
Release(k) ==
    /\ k \in Range(held) /\ wire = <<>>
    /\ held' = Remove(held, k)
    /\ wire' = IF kind = "ps2" THEN wire \o Bytes(Breaks[k], None) ELSE wire
    /\ UNCHANGED <<boot, kb, tty, in, call, expect, cause, calls, stray, capsOn, presses>>

(* The PS/2 port is set up, perhaps while somebody types. *)
Boot ==
    /\ ~Booted
    /\ LET r == BootStep(initialise_ps2[boot], wire) IN
       /\ wire' = r.wire
       /\ kb' = [kb EXCEPT !.halt = ~r.ok]
    /\ boot' = boot + 1
    /\ stray' = IF boot = Len(initialise_ps2) THEN 0 ELSE stray
    /\ UNCHANGED <<keyVars, tty, in, call, expect, cause, calls>>
EarlyByte ==
    /\ ~Booted /\ boot \notin PortOff /\ stray < MaxStray
    /\ stray' = stray + 1
    /\ wire' = Append(wire, [byte |-> StrayByte, char |-> None])
    /\ cause' = cause \cup (IF boot > 3 THEN {"boot"} ELSE {})
    /\ UNCHANGED <<boot, keyVars, kb, tty, in, call, expect, calls>>

Next ==
    /\ ~halted
    /\ UNCHANGED kind
    /\ \/ /\ stdout_write \/ stdin_read
          /\ UNCHANGED <<boot, wire, keyVars, kb, stray>>
       \/ ps2_interrupt \/ packet_recv
       \/ \E k \in Keys[kind] : Press(k) \/ Release(k)
       \/ Boot \/ EarlyByte
Spec == Init /\ [][Next]_vars

-----------------------------------------------------------------------------
(* Properties.                                                             *)

(* Between calls the screen shows the text buffer, although a single       *)
(* character is drawn where that is thought to be enough, unless a key was *)
(* typed in the middle of a write.                                         *)
ScreenShowsBuffer == call.pc = "idle" /\ ~halted /\ "write" \notin cause => tty.screen = Render(tty)

(* What is typed is what is read, in order and edited by backspaces: no key *)
(* is lost, doubled or made another by the decoders, by a read in progress, *)
(* or by a write the key interrupts.  Left out are a key that comes when a  *)
(* read has counted what it moves, a backspace at the end of a line (see    *)
(* LinesStay), a key the decoder does not know or has wrong, a full buffer. *)
TypedIsRead == call.pc = "idle" /\ ~halted /\ cause \subseteq {"write"} =>
                 Pending(in) = expect /\ call.out = call.want

(* tty.c:175, "don't allow backspacing to before a newline": a key takes    *)
(* back no line that was ended.                                            *)
Lines(s) == Len(SelectSeq(Pending(s), LAMBDA c : c = Newline))
LinesStay == [][call' = call => Lines(in') >= Lines(in)]_vars

(* The kernel stops only for a key it cannot decode, a byte sent while the *)
(* port was set up, a full input buffer, or a key that came while a write   *)
(* had the cursor past the edge or was about to draw what is left of it, or *)
(* when a read had counted more than was left.                             *)
Fatal == {"key", "boot", "full", "edge", "start", "read"}
HaltsOnlyForCause == halted => cause \cap Fatal # {}

-----------------------------------------------------------------------------
\* The instance that is model-checked: one key of every kind on each keyboard.
MCKeys == [usb |-> {"a", "enter", "back", "shift", "caps"},
           ps2 |-> {"a", "two", "seven", "enter", "back", "shift", "caps", "prtscr", "F7", "pause"}]
MCChar == [a |-> <<"a", None>>, two |-> <<"2", "quote">>, seven |-> <<"7", "&">>, enter |-> <<Newline, None>>,
           back |-> <<Erase, None>>, shift |-> <<None, None>>,
           caps |-> <<None, None>>, prtscr |-> <<None, None>>, F7 |-> <<None, None>>,
           pause |-> <<None, None>>] 
MCCodes == [usb |-> [a |-> 4, enter |-> 40, back |-> 42, caps |-> 57, shift |-> 225],
            ps2 |-> [a |-> <<28>>, two |-> <<30>>, seven |-> <<61>>, enter |-> <<90>>, back |-> <<102>>, shift |-> <<18>>,
                     caps |-> <<88>>, prtscr |-> <<E0, 18, E0, 124>>,
                     F7 |-> <<131>>, pause |-> <<E1, 20, 119, E1, F0, 20, F0, 119>>]]
MCBreaks == [a |-> <<F0, 28>>, two |-> <<F0, 30>>, seven |-> <<F0, 61>>, enter |-> <<F0, 90>>, back |-> <<F0, 102>>, shift |-> <<F0, 18>>,
             caps |-> <<F0, 88>>,
             prtscr |-> <<E0, F0, 124, E0, F0, 18>>, F7 |-> <<F0, 131>>, pause |-> <<>>]
(* Both keyboards feed the same terminal: calls in a row are explored under  *)
(* the USB one, the decoder's codes under the PS/2 one.                     *)
MCPresses == [usb |-> 4, ps2 |-> 3]
MCCalls == [usb |-> 2, ps2 |-> 1]
(* Nothing is claimed of what follows such a cause. *)
MCBound == Booted => cause \cap Fatal = {} \/ wire # <<>>
=============================================================================
