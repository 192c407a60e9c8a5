------------------------------ MODULE Keyboard ------------------------------
(***************************************************************************)
(* From keys to characters: the reports of a USB keyboard (xhci_keyboard.c) *)
(* and the scan codes of a PS/2 keyboard (ps2_driver.c, scan code set 2).  *)
(* A key map gives a key's characters without and with shift; "none" is    *)
(* the zero entry.                                                         *)
(***************************************************************************)
EXTENDS Tty   \* tty.h: what the keyboards feed

None == "none"
Tab == "tab"
Letters == <<"a", "b", "c", "d", "e", "f", "g", "h", "i", "j", "k", "l", "m",
             "n", "o", "p", "q", "r", "s", "t", "u", "v", "w", "x", "y", "z">>
Capitals == <<"A", "B", "C", "D", "E", "F", "G", "H", "I", "J", "K", "L", "M",
              "N", "O", "P", "Q", "R", "S", "T", "U", "V", "W", "X", "Y", "Z">>
toupper(c) == IF \E i \in DOMAIN Letters : Letters[i] = c
              THEN Capitals[CHOOSE i \in DOMAIN Letters : Letters[i] = c] ELSE c

(* key_map: the keycodes from 4 on, without and with shift. *)
UsbPlain == Letters \o <<"1", "2", "3", "4", "5", "6", "7", "8", "9", "0", Newline, None, Erase, Tab, " ",
                         "-", "=", "[", "]", "backslash", "#", ";", "'", "grave", ",", ".", "/">>
UsbShifted == Capitals \o <<"!", "@", "#", "$", "%", "^", "&", "*", "(", ")", Newline, None, Erase, Tab, " ",
                            "_", "+", "{", "}", "|", "~", ":", "quote", "~", "<", ">", "?">>
key_map == [k \in 0 .. 255 |-> IF k - 3 \in DOMAIN UsbPlain THEN <<UsbPlain[k - 3], UsbShifted[k - 3]>>
                               ELSE <<None, None>>]

(* lookup_nonextended: the scan codes of a to z, and the keys with a second *)
(* character or none.                                                      *)
LetterCodes == <<28, 50, 33, 35, 36, 43, 52, 51, 67, 59, 66, 75, 58, 49, 68, 77,
                 21, 45, 27, 44, 60, 42, 29, 34, 53, 26>>
OtherCodes == <<22, 30, 38, 37, 46, 54, 61, 62, 70, 69, 78, 85, 90, 102, 41, 74, 73, 65, 93, 76, 82>>
OtherPlain == <<"1", "2", "3", "4", "5", "6", "7", "8", "9", "0", "-", "=", Newline, Erase, " ",
                "/", ".", ",", "backslash", ";", "'">>
OtherShifted == <<"!", "quote", None, "$", "%", "^", "!", "*", "(", ")", "_", "+", None, None, None,
                  "?", ">", "<", "|", ":", "@">>
lookup_nonextended ==
    [k \in 0 .. 127 |->
       IF k \in Range(LetterCodes) THEN <<Letters[CHOOSE i \in DOMAIN LetterCodes : LetterCodes[i] = k], None>>
       ELSE IF k \in Range(OtherCodes)
       THEN LET i == CHOOSE j \in DOMAIN OtherCodes : OtherCodes[j] = k IN <<OtherPlain[i], OtherShifted[i]>>
       ELSE <<None, None>>]

UsbShift == {225, 229}          \* 0xE1, 0xE5
UsbCaps  == 57                  \* 0x39

(* handle_keypress: shift and caps lock are what they are told last. *)
handle_keypress(st, code, isBreak) ==
    LET s == [st EXCEPT !.shift = IF code \in UsbShift THEN ~isBreak ELSE @,
                        !.caps  = IF code = UsbCaps THEN ~isBreak ELSE @]
        c == key_map[code][IF s.shift THEN 2 ELSE 1]
    IN [st |-> s, char |-> IF isBreak THEN None ELSE IF s.caps THEN toupper(c) ELSE c]

(* Mutant: a key that is still down is pressed again. *)
MutPacketKeys(old, new) ==
    [k \in 1 .. Len(old) |-> [code |-> old[k], brk |-> TRUE]]
    \o [k \in 1 .. Len(new) |-> [code |-> new[k], brk |-> FALSE]]
(* packet_recv: which keys were let go and which went down between two     *)
(* reports (0 is an empty place).                                          *)
PacketKeys(old, new) ==
    LET gone == SelectSeq(old, LAMBDA k : k # 0 /\ \A i \in DOMAIN new : new[i] # k)
        came == SelectSeq(new, LAMBDA k : k # 0 /\ \A i \in DOMAIN old : old[i] # k)
    IN [i \in 1 .. Len(gone) |-> [code |-> gone[i], brk |-> TRUE]]
       \o [i \in 1 .. Len(came) |-> [code |-> came[i], brk |-> FALSE]]

(* The characters a report gives, with the keyboard's state after it. *)
packet_chars(st, new) ==
    LET step(acc, e) == LET r == handle_keypress(acc.st, e.code, e.brk) IN
                        [st |-> r.st, chars |-> Append(acc.chars, r.char)]
        end == FoldLeft(step, [st |-> st, chars |-> <<>>], PacketKeys(st.report, new))
    IN [end EXCEPT !.st.report = new]

-----------------------------------------------------------------------------
LEFT_SHIFT == 18                \* 0x12
RIGHT_SHIFT == 89               \* 0x59
CAPS_LOCK == 88                 \* 0x58
E0 == 224
E1 == 225
F0 == 240
Ignored == {<<E1, 20, 119, E1, F0, 20, E0, 119>>, <<E0, 18, E0, 124>>,
            <<E0, F0, 124, E0, F0, 18>>}

(* parse_full_buffer: data holds the bytes of one code, oldest first. *)
parse_full_buffer(kb, data) ==
    LET n == Len(data)
        byte(i) == IF i <= n THEN data[n + 1 - i] ELSE 0      \* 1 is the last
        code == byte(1)
        isBreak == byte(2) = F0
        isExtended == byte(2) = E0 \/ byte(3) = E0
        bad == IF byte(3) = E0 THEN byte(2) # F0
               ELSE byte(3) # 0 \/ byte(2) \notin {0, E0, F0}
        row == lookup_nonextended[code]
        value == IF kb.shift /\ row[2] # None THEN row[2] ELSE row[1]
        give(k, c, h) == [kb |-> k, char |-> c, halt |-> h]
    IN CASE data \in Ignored -> give(kb, None, FALSE)
         [] data \notin Ignored /\ bad -> give(kb, None, TRUE)
         [] data \notin Ignored /\ ~bad /\ ~isExtended /\ code = CAPS_LOCK ->
              give([kb EXCEPT !.caps = IF isBreak THEN @ ELSE ~@], None, FALSE)
         [] data \notin Ignored /\ ~bad /\ ~isExtended /\ code \in {LEFT_SHIFT, RIGHT_SHIFT} ->
              give([kb EXCEPT !.shift = ~isBreak], None, FALSE)
         [] OTHER ->
              IF isBreak THEN give(kb, None, FALSE)
              ELSE IF code >= 128 THEN give(kb, None, TRUE)
              ELSE give(kb, IF kb.shift \/ kb.caps THEN toupper(value) ELSE value, FALSE)

(* handle_incoming_byte, for one byte: prefixes ask for one byte more, the *)
(* first byte of pause for seven in all.  The buffer keeps 64 bits.        *)
handle_incoming_byte(kb, b) ==
    LET data == LET d == Append(kb.data, b) IN IF Len(d) > 8 THEN Tail(d) ELSE d
        want == (IF b = E1 THEN 7 ELSE IF b \in {E0, F0} THEN kb.want + 1 ELSE kb.want) - 1
    IN IF want > 0 THEN [kb |-> [kb EXCEPT !.data = data, !.want = want],
                         char |-> None, halt |-> FALSE]
       ELSE parse_full_buffer([kb EXCEPT !.data = <<>>, !.want = 1], data)

-----------------------------------------------------------------------------
(* initialise_ps2: what it sends and what it must read next.  A command to *)
(* the controller or a byte to the keyboard brings its answers; "flush"    *)
(* throws away what is there; "fa aa" reads two bytes in either order.     *)
ControllerCommand == [DISABLE_FIRST_PORT |-> << >>, DISABLE_SECOND_PORT |-> << >>,
    ENABLE_FIRST_PORT |-> << >>, ENABLE_SECOND_PORT |-> << >>,
    READ_CONTROLLER_CONFIGURATION |-> <<0>>, WRITE_CONTROLLER_CONFIGURATION |-> << >>,
    TEST_CONTROLLER |-> <<85>>, TEST_FIRST_PORT |-> <<0>>, TEST_SECOND_PORT |-> <<0>>]
FA == 250
KeyboardCommand == [KB_RESTART_AND_TEST |-> <<FA, 170>>, KB_SET_GET_SCAN_CODE |-> <<FA>>,
    SCANCODE_VERSION |-> <<FA>>, KB_ENABLE_SCANNING |-> <<FA>>]

send_command(command) == [op |-> "send", bytes |-> ControllerCommand[command]]
send_byte_to_first_ps2(data) == [op |-> "send", bytes |-> KeyboardCommand[data]]
blocking_read_data(expected) == [op |-> "read", bytes |-> <<expected>>]
wait_for_fa_aa == [op |-> "fa aa", bytes |-> <<FA, 170>>]
Flush == [op |-> "flush", bytes |-> <<>>]
initialise_ps2 == <<
    send_command("DISABLE_FIRST_PORT"), send_command("DISABLE_SECOND_PORT"), Flush,
    send_command("READ_CONTROLLER_CONFIGURATION"), blocking_read_data(0),
    send_command("WRITE_CONTROLLER_CONFIGURATION"),
    send_command("TEST_CONTROLLER"), blocking_read_data(85),
    send_command("TEST_FIRST_PORT"), blocking_read_data(0),
    send_command("TEST_SECOND_PORT"), blocking_read_data(0),
    send_command("ENABLE_FIRST_PORT"), send_command("ENABLE_SECOND_PORT"),
    send_byte_to_first_ps2("KB_RESTART_AND_TEST"), wait_for_fa_aa, Flush,
    send_byte_to_first_ps2("KB_SET_GET_SCAN_CODE"), blocking_read_data(FA),
    send_byte_to_first_ps2("SCANCODE_VERSION"), blocking_read_data(FA),
    send_byte_to_first_ps2("KB_ENABLE_SCANNING"), blocking_read_data(FA) >>
PortOff == 2 .. 6       \* next steps at which the keyboard cannot send: the
                        \* configuration byte switches the port on again

(* One step of it: the bytes at the port after it, and whether what was    *)
(* read is what the code asserts.                                          *)
BootStep(s, wire) ==
    CASE s.op = "send"  -> [wire |-> wire \o [i \in DOMAIN s.bytes |->
                                                [byte |-> s.bytes[i], char |-> None]],
                            ok |-> TRUE]
      [] s.op = "flush" -> [wire |-> <<>>, ok |-> TRUE]
      [] s.op = "read"  -> [wire |-> Tail(wire), ok |-> Head(wire).byte = s.bytes[1]]
      [] s.op = "fa aa" -> [wire |-> SubSeq(wire, 3, Len(wire)),
                            ok |-> {wire[1].byte, wire[2].byte} = Range(s.bytes)]
=============================================================================
