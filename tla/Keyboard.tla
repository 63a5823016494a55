----------------------------- MODULE Keyboard ------------------------------
(***************************************************************************)
(* The keyboard driver (kbd.c): scan codes to characters, with the state   *)
(* of the shift keys and of Caps Lock.  Characters are ASCII codes.  The   *)
(* keymaps have some keys of every kind; the count of keys, a statistic,   *)
(* is left out.  `key_down', `legend_text' and `three_keys' follow the     *)
(* keys themselves: the shift keys held, what the legends of the keys say, *)
(* and whether Ctrl+Alt+Del was pressed.                                   *)
(***************************************************************************)
EXTENDS Integers, Sequences

CONSTANT KbdRoom        \* characters that the input buffer can hold

VARIABLES
  shift_state,          \* left_shift ... right_ctrl, by scan code
  caps_lock,
  kbd_input,            \* the input buffer
  rebooted,
  key_down, legend_text, three_keys

kbdVars == <<shift_state, caps_lock, kbd_input, rebooted, key_down, legend_text, three_keys>>

Prefix == 224 * 256     \* 0xe0 as first byte
Break == 128            \* the bit of a release
CapsLock == 58

\* shift_keys
ShiftCodes == {42, 54}
AltCodes == {56, Prefix + 56}
CtrlCodes == {29, Prefix + 29}
shift_keys == ShiftCodes \cup AltCodes \cup CtrlCodes

\* A keymap is a set of first scan codes, each with the characters from there on.
invariant_keymap == {<<15, <<9, 81>>>>, <<30, <<65>>>>, <<57, <<32>>>>, <<83, <<127>>>>}
unshifted_keymap == {<<2, <<49, 50>>>>, <<26, <<91>>>>}
shifted_keymap == {<<2, <<33, 64>>>>, <<26, <<123>>>>}

\* The characters for a scan code: one at most.
map_key(keymap, scancode) ==
  {k[2][scancode - k[1] + 1] :
     k \in {m \in keymap : scancode \in m[1] .. m[1] + Len(m[2]) - 1}}

tolower(c) == IF c \in 65 .. 90 THEN c + 32 ELSE c

KeyboardInit ==
  /\ shift_state = [k \in shift_keys |-> FALSE]
  /\ caps_lock = FALSE /\ kbd_input = <<>> /\ rebooted = FALSE
  /\ key_down = {} /\ legend_text = <<>> /\ three_keys = FALSE

shift == \E k \in ShiftCodes : shift_state[k]
alt == \E k \in AltCodes : shift_state[k]
ctrl == \E k \in CtrlCodes : shift_state[k]

CharsOf(code) ==
  map_key(invariant_keymap, code)
    \cup map_key(IF shift THEN shifted_keymap ELSE unshifted_keymap, code)

\* Ctrl and the case of letters, then Alt.
Modified(c) ==
  (IF ctrl /\ c \in 64 .. 95 THEN c - 64
   ELSE IF shift = caps_lock THEN tolower(c) ELSE c) + (IF alt THEN 128 ELSE 0)

keyboard_interrupt(raw) ==
  LET release == (raw \div Break) % 2 = 1
      code == IF release THEN raw - Break ELSE raw
      full == Len(kbd_input) = KbdRoom
  IN  \/ /\ code = CapsLock
         /\ caps_lock' = (caps_lock # ~release)
         /\ UNCHANGED <<shift_state, kbd_input, rebooted>>
      \/ /\ code # CapsLock
         /\ \E c \in CharsOf(code) :
              IF release THEN UNCHANGED <<kbd_input, rebooted>>
              ELSE IF c = 127 /\ ctrl /\ alt
              THEN rebooted' = TRUE /\ UNCHANGED kbd_input
              ELSE /\ kbd_input' = IF full THEN kbd_input ELSE Append(kbd_input, Modified(c))
                   /\ UNCHANGED rebooted
         /\ UNCHANGED <<shift_state, caps_lock>>
      \/ /\ code # CapsLock /\ CharsOf(code) = {}
         /\ shift_state' = [k \in shift_keys |-> IF k = code THEN ~release ELSE shift_state[k]]
         /\ UNCHANGED <<caps_lock, kbd_input, rebooted>>

-----------------------------------------------------------------------------
\* What is printed on the keys: alone, with Shift, with Ctrl, and with both.
Legend == [k \in {2, 3, 15, 16, 26, 30, 57, 83} |->
  CASE k = 2 -> <<49, 33, 49, 33>> [] k = 3 -> <<50, 64, 50, 0>>
    [] k = 15 -> <<9, 9, 9, 9>> [] k = 16 -> <<113, 81, 17, 17>>
    [] k = 26 -> <<91, 123, 27, 123>> [] k = 30 -> <<97, 65, 1, 1>>
    [] k = 57 -> <<32, 32, 32, 32>> [] k = 83 -> <<127, 127, 127, 127>>]
LetterKeys == {16, 30}
\* Keys that send a prefix and mean nothing here: Enter and Delete of the key pads,
\* and the shift that goes with them.
OtherKeys == {Prefix + 28, Prefix + 83, Prefix + 42}

\* A key goes down, or repeats, or goes up.  Shift keys go up only if they are down.
Press(k) ==
  LET isDown(codes) == key_down \cap codes # {}
      shifted == isDown(ShiftCodes) # (caps_lock /\ k \in LetterKeys)
      column == (IF isDown(CtrlCodes) THEN 2 ELSE 0) + (IF shifted THEN 2 ELSE 1)
      reboots == k = 83 /\ isDown(CtrlCodes) /\ isDown(AltCodes)
  IN  /\ keyboard_interrupt(k)
      /\ key_down' = key_down \cup ({k} \cap shift_keys)
      /\ three_keys' = (three_keys \/ reboots)
      /\ legend_text' =
           IF k \in DOMAIN Legend /\ ~reboots /\ Len(legend_text) < KbdRoom
           THEN Append(legend_text, Legend[k][column] + (IF isDown(AltCodes) THEN 128 ELSE 0))
           ELSE legend_text

KeyUp(k) ==
  /\ k \in shift_keys => k \in key_down
  /\ keyboard_interrupt(k + Break)
  /\ key_down' = key_down \ {k}
  /\ UNCHANGED <<legend_text, three_keys>>

\* input_getc, by a reader.
KeyRead ==
  /\ kbd_input # <<>>
  /\ kbd_input' = Tail(kbd_input) /\ legend_text' = Tail(legend_text)
  /\ UNCHANGED <<shift_state, caps_lock, rebooted, key_down, three_keys>>

KeyboardNext ==
  \/ /\ ~rebooted
     /\ \E k \in DOMAIN Legend \cup shift_keys \cup OtherKeys \cup {CapsLock} : Press(k) \/ KeyUp(k)
  \/ ~rebooted /\ KeyRead

\* keyboard_interrupt: the shift state is that of the keys held, whatever was pressed,
\* repeated or released in between; a character is what the legend of its key says,
\* Caps Lock changing letters only; Ctrl+Alt+Del, and nothing else, reboots.
KeyboardExact ==
  /\ {k \in shift_keys : shift_state[k]} = key_down
  /\ kbd_input = legend_text
  /\ rebooted = three_keys
=============================================================================
