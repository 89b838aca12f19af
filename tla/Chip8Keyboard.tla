--------------------------- MODULE Chip8Keyboard ---------------------------
(***************************************************************************)
(* keyboard.c: the 16 keys of the CHIP-8 keypad and the scan codes they    *)
(* are mapped to.  A keyboard state (what SDL_GetKeyboardState points to)  *)
(* is the set of scan codes that are down; other scan codes than the       *)
(* sixteen mapped ones may be in it.                                       *)
(***************************************************************************)
EXTENDS Naturals, FiniteSetsExt

KEYBOARD_KEYS_COUNT == 16
KeyValue == 0 .. KEYBOARD_KEYS_COUNT - 1

keymap == [ k \in KeyValue |->
  << "X", "1", "2", "3", "Q", "W", "E", "A",
     "S", "D", "Z", "C", "4", "R", "F", "V" >>[k + 1] ]

\* The array keymap has no element for a larger key value.
InKeymap(kb_value) == kb_value < KEYBOARD_KEYS_COUNT

keyboard_is_key_pressed(keyboard_state, kb_value) ==
  keymap[kb_value] \in keyboard_state

PressedKeys(keyboard_state) == { k \in KeyValue : keymap[k] \in keyboard_state }

\* keyboard_get_pressed_key scans from key 0 upwards.
keyboard_get_pressed_key(keyboard_state) == Min(PressedKeys(keyboard_state))
=============================================================================
