------------------------------ MODULE Keyboard ------------------------------
(***************************************************************************)
(* The keyboard interrupt (keyboard.c): it keeps one pressed flag per key, *)
(* looks for a shortcut and passes a character on to the terminal.  The    *)
(* handler runs with interrupts off, so it is one step.                    *)
(*                                                                         *)
(* Keys that the code treats alike are one key here: "a" stands for the    *)
(* keys with a character and no other meaning.  The physical keyboard is   *)
(* external.  Right Ctrl and right Alt send the byte E0, which keymap      *)
(* sends to the dummy key, and then the code of the left one.              *)
(***************************************************************************)
EXTENDS Integers, FiniteSets

CONSTANT MaxHeld    \* bound: keys held down at the same time

ASSUME KeyboardAssumption == MaxHeld \in Nat

VARIABLES
    pressed,     \* the keys whose pressed flag is set
    displayed,   \* current_terminal_index
    held,        \* external: the keys that are down
    event        \* history: the last interrupt and what it did

vars == <<pressed, displayed, held, event>>

-----------------------------------------------------------------------------
Fn == <<"f1", "f2", "f3">>

\* The keys with to_display = 1
Displayable == {"a", "i", "l", "c", "enter", "keypad_7"}

Keys == Displayable \cup {Fn[n] : n \in DOMAIN Fn} \cup
    {"left_shift", "right_shift", "left_control", "left_alt", "caps_lock",
     "backspace", "home", "delete", "page_down"}

KeysDown == (Keys \ {"keypad_7"}) \cup {"right_control", "right_alt"}

\* The key whose scan codes a physical key sends
Code(k) ==
    CASE k = "right_control" -> "left_control"
      [] k = "right_alt"     -> "left_alt"
      [] OTHER               -> k

key_pressed(k)  == [keyboard_key |-> k, orientation |-> 1]
key_released(k) == [keyboard_key |-> k, orientation |-> 0]

\* Mutant: init_keys has no entry for Caps Lock
keymap_make_NoCaps(k) == key_pressed(IF k = "caps_lock" THEN "dummy" ELSE k)

\* keymap at a make code
keymap_make(k) == key_pressed(k)

\* Mutant: the break code of left Alt is entered as a press
keymap_break_AltStuck(k) == IF k = "left_alt" THEN key_pressed(k) ELSE key_released(k)

\* keymap at a break code: the entries of Caps Lock, I, Home and Delete are wrong
keymap_break(k) ==
    CASE k = "caps_lock" -> key_pressed("caps_lock")
      [] k = "i"         -> key_released("home")
      [] k = "home"      -> key_released("keypad_7")
      [] k = "delete"    -> key_released("page_down")
      [] OTHER           -> key_released(k)

Shift(p)   == p \cap {"left_shift", "right_shift"} # {}
Control(p) == p \cap {"left_control", "right_control"} # {}
Alt(p)     == p \cap {"left_alt", "right_alt"} # {}

NoShortcut == [name |-> "none", reset |-> {}]

\* process_shortcuts: the first shortcut that matches, and the flags it resets.
\* Ctrl-C is disabled but still returns before the others are looked at.
process_shortcuts(p) ==
    LET pf == {n \in DOMAIN Fn : Fn[n] \in p}
    IN  IF Control(p) /\ "l" \in p THEN [name |-> "clear", reset |-> {}]
        ELSE IF Control(p) /\ "c" \in p THEN NoShortcut
        ELSE IF "backspace" \in p
        THEN [name |-> "backspace", reset |-> {"backspace"}]
        ELSE IF Alt(p) /\ pf # {}
        THEN LET n == CHOOSE m \in pf : \A j \in pf : m <= j
             IN  [name |-> Fn[n], reset |-> {Fn[n]}]
        ELSE NoShortcut

\* Mutant: a release types the character once more
print_key_OnRelease(k, p, shortcut) ==
    IF k \in Displayable /\ shortcut = "none"
    THEN IF Shift(p) THEN "shift_char"
         ELSE IF "caps_lock" \in p THEN "uppercase_char" ELSE "lowercase_char"
    ELSE "none"

\* Mutant: shortcut_received is not looked at
print_key_Always(k, p, shortcut) ==
    IF k \in p /\ k \in Displayable
    THEN IF Shift(p) THEN "shift_char"
         ELSE IF "caps_lock" \in p THEN "uppercase_char" ELSE "lowercase_char"
    ELSE "none"

\* print_key: the character of k that goes to terminal_add_to_buffer
print_key(k, p, shortcut) ==
    IF k \in p /\ k \in Displayable /\ shortcut = "none"
    THEN IF Shift(p) THEN "shift_char"
         ELSE IF "caps_lock" \in p THEN "uppercase_char" ELSE "lowercase_char"
    ELSE "none"

-----------------------------------------------------------------------------
Init ==
    /\ pressed = {}
    /\ displayed = 0
    /\ held = {}
    /\ event = [key |-> "a", make |-> FALSE, shortcut |-> "none", typed |-> "none"]

\* process_keypress with the keymap entry of the scan code
process_keypress(k, make) ==
    LET entry == IF make THEN keymap_make(Code(k)) ELSE keymap_break(Code(k))
        flags == IF entry.orientation = 1
                 THEN pressed \cup {entry.keyboard_key}
                 ELSE pressed \ {entry.keyboard_key}
        s     == process_shortcuts(flags)
    IN
    /\ pressed' = flags \ s.reset
    /\ displayed' = IF \E n \in DOMAIN Fn : s.name = Fn[n]
                    THEN (CHOOSE n \in DOMAIN Fn : s.name = Fn[n]) - 1
                    ELSE displayed
    /\ event' = [key |-> k, make |-> make, shortcut |-> s.name,
                 typed |-> print_key(entry.keyboard_key, pressed', s.name)]

\* A key goes down, or repeats while it is down
Press(k) ==
    /\ held' = held \cup {k}
    /\ Cardinality(held') <= MaxHeld
    /\ process_keypress(k, TRUE)

Release(k) ==
    /\ k \in held
    /\ held' = held \ {k}
    /\ process_keypress(k, FALSE)

\* keyboard_wait_for_new_line, in a process, resets the flag of Enter
ClearEnter ==
    /\ pressed' = pressed \ {"enter"}
    /\ UNCHANGED <<displayed, held, event>>

Next == (\E k \in KeysDown : Press(k) \/ Release(k)) \/ ClearEnter

Spec == Init /\ [][Next]_vars

-----------------------------------------------------------------------------
\* The flags of the keymap are those of known keys, the displayed terminal
\* exists, and each interrupt yields at most one shortcut and one character.
TypeOK ==
    /\ pressed \subseteq Keys
    /\ displayed + 1 \in DOMAIN Fn
    /\ held \subseteq KeysDown
    /\ event \in [key : KeysDown, make : BOOLEAN,
                  shortcut : {"none", "clear", "backspace"} \cup {Fn[n] : n \in DOMAIN Fn},
                  typed : {"none", "shift_char", "uppercase_char", "lowercase_char"}]

\* Shift, Control and Alt count as pressed only while one of them is down,
\* although the keymap's break codes are not all right and the right Control
\* and Alt share the flag of the left ones.
NoStuckModifier ==
    /\ Shift(pressed) => Shift(held)
    /\ Control(pressed) => Control(held)
    /\ Alt(pressed) => Alt(held)

\* A character reaches the terminal only when its key is pressed, never when a
\* key is released, and it is the shifted one exactly when a Shift is down.
TypedByPress ==
    event.typed # "none" =>
        /\ event.make
        /\ Code(event.key) \in Displayable
        /\ event.typed = "shift_char" <=> Shift(held)

\* An interrupt that runs a shortcut types nothing; a key with a character is
\* typed whenever no Control, Alt or Backspace is down.
ShortcutOrTyped ==
    /\ event.shortcut # "none" => event.typed = "none"
    /\ event.make /\ Code(event.key) \in Displayable /\ event.typed = "none"
          => Control(held) \/ Alt(held) \/ "backspace" \in held
=============================================================================
