--------------------------- MODULE KeyboardProofs ---------------------------
(***************************************************************************)
(* Proofs about the keyboard interrupt, for every number of keys held down *)
(* at the same time.                                                       *)
(***************************************************************************)
EXTENDS Keyboard, TLAPS

-----------------------------------------------------------------------------
(* The tables                                                              *)

\* The keys of Alt-Fn, in the order of the terminals.
LEMMA FnFacts ==
    /\ DOMAIN Fn = 1 .. 3
    /\ Fn[1] = "f1" /\ Fn[2] = "f2" /\ Fn[3] = "f3"
    /\ {Fn[n] : n \in DOMAIN Fn} = {"f1", "f2", "f3"}
BY DEF Fn

\* The scan codes of the right Control and Alt are those of the left ones.
LEMMA CodeFacts ==
    ASSUME NEW k
    PROVE  /\ k = "right_control" => Code(k) = "left_control"
           /\ k = "right_alt" => Code(k) = "left_alt"
           /\ k \notin {"right_control", "right_alt"} => Code(k) = k
BY Zenon DEF Code

\* The break codes: four wrong entries, the others release their own key.
LEMMA BreakFacts ==
    ASSUME NEW k
    PROVE  /\ k = "caps_lock" => keymap_break(k) = key_pressed("caps_lock")
           /\ k = "i" => keymap_break(k) = key_released("home")
           /\ k = "home" => keymap_break(k) = key_released("keypad_7")
           /\ k = "delete" => keymap_break(k) = key_released("page_down")
           /\ k \notin {"caps_lock", "i", "home", "delete"} => keymap_break(k) = key_released(k)
BY Zenon DEF keymap_break

\* process_shortcuts finds at most one shortcut, needs a key of it in the flags
\* and resets no flag but that of Backspace or of a function key.
LEMMA ShortcutFacts ==
    ASSUME NEW p
    PROVE  LET s == process_shortcuts(p) IN
           /\ s.name \in {"none", "clear", "backspace", "f1", "f2", "f3"}
           /\ s.reset \subseteq {"backspace", "f1", "f2", "f3"}
           /\ s.name # "none" => Control(p) \/ "backspace" \in p \/ Alt(p)
<1> DEFINE pf == {n \in DOMAIN Fn : Fn[n] \in p}
           n == CHOOSE m \in pf : \A j \in pf : m <= j
           fn == [name |-> Fn[n], reset |-> {Fn[n]}]
<1>1. CASE Control(p) /\ "l" \in p
  BY <1>1 DEF process_shortcuts
<1>2. CASE ~(Control(p) /\ "l" \in p) /\ Control(p) /\ "c" \in p
  BY <1>2 DEF process_shortcuts, NoShortcut
<1>3. CASE /\ ~(Control(p) /\ "l" \in p) /\ ~(Control(p) /\ "c" \in p)
           /\ "backspace" \in p
  BY <1>3 DEF process_shortcuts
<1>4. CASE /\ ~(Control(p) /\ "l" \in p) /\ ~(Control(p) /\ "c" \in p)
           /\ "backspace" \notin p /\ Alt(p) /\ pf # {}
  <2>1. \E m \in pf : \A j \in pf : m <= j
    <3>1. pf \subseteq 1 .. 3
      BY FnFacts
    <3>2. pf # {}
      BY <1>4
    <3> HIDE DEF pf
    <3>3. CASE 1 \in pf
      BY <3>1, <3>3
    <3>4. CASE 1 \notin pf /\ 2 \in pf
      <4>1. \A j \in pf : 2 <= j
        BY <3>1, <3>4
      <4> QED
        BY <3>4, <4>1
    <3>5. CASE 1 \notin pf /\ 2 \notin pf
      <4>1. \A j \in pf : j = 3
        BY <3>1, <3>5
      <4>2. PICK m \in pf : m = 3
        BY <3>2, <4>1
      <4> QED
        BY <4>1, <4>2
    <3> QED
      BY <3>3, <3>4, <3>5
  <2>2. n \in pf
    <3> HIDE DEF pf
    <3> QED
      BY <2>1
  <2>3. Fn[n] \in {"f1", "f2", "f3"}
    BY <2>2, FnFacts
  <2>4. process_shortcuts(p) = fn
    BY <1>4, Zenon DEF process_shortcuts
  <2> HIDE DEF n
  <2> QED
    BY <1>4, <2>3, <2>4
<1>5. CASE /\ ~(Control(p) /\ "l" \in p) /\ ~(Control(p) /\ "c" \in p)
           /\ "backspace" \notin p /\ ~(Alt(p) /\ pf # {})
  BY <1>5, Zenon DEF process_shortcuts, NoShortcut
<1> QED
  BY <1>1, <1>2, <1>3, <1>4, <1>5

-----------------------------------------------------------------------------
(* The invariant                                                           *)

\* The flags of the modifiers against the keys that are down.  The flags of the
\* two Shift keys are exact; those of left Control and left Alt, and that of
\* Backspace, may be off while a key is down but not on while none is.
FlagsMatch ==
    /\ \A k \in {"left_shift", "right_shift"} : k \in pressed <=> k \in held
    /\ "left_control" \in pressed => Control(held)
    /\ "left_alt" \in pressed => Alt(held)
    /\ "backspace" \in pressed => "backspace" \in held

KeyInv == TypeOK /\ FlagsMatch /\ TypedByPress /\ ShortcutOrTyped

\* One interrupt, for the key k that goes down or comes up.
LEMMA KeyStep ==
    ASSUME KeyInv, NEW k \in KeysDown, NEW make \in BOOLEAN,
           held' = IF make THEN held \cup {k} ELSE held \ {k},
           process_keypress(k, make)
    PROVE  KeyInv'
<1> DEFINE entry == IF make THEN keymap_make(Code(k)) ELSE keymap_break(Code(k))
           key   == entry.keyboard_key
           flags == IF entry.orientation = 1 THEN pressed \cup {key} ELSE pressed \ {key}
           s     == process_shortcuts(flags)
<1>1. /\ pressed' = flags \ s.reset
      /\ displayed' = IF \E n \in DOMAIN Fn : s.name = Fn[n]
                      THEN (CHOOSE n \in DOMAIN Fn : s.name = Fn[n]) - 1
                      ELSE displayed
      /\ event' = [key |-> k, make |-> make, shortcut |-> s.name,
                   typed |-> print_key(key, pressed', s.name)]
  BY Zenon DEF process_keypress
<1>2. /\ make => entry = key_pressed(Code(k))
      /\ ~make => entry = keymap_break(Code(k))
  BY DEF keymap_make
<1>3. /\ s.name \in {"none", "clear", "backspace", "f1", "f2", "f3"}
      /\ s.reset \subseteq {"backspace", "f1", "f2", "f3"}
      /\ s.name # "none" => Control(flags) \/ "backspace" \in flags \/ Alt(flags)
  BY ShortcutFacts
<1> HIDE DEF s
<1>4. Code(k) \in Keys
  BY CodeFacts, FnFacts DEF KeysDown, Keys
<1>5. /\ flags = IF make \/ k = "caps_lock" THEN pressed \cup {key} ELSE pressed \ {key}
      /\ make => key = Code(k)
      /\ ~make => \/ k = "caps_lock" /\ key = k
                  \/ k = "i" /\ key = "home"
                  \/ k = "home" /\ key = "keypad_7"
                  \/ k = "delete" /\ key = "page_down"
                  \/ k \notin {"caps_lock", "i", "home", "delete"} /\ key = Code(k)
  <2>1. CASE make
    BY <1>2, <2>1 DEF key_pressed
  <2>2. CASE ~make /\ k \in {"right_control", "right_alt"}
    BY <1>2, <2>2, CodeFacts, BreakFacts DEF key_released
  <2>3. CASE ~make /\ k \notin {"right_control", "right_alt"}
    BY <1>2, <2>3, CodeFacts, BreakFacts DEF key_released, key_pressed
  <2> QED
    BY <2>1, <2>2, <2>3
<1> HIDE DEF entry, flags
<1>6. TypeOK'
  <2>1. pressed' \subseteq Keys
    BY <1>1, <1>4, <1>5, FnFacts DEF KeyInv, TypeOK, Keys, Displayable
  <2>2. displayed' + 1 \in DOMAIN Fn
    <3>1. CASE \E n \in DOMAIN Fn : s.name = Fn[n]
      <4> DEFINE m == CHOOSE n \in DOMAIN Fn : s.name = Fn[n]
      <4>1. m \in DOMAIN Fn
        BY <3>1, Zenon
      <4>2. displayed' = m - 1
        BY <1>1, <3>1
      <4> HIDE DEF m
      <4> QED
        BY <4>1, <4>2, FnFacts
    <3>2. CASE ~\E n \in DOMAIN Fn : s.name = Fn[n]
      BY <1>1, <3>2 DEF KeyInv, TypeOK
    <3> QED
      BY <3>1, <3>2
  <2>3. held' \subseteq KeysDown
    BY DEF KeyInv, TypeOK
  <2>4. print_key(key, pressed', s.name)
            \in {"none", "shift_char", "uppercase_char", "lowercase_char"}
    BY Zenon DEF print_key
  <2> QED
    BY <1>1, <1>3, <2>1, <2>2, <2>3, <2>4, FnFacts DEF TypeOK
<1>7. FlagsMatch'
  <2>1. \A j \in {"left_shift", "right_shift"} : (j \in pressed <=> j \in held)'
    BY <1>1, <1>3, <1>5, CodeFacts DEF KeyInv, FlagsMatch
  <2>2. ("left_control" \in pressed => Control(held))'
    BY <1>1, <1>3, <1>5, CodeFacts DEF KeyInv, FlagsMatch, Control
  <2>3. ("left_alt" \in pressed => Alt(held))'
    BY <1>1, <1>3, <1>5, CodeFacts DEF KeyInv, FlagsMatch, Alt
  <2>4. ("backspace" \in pressed => "backspace" \in held)'
    BY <1>1, <1>3, <1>5, CodeFacts DEF KeyInv, FlagsMatch
  <2> QED
    BY <2>1, <2>2, <2>3, <2>4 DEF FlagsMatch
<1>8. /\ Shift(pressed') <=> Shift(held')
      /\ Control(flags) => Control(held')
      /\ Alt(flags) => Alt(held')
      /\ "backspace" \in flags => "backspace" \in held'
  <2>1. Shift(pressed') <=> Shift(held')
    BY <1>7 DEF FlagsMatch, Shift
  <2>2. {"right_control", "right_alt"} \cap flags = {}
    <3>1. {"right_control", "right_alt"} \cap (pressed \cup {key}) = {}
      BY <1>4, <1>5, FnFacts DEF KeyInv, TypeOK, Keys, Displayable
    <3> QED
      BY <1>5, <3>1
  <2>3. "left_control" \in flags => Control(held')
    BY <1>1, <1>3, <1>7 DEF FlagsMatch
  <2>4. "left_alt" \in flags => Alt(held')
    BY <1>1, <1>3, <1>7 DEF FlagsMatch
  <2>5. "backspace" \in flags => "backspace" \in held'
    BY <1>5, CodeFacts DEF KeyInv, FlagsMatch
  <2> QED
    BY <2>1, <2>2, <2>3, <2>4, <2>5 DEF Control, Alt
<1>9. TypedByPress'
  <2> SUFFICES ASSUME event'.typed # "none"
               PROVE  /\ event'.make
                      /\ Code(event'.key) \in Displayable
                      /\ event'.typed = "shift_char" <=> Shift(held')
    BY DEF TypedByPress
  <2>1. event'.typed = print_key(key, pressed', s.name) /\ event'.make = make /\ event'.key = k
    BY <1>1
  <2>2. key \in pressed' /\ key \in Displayable
    BY <2>1 DEF print_key
  <2>3. make
    BY <1>1, <1>5, <2>2 DEF Displayable
  <2>4. event'.typed = "shift_char" <=> Shift(pressed')
    BY <2>1 DEF print_key
  <2> QED
    BY <1>5, <1>8, <2>1, <2>2, <2>3, <2>4
<1>10. ShortcutOrTyped'
  <2>1. /\ event'.typed = print_key(key, pressed', s.name) /\ event'.make = make
        /\ event'.key = k /\ event'.shortcut = s.name
    BY <1>1
  <2>2. event'.shortcut # "none" => event'.typed = "none"
    BY <2>1 DEF print_key
  <2>3. ASSUME event'.make, Code(event'.key) \in Displayable, event'.typed = "none"
        PROVE  Control(held') \/ Alt(held') \/ "backspace" \in held'
    <3>1. key \in Displayable /\ key \in flags
      BY <1>5, <2>1, <2>3
    <3>2. key \in pressed'
      BY <1>1, <1>3, <3>1 DEF Displayable
    <3>3. s.name # "none"
      BY <2>1, <2>3, <3>1, <3>2 DEF print_key
    <3> QED
      BY <1>3, <1>8, <3>3
  <2> QED
    BY <2>2, <2>3 DEF ShortcutOrTyped
<1> QED
  BY <1>6, <1>7, <1>9, <1>10 DEF KeyInv

\* The invariant holds always.
LEMMA KeyAlways == Spec => []KeyInv
<1>1. Init => KeyInv
  <2> SUFFICES ASSUME Init PROVE KeyInv
    OBVIOUS
  <2>1. TypeOK
    BY FnFacts DEF Init, TypeOK, KeysDown, Keys, Displayable
  <2> QED
    BY <2>1 DEF Init, KeyInv, FlagsMatch, TypedByPress, ShortcutOrTyped
<1>2. KeyInv /\ [Next]_vars => KeyInv'
  <2> SUFFICES ASSUME KeyInv, [Next]_vars
               PROVE  KeyInv'
    OBVIOUS
  <2>1. ASSUME NEW k \in KeysDown, Press(k)
        PROVE  KeyInv'
    BY <2>1, KeyStep DEF Press
  <2>2. ASSUME NEW k \in KeysDown, Release(k)
        PROVE  KeyInv'
    BY <2>2, KeyStep DEF Release
  <2>3. CASE ClearEnter
    BY <2>3 DEF ClearEnter, KeyInv, TypeOK, FlagsMatch, TypedByPress, ShortcutOrTyped
  <2>4. CASE UNCHANGED vars
    BY <2>4 DEF vars, KeyInv, TypeOK, FlagsMatch, TypedByPress, ShortcutOrTyped
  <2> QED
    BY <2>1, <2>2, <2>3, <2>4 DEF Next
<1> QED
  BY <1>1, <1>2, PTL DEF Spec

\* The flags are those of known keys, and the terminal that Alt-Fn selects exists.
THEOREM KeyboardTypeCorrect == Spec => []TypeOK
<1>1. KeyInv => TypeOK
  BY DEF KeyInv
<1> QED
  BY <1>1, KeyAlways, PTL

\* No modifier stays on after its keys are up, whatever the wrong break codes of
\* keymap do to the other flags.
THEOREM ModifiersReleased == Spec => []NoStuckModifier
<1>1. KeyInv => NoStuckModifier
  <2> SUFFICES ASSUME KeyInv PROVE NoStuckModifier
    OBVIOUS
  <2>1. {"right_control", "right_alt"} \cap pressed = {}
    BY FnFacts DEF KeyInv, TypeOK, Keys, Displayable
  <2> QED
    BY <2>1 DEF KeyInv, FlagsMatch, NoStuckModifier, Shift, Control, Alt
<1> QED
  BY <1>1, KeyAlways, PTL

\* A character reaches the terminal on the press of its own key only, and shifted
\* exactly when a Shift is down (print_key).
THEOREM TypedOnPress == Spec => []TypedByPress
<1>1. KeyInv => TypedByPress
  BY DEF KeyInv
<1> QED
  BY <1>1, KeyAlways, PTL

\* A shortcut types nothing, and without Control, Alt and Backspace every
\* displayable key is typed (process_shortcuts, print_key).
THEOREM ShortcutsExclusive == Spec => []ShortcutOrTyped
<1>1. KeyInv => ShortcutOrTyped
  BY DEF KeyInv
<1> QED
  BY <1>1, KeyAlways, PTL
=============================================================================
