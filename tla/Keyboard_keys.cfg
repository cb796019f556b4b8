SPECIFICATION Spec
CONSTANT
    MaxHeld = 3
INVARIANTS
    TypeOK
    NoStuckModifier
    TypedByPress
    ShortcutOrTyped

