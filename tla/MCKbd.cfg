CONSTANTS
    Keyboard <- SmallKeyboard
    MaxWire = 2
    Mishaps = {}
SPECIFICATION KbdSpec
INVARIANTS
    ModifiersMatch
    TypedAsPressed
    SelectedAsAsked
