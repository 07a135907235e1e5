\* Three messages, of which the debouncer keeps the last two.
CONSTANTS
    Msgs = {m1, m2, m3}
    MaxItems = 2
SPECIFICATION Spec
SYMMETRY Symmetry
INVARIANTS
    AnsweredOnce
    SilentWhileSilenced
PROPERTIES
    HumanReopens
