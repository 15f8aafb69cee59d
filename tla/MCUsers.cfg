\* Profile editing: open, set names, submit or cancel, in any order.
CONSTANTS
    Typed <- MCTyped
    CreatedIn <- MCCreatedIn
INIT Init
NEXT Next
INVARIANTS
    TypeOK
    DisplayedNameNotBlank
