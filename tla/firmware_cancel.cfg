SPECIFICATION Spec
CONSTANTS
    MaxOperations = 2
    Starters = {"pull"}
INVARIANT
    HonestCancel
