\* An empty file and one of two chunks.
CONSTANT
    Chunks = {0, 1}
SPECIFICATION Spec
INVARIANTS
    ReleasedOnce
    DurableBeforeAnswer
