SPECIFICATION BufferSpec
CONSTANTS
    Cap = 6
    Bytes = {0, 1}
    MaxBlock = 4
INVARIANTS
    BufferTypeOK
    RegionsApart
PROPERTIES
    ImplementsByteQueue
