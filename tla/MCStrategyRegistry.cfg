SPECIFICATION Spec
CONSTANTS
    Empty = Empty
    Garbled = Garbled
    Versions = {v1, v2}
    Savers = {s1}
    Syncers = {y1}
    Readers = {r1}
    MaxSpecs = 3

    
PROPERTIES
    
    SyncAllCovers
