\* The dump of a storage, chunk by chunk.
SPECIFICATION DumpSpec
CONSTANTS
    NofKeys <- MCNofKeys
    ChunkRows = 2
PROPERTIES
    DumpComplete
