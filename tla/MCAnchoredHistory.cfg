CONSTANTS
    NONE = NONE
    k1 = k1
    k2 = k2
    v1 = v1
    v2 = v2
    p1 = p1
    p2 = p2
    EntryKeys <- MCEntryKeys
    Values <- MCValues
    Provenances <- MCProvenances
    Candidates <- MCCandidates
SPECIFICATION AnchoredSpec
INVARIANTS HistoryKept
