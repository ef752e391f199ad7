CONSTANTS
    NONE = NONE
    k1 = k1
    k2 = k2
    v1 = v1
    v2 = v2
    doc_a = doc_a
    doc_b = doc_b
    doc_c = doc_c
    doc_e = doc_e
    doc_x = doc_x
    EntryKeys <- MCEntryKeys
    Values <- MCValues
    Provenances <- MCProvenances
    Doc <- MCDoc
    Procs = {p1}
    Bytes = {doc_a, doc_e, doc_x}
    Bundles <- FlawedBundles
    Confs <- MixedConfs
    AcceptPolicies = {"off", "strict"}
    Crashes = TRUE
    IoFaults = TRUE
SPECIFICATION FairSpec
INVARIANTS TypeOK StrictMintsTrusted CacheParses BaselineWasServed StrictHistoryHolds
PROPERTIES BaselineRatchets LoadReturns
