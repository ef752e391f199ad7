CONSTANTS
    NONE = NONE
    k1 = k1
    k2 = k2
    v1 = v1
    v2 = v2
    doc_a = doc_a
    doc_b = doc_b
    doc_c = doc_c
    doc_e = doc_e
    doc_x = doc_x
    EntryKeys <- MCEntryKeys
    Values <- MCValues
    Provenances <- MCProvenances
    Doc <- MCDoc
    Procs = {p1}
    Bytes = {doc_a, doc_b}
    Bundles <- HonestBundles
    Confs <- StrictConfs
    AcceptPolicies = {}
    Crashes = TRUE
    IoFaults = FALSE
SPECIFICATION Spec
INVARIANTS MismatchRecovers
