SPECIFICATION JournalSpec
CONSTANTS
    q1 = q1  q2 = q2  n1 = n1  n2 = n2  b1 = b1  b2 = b2  c1 = c1  c2 = c2
    g1 = g1  g2 = g2  done = done  failed = failed
    RequestIds <- MCRequestIds
    Nonces <- MCNonces
    Bodies <- MCBodies
    Correlations <- MCCorrelations
    Answers <- MCResults
    Generations <- MCGenerations
    NoResponse = NoResponse
    MaxTokens = 4
SYMMETRY Symmetry
CHECK_DEADLOCK FALSE
INVARIANTS
    EvidenceSound
PROPERTIES
    LedgerRefinement
