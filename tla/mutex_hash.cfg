\* Three clients, one file and the name "" of a dead client, in one chain of
\* up to three entries.
CONSTANTS
    Clients = {c1, c2, c3}
    Modifiers = {}
    Files = {f1}
    EmptyName = noname
    None = none
    Entries = {e1, e2, e3}
    Hashes = {h}
    Hash <- OneChain
SPECIFICATION Spec
INVARIANTS TypeOK ChainsWellFormed CorrectUnlessStale
SYMMETRY Symmetry
CHECK_DEADLOCK FALSE
