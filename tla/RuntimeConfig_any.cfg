SPECIFICATION Spec
CONSTANTS
    Clients = {c1, c2}
    Processes = {api}
    Servers = {api}
    Nobody = Nobody
    MaxRevisions = 3
INVARIANTS TypeOK OnlyPublishedInUse VersionsCount OneActive PublisherIsFresh
SYMMETRY Symmetry
