SPECIFICATION Spec
CONSTANTS
    old = old
    new1 = new1
    new2 = new2
    Runners <- MCRunners
    Nobody = Nobody
    Head = 4
    Image <- MCImage
    DataOnly <- MCDataOnly
    Deployed = 2
INVARIANTS TypeOK SourcesBeforeSchema UpgradesOnce
SYMMETRY Symmetry
