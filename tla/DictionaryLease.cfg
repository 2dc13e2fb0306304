CONSTANTS
    Holders = {h1, h2, h3}
SPECIFICATION Spec
INVARIANTS FlocksFit RestoreNeverWaits
PROPERTIES ImplementsLease PublicationEnds
