\* Four updates fit; a populated record has room for one less than k_t.
CONSTANTS
    w1 = w1  w2 = w2
    m1 = m1  m2 = m2
    r1 = r1
    Garbage = Garbage
    Workers <- MCWorkers
    Messages <- MCMessages
    Roots <- MCRoots
    Gens <- MCGens
    Length = 100
    k_t = 5
    MaxUpdates = 4
    MaxGens = 8
SPECIFICATION NSpec
INVARIANTS
    TypeOK
    PayloadFits
    LengthCountsLayers
    AgreesWithCiphertext
PROPERTY FreshTokenKeepsMessage
CHECK_DEADLOCK FALSE
