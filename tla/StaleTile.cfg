SPECIFICATION Spec
CONSTANTS
    Programs = {p, q}
    Nobody = Nobody
    Images <- MCImages
    Keys <- MCKeys
    PlaceOf <- MCPlaceOf
    Sorted <- MCSorted
    WebpOrder <- MCWebpOrder
    MaxMessages = 3
    MaxEvents = 2
SYMMETRY Symmetry
INVARIANT NoStaleTileStays
