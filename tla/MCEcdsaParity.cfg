\* ECDSA scripts with any parity byte: the parser lets them through.
SPECIFICATION AddressSpec
CONSTANTS
    Xs <- MCXs
    Ys <- MCYs
    Parities <- AnyParities
    Slips = {}
INVARIANTS
    EcdsaAddressLeadsBack
\* A behaviour is one display, and a copy of it.
CHECK_DEADLOCK FALSE
