\* Addresses of real keys and scripts, and copies of them with a slip.
SPECIFICATION AddressSpec
CONSTANTS
    Xs <- MCXs
    Ys <- MCYs
    Parities <- MCParities
    Slips <- MCSlips
INVARIANTS
    AddressLeadsBack
    ShowsPublishedAddresses
    MiscopiedAddressIsRefused
\* A behaviour is one display, and a copy of it.
CHECK_DEADLOCK FALSE
