SPECIFICATION TrustSpec
CONSTANTS
    Root = "k0"
    NoKey = "no key"
    None = None
    Manifests <- MCManifests
    Addresses <- MCAddresses
    MaxLinks = 2
    Updaters = {"u"}
INVARIANT JunkNeverCrowdsOut
CHECK_DEADLOCK FALSE
