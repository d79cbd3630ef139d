CONSTANTS
    Bundles = {b1, b2}
    NoBundle = none
    MaxSecrets = 3
SPECIFICATION Spec
PROPERTY
    CacheIsAtomic
