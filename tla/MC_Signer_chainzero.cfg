SPECIFICATION SSpec
CONSTANTS
    ChainIds <- MCChainIds
    Width = 16
INVARIANT
    SignerRoundTrip
