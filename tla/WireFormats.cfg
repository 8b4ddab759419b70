CONSTANTS
    Throw = Throw
    None = None
    RlpInputs <- MCRlpInputs
    Ints <- MCInts
    EthMessages_ <- MCEthMessages
    EthBlockInputs <- MCEthBlockInputs
    BtcBlockInputs <- MCBtcBlockInputs
    CompactInputs <- MCCompactInputs
    OntBlockInputs <- MCOntBlockInputs
    ConsensusTails <- MCConsensusTails
    Senders <- MCSenders
    Receivers <- MCReceivers
    Trailers <- MCTrailers
SPECIFICATION Spec
INVARIANTS
    RlpCanonical EthTransactionsExact JsonExplained BlocksRoundTrip ServicesAgree
