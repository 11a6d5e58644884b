SPECIFICATION Spec
INVARIANTS
    TypeOK
    QuietAfterDisconnect
    NoCallbackAfterDestroy
PROPERTY
    DisconnectReturns
