SPECIFICATION DeliverySpec
CONSTANT
    MaxPublish = 2
INVARIANTS
    TypeOK
    QuietAfterDisconnect
    NoCallbackAfterDestroy

    
