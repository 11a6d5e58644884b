SPECIFICATION DeliverySpec
CONSTANT
    MaxPublish = 1
INVARIANT
    PublishedIsDelivered
