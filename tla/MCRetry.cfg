\* The emitters' queues.  In memory: three drained batches of one or two events, a queue
\* of three events, two retries; the durable queue's bounds are in the module.
SPECIFICATION RetrySpec
CONSTANTS
    MaxRetries = 2
    MaxQueuedEvents = 3
    BatchSizes = {1, 2}
    MaxBatches = 3
    NilBatch = NilBatch
PROPERTIES
    ImplementsDelivery
    HeldSettles
    BacklogDrains
CHECK_DEADLOCK FALSE
