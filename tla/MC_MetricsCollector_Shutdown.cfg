\* Spec 4.7: are publications kept for the collector across a graceful
\* restart? mqtt.Disconnect unsubscribes before disconnecting.
SPECIFICATION Spec
CONSTANTS
    Services <- MCServices
    Payloads <- MCPayloads
    Now <- MCNow
    MaxPublishes = 1
    MaxRestarts = 1
    MaxDisconnects = 0
PROPERTY EveryAcceptedMessageHandled
CHECK_DEADLOCK FALSE
