\* Retries = 2 lets the transport retry, succeed, fail again and give up;
\* two messages and two accepted connections let every order happen.
SPECIFICATION FairSpec
CONSTANTS
  Retries = 2
  MaxSends = 2
  MaxAccepts = 2
INVARIANTS OneConnection RetryBound InOrder
PROPERTIES SilentAfterClose ListenerContract CloseReturns UpOrClosed
CHECK_DEADLOCK FALSE
