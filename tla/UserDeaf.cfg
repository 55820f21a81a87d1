\* A process without an account beside its deaf connection waits for ever.
CHECK_DEADLOCK FALSE
SPECIFICATION Spec
INVARIANT SubscribedIsRead
