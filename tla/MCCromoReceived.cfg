SPECIFICATION ReceivedSpec
INVARIANT DecodeInBounds
