CONSTANT None = None
SPECIFICATION Spec
INVARIANTS EncodeCorrect DecodeRoundTrip ParseRoundTrip TruncatedAbsent
