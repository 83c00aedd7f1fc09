SPECIFICATION Ucs2Spec
INVARIANT Ucs2RoundTrip
