CONSTANTS
  NumWindows = 2
  Amounts = {1, 2}
  MaxPayments = 4
SPECIFICATION MetricsSpec
INVARIANT ReaderNeverFails
INVARIANT CountedOnce
