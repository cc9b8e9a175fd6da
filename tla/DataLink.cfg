CONSTANTS
  Headers <- MCHeaders
  Payloads <- MCPayloads
  Keys = {k1, k2}
  Capacity = 37
  MaxFlips = 1
SPECIFICATION FrameSpec
INVARIANTS AcceptsOnlyTheSent UntouchedIsAccepted
