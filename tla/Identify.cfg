CONSTANTS
  ADDRESSES_PER_BYTE = 4
  MIN_PAYLOAD_SIZE = 2
  Random = {0, 1, 2, 3, 4, 5, 6, 7}
  None = None
SPECIFICATION Spec
INVARIANTS TypeOK ChoiceIsEven
PROPERTY ImplementsAddressSet
