SPECIFICATION CodecSpec
CONSTANTS
  Messages <- AgreedMessages
  StrLens = {7, 15}
  PayloadLens = {20, 540, 1008}
  MaxSegments = 3
  MAX_UE_COUNT = 270
INVARIANTS FieldsAgree InBuffer AddressesDistinct SameSubscriber
