SPECIFICATION WireSpec
CONSTANTS
  Messages = {"autn_req", "sec_cmd"}
  StrLens = {7}
  PayloadLens = {20}
  MaxSegments = 1
INVARIANT FieldsAgree
