CONSTANTS
  MaxIdentity = 2
  MaxTags = 2
  Fields = {version, ip_list}
SPECIFICATION Spec
INVARIANTS TypeOK SentMetaIsHeld NotifiedIsHeld
PROPERTIES IdentityConverges MetaConverges
