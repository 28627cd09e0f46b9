SPECIFICATION Spec
INVARIANT ForeignBocDecodes
CHECK_DEADLOCK FALSE
