CONSTANT MaxActs = 1
SPECIFICATION Spec
INVARIANT FrameEndsWithTheWindow
CHECK_DEADLOCK FALSE
