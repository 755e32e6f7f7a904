\* Every algorithm of GeometryScenes, at the bounds given there.
INIT ScenesInit
NEXT ScenesNext
INVARIANTS  PathsHold
PROPERTIES SeamIsTrue 
CHECK_DEADLOCK FALSE
