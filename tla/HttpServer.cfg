SPECIFICATION FairSpec
CONSTANT Conn = {c1, c2}
INVARIANT TypeOK
PROPERTIES Answered ChildrenEnd
\* all clients may have been served
CHECK_DEADLOCK FALSE
