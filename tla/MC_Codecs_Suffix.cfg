CONSTANT None = None
SPECIFICATION Spec
INVARIANT ParseWholeOrAbsent
