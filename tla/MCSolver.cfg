SPECIFICATION Spec
CONSTANT MaxU32 = 3
INVARIANT SolutionsAlwaysHold
