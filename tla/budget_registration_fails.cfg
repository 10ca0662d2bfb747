SPECIFICATION Spec
CONSTANT OsBudgets = {1, 2, 3}
INVARIANT FailureIsNoticed
