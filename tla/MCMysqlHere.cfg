CONSTANT MaxMore = 1
SPECIFICATION Spec
INVARIANT NeverGoesHere
