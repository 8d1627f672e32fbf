SPECIFICATION Spec
CONSTANT W = 3
INVARIANTS ReadingExact
PROPERTY ImplementsWideCounters
