SPECIFICATION ExpansionSpec
CONSTANT Items <- MCItems
INVARIANT OverridesKept
