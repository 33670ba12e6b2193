SPECIFICATION Spec
INVARIANT SetIsTheComparison
