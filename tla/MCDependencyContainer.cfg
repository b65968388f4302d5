SPECIFICATION Spec
CONSTANTS
  Services = {s1, s2, s3}
  MaxCalls = 2
  MaxNested = 1
SYMMETRY Symmetry
INVARIANTS
  TypeOK
  StackFollowsCalls
  SingletonBuiltOnce
  DependenciesFirst
  NoServiceInsideItself
  FrozenResolves
