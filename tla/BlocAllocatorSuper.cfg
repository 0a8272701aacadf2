\* A volume of 3 blocs, against the assert of read_super_bloc.
CONSTANTS
  NSector = 3
  Files = {f1}
SPECIFICATION Spec
INVARIANT NextMountLoads
