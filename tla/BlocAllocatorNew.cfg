\* A volume of 4 blocs, against the comment of new_bloc.
CONSTANTS
  NSector = 4
  Files = {f1}
SPECIFICATION Spec
INVARIANT NewBlocIsNew
