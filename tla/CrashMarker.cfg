\* Two windows opened from the same directory.
SPECIFICATION MarkerSpec
CONSTANT Instances = {a, b}
INVARIANT WarnedIffCrashed
