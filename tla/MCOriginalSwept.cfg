SPECIFICATION Spec
CONSTANTS
    None = None
    MaxVersion = 3
INVARIANT FileThere
