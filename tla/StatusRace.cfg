SPECIFICATION Spec
CONSTANTS
    Nobody = Nobody
    Branch = {b1, b2}
INVARIANT StatusSettles
