SPECIFICATION Spec
CONSTANTS
    Finalizers = {f1}
    Probes = {q1}
    Loops = {"commit"}
    LeaseLoss = TRUE
    Drains = FALSE
    MaxErrors = 2
INVARIANT GaugeReturns
