SPECIFICATION Spec
CONSTANT Robots = {"D1", "D1H", "Mini", "Tita", "Andy", "Pace"}
INVARIANTS Constructs TermsResolve CheckpointsFit RunnerAccepts
CHECK_DEADLOCK FALSE
