SPECIFICATION Spec
CONSTANTS
  Clients = {"training", "d1_rough", "tita", "rl_controller", "mini_flat", "mini_jump", "andy_height"}
  HistoryLen = 4
  Window = 2
  MaxFrames = 8
INVARIANT InputAsTrained
CHECK_DEADLOCK FALSE
