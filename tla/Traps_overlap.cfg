CONSTANTS
  Kernel = "kernel"
  Comp = "compartment"
SPECIFICATION Spec
INVARIANT FrameIsKept
