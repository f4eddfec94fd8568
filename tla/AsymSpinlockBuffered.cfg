CONSTANTS
  Fg = fg
  Background = {b1}
  BufferSize = 2
SPECIFICATION Spec
INVARIANT MutualExclusion
