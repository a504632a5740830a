CONSTANTS
  NTextCtx = 14
  NDec = 3
  PromptSizes = {1, 11}
SPECIFICATION Spec
INVARIANTS
  AttendsOwnHistory
  SlotAlwaysFound
  SlotFoundIffFree
