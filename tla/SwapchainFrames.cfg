SPECIFICATION SwapchainSpec
CONSTANTS
  ImageCounts = {1, 2}
  MaxSwapchains = 3
INVARIANTS SemaphoresFree OwnedOnce NoFreeze
