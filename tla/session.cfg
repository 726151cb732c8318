SPECIFICATION Spec
CONSTANT MaxOpens = 2
INVARIANTS TypeOK HandlesBalanced NoOrphan NoLostSession CancelNotLost
PROPERTY KillsOnlyItsOwn
