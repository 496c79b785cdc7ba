SPECIFICATION ErasureSpec
CONSTANT Scenes <- SmallScenes
INVARIANTS CompletedIsErased RestoreRespectsDeletion
PROPERTY DeletionCompletes
CHECK_DEADLOCK FALSE
