SPECIFICATION OnboardingSpec
CONSTANTS
    ann = ann
    ben = ben
    sys = sys
    i1 = i1
    i2 = i2
    w1 = w1
    w2 = w2
    User = {ann, ben, sys}
    Worker = {w1, w2}
    Instance = {i1, i2}
    System <- SystemUser
    Seeds <- DemoUsers
    Gift <- Gifts
    MaxPolls = 2
    Thresholds = {1, 3}
    Scene <- Scenes
INVARIANT CommissionOnce
INVARIANT VolumeCounted
INVARIANT UsersAnnouncedOnce
INVARIANT WalletsWhole
PROPERTY TierSettles
PROPERTY AnnouncedGetWallets
CHECK_DEADLOCK FALSE
