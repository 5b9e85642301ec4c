CONSTANT Ports = {1, 2}
SPECIFICATION BeaconSpec
INVARIANT PortIsFollowed
CHECK_DEADLOCK FALSE
