SPECIFICATION FairThreadSpec
CONSTANTS
    Host = {h1}
    NumGroups = 3
    GroupSize <- MCGroupSize
    MaxForks = 2
    Name = {"NVT", "Services/ssh", "Services/www", "Services/pop3", "pop3/banner/", "Known/tcp/443"}
    Value = {"detected", "", "www", "proxy", "22", "110", "443", "8080", "995"}
    Null = null
    TCPPorts <- MCPorts
    ThreadCount = 2
    Before <- MCBefore
    Finds <- MCFinds
INVARIANTS
    
    NothingSkipped
    DetectedLikeOneThread
PROPERTIES
    ThreadEnds
CHECK_DEADLOCK FALSE
