SPECIFICATION FairSpec
CONSTANTS
    Machines <- MCMachines
    Cores = {0, 1, 2}
    BYTESOFSECTOR = 16
    LOAD_SEGMENT = 16
    VIDEO_SEGMENT = 60
    MINIMUM_MB = 8
    PAGE_MAXENTRYCOUNT = 4
    DIRECTORIES = 3
    PAGE_MB = 2
    DWORD_MB = 8
    DYNAMICMEMORY_MB = 6
    PINS = 4
    IRQS = 18
    MaxInterrupts = 2
    INTERRUPT_LOADBALANCINGDIVIDOR = 1
    MAXPROCESSORCOUNT = 16
INVARIANTS
    KernelIsReachable
    CoresAreSeparate
    BalancedCoresAreAwake
    EOIReachesController
PROPERTIES
    RoutingIsExact
    BootEnds
CHECK_DEADLOCK FALSE
