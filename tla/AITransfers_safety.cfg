SPECIFICATION TransfersSpec
CONSTANTS
    Models <- MCModels
    Providers <- MCProviders
    Regions = {"eu", "global"}
    ModelOf <- MCModelOf
    Contract <- MCContract
    RegionOf <- MCRegionOf
    Unpinned = "global"
    Task <- MCTask
    Deployment <- MCDeployment
    InlineMax = 2
    TemplateMax = 6
    Scenarios <- MCScenarios
    Handlers = {h1, h2}
    Reconciler = sweep
    MaxStarts = 2
    MaxUploads = 2
SYMMETRY Sym
INVARIANTS DispatchIsPermitted ExecutionStaysInItsRegion RouterAgreesWithSelector UploadRowsAreReachable
CHECK_DEADLOCK FALSE
