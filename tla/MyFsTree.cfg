SPECIFICATION Spec
CONSTANT MaxMounts = 2
INVARIANTS NlinkMatches ServedOnceLoaded StrayOnlyAfterDirFailure ModuleOutlivesSuperBlock
PROPERTY EntriesStay
CHECK_DEADLOCK FALSE
