\* One instance and the released list of migrations.
SPECIFICATION Spec
CONSTANTS
    Instances = {i1}
    NoInstance = NoInstance
    Last = 2
    Concurrent = {2}
INVARIANT DropAndRestartRecovers
