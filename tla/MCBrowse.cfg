CONSTANTS
    main = main
    aux = aux
    plain = plain
    quoted = quoted
    Schemas = {main, aux}
    Default = main
    Names = {plain, quoted}
    Fold <- MCFold
    Reads = {boot, reload}
    Boot = boot
    Metas = {m1, m2}
    Databases <- MCDatabases
    MaxChanges = 2
SPECIFICATION Spec
CONSTRAINT Small
SYMMETRY Symmetry
INVARIANTS
    TreeFaithful
    TabsDescribeSelected
    ShowsLastSelected
CHECK_DEADLOCK FALSE
