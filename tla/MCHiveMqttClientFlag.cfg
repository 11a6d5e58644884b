SPECIFICATION Spec
PROPERTY
    FlagAgrees
