SPECIFICATION Spec
CONSTANT Docs <- SampleDocs
PROPERTY Returns
CHECK_DEADLOCK FALSE
