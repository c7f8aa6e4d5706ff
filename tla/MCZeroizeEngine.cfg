\* Every root and every discriminant: the layout hypothesis of the engine's
\* theorems is checked on the crate's layout, for every call that fits in
\* the largest root.
CONSTANTS
    Roots = {"TPM2B_PUBLIC", "TPM2B_SENSITIVE_CREATE", "TPM2B_CREATION_DATA", "TPMT_TK_CREATION"}
    ExcludedInputs = {}
SPECIFICATION Spec
INVARIANT EngineLayoutSound
\* One call of ffi_data_zeroize returns once its traversal is done.
CHECK_DEADLOCK FALSE
