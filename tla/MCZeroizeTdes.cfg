\* TPMT_PUBLIC with every discriminant, TDES included.
CONSTANTS
    Roots = {"TPM2B_PUBLIC"}
    ExcludedInputs = {}
SPECIFICATION Spec
INVARIANT ZeroizationComplete
\* One call of ffi_data_zeroize returns once its traversal is done.
CHECK_DEADLOCK FALSE
