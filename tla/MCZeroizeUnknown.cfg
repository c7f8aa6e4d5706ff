\* TPMT_PUBLIC with every supported discriminant and a reserved one.
CONSTANTS
    Roots = {"TPM2B_PUBLIC"}
    ExcludedInputs = {"tdes"}
SPECIFICATION Spec
INVARIANT DiscriminantZeroized
\* One call of ffi_data_zeroize returns once its traversal is done.
CHECK_DEADLOCK FALSE
