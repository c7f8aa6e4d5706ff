\* Every structure whose traversal the model covers, with every discriminant
\* but TDES (whose gap MCZeroizeTdes.cfg shows) and a reserved one.
CONSTANTS
    Roots = {"TPM2B_PUBLIC", "TPM2B_SENSITIVE_CREATE", "TPM2B_CREATION_DATA", "TPMT_TK_CREATION"}
    ExcludedInputs = {"tdes"}
SPECIFICATION Spec
INVARIANTS TypeOK ZeroizationComplete UnknownPayloadUntouched DiscriminantPristineAtDispatch
\* One call of ffi_data_zeroize returns once its traversal is done.
CHECK_DEADLOCK FALSE
