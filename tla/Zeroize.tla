------------------------------- MODULE Zeroize -------------------------------
(***************************************************************************)
(* FfiDataZeroize (src/tss-esapi/src/ffi/data_zeroize.rs): the in-place    *)
(* zeroization of the TSS wire structures the ESAPI returns.               *)
(*                                                                         *)
(* Memory is a sequence of cells.  A scalar field or a byte array is one   *)
(* cell; a struct lays its fields out one after the other; the members of  *)
(* a union all start at the union's first cell, so that they overlap as in *)
(* C.  A cell holds Data (possibly secret bytes), Zero, or an algorithm    *)
(* identifier when it is read as a discriminant.                           *)
(*                                                                         *)
(* The traversal is executed one call at a time from a stack of pending    *)
(* calls: "wipe" is Zeroize::zeroize on a field, "walk" is                 *)
(* ffi_data_zeroize on a structured field, and "decode" is the             *)
(* `if let Ok(..) = try_from(discriminant)` and `match` of a TPMT impl.    *)
(***************************************************************************)
EXTENDS Naturals, Sequences, FiniteSets

CONSTANTS
    Roots,           \* the structures zeroized (the type names of the outermost value)
    ExcludedInputs   \* algorithm identifiers not offered as inputs

Zero == "zero"
Data == "data"
Reserved == "reserved"   \* a discriminant no TryFrom of the crate accepts

F(f, t) == [f |-> f, t |-> t]

(* The C layout of the structs (field order of tss2_tpm2_types.h).  The      *)
(* TPM2B_* byte buffers share one layout, as they share one macro.           *)
(* TPML_PCR_SELECTION keeps two of its sixteen entries.                      *)
Layout == [
    TPM2B                  |-> <<F("size", "BYTE"), F("buffer", "BYTE")>>,
    TPM2B_PUBLIC           |-> <<F("size", "BYTE"), F("publicArea", "TPMT_PUBLIC")>>,
    TPM2B_SENSITIVE_CREATE |-> <<F("size", "BYTE"), F("sensitive", "TPMS_SENSITIVE_CREATE")>>,
    TPM2B_CREATION_DATA    |-> <<F("size", "BYTE"), F("creationData", "TPMS_CREATION_DATA")>>,
    TPMS_SENSITIVE_CREATE  |-> <<F("userAuth", "TPM2B"), F("data", "TPM2B")>>,
    TPMS_CREATION_DATA     |-> <<F("pcrSelect", "TPML_PCR_SELECTION"), F("pcrDigest", "TPM2B"),
                                 F("locality", "BYTE"), F("parentNameAlg", "BYTE"),
                                 F("parentName", "TPM2B"), F("parentQualifiedName", "TPM2B"),
                                 F("outsideInfo", "TPM2B")>>,
    TPML_PCR_SELECTION     |-> <<F("count", "BYTE"), F("pcrSelections1", "TPMS_PCR_SELECTION"),
                                 F("pcrSelections2", "TPMS_PCR_SELECTION")>>,
    TPMS_PCR_SELECTION     |-> <<F("hash", "BYTE"), F("sizeofSelect", "BYTE"),
                                 F("pcrSelect", "BYTE")>>,
    TPMT_TK_CREATION       |-> <<F("tag", "BYTE"), F("hierarchy", "BYTE"), F("digest", "TPM2B")>>,
    TPMS_EMPTY             |-> << >>,
    TPMS_SCHEME_HASH       |-> <<F("hashAlg", "BYTE")>>,
    TPMS_SCHEME_XOR        |-> <<F("hashAlg", "BYTE"), F("kdf", "BYTE")>>,
    TPMS_SCHEME_ECDAA      |-> <<F("hashAlg", "BYTE"), F("count", "BYTE")>>,
    TPMS_KEYEDHASH_PARMS   |-> <<F("scheme", "TPMT_KEYEDHASH_SCHEME")>>,
    TPMS_SYMCIPHER_PARMS   |-> <<F("sym", "TPMT_SYM_DEF_OBJECT")>>,
    TPMS_ECC_PARMS         |-> <<F("symmetric", "TPMT_SYM_DEF_OBJECT"),
                                 F("scheme", "TPMT_ECC_SCHEME"), F("curveID", "BYTE"),
                                 F("kdf", "TPMT_KDF_SCHEME")>>,
    TPMS_RSA_PARMS         |-> <<F("symmetric", "TPMT_SYM_DEF_OBJECT"),
                                 F("scheme", "TPMT_RSA_SCHEME"), F("keyBits", "BYTE"),
                                 F("exponent", "BYTE")>>,
    TPMS_ECC_POINT         |-> <<F("x", "TPM2B"), F("y", "TPM2B")>>,
    TPMT_SYM_DEF_OBJECT    |-> <<F("algorithm", "BYTE"), F("keyBits", "TPMU_SYM_KEY_BITS"),
                                 F("mode", "TPMU_SYM_MODE")>>,
    TPMT_KEYEDHASH_SCHEME  |-> <<F("scheme", "BYTE"), F("details", "TPMU_SCHEME_KEYEDHASH")>>,
    TPMT_RSA_SCHEME        |-> <<F("scheme", "BYTE"), F("details", "TPMU_ASYM_SCHEME")>>,
    TPMT_ECC_SCHEME        |-> <<F("scheme", "BYTE"), F("details", "TPMU_ASYM_SCHEME")>>,
    TPMT_KDF_SCHEME        |-> <<F("scheme", "BYTE"), F("details", "TPMU_KDF_SCHEME")>>,
    TPMT_PUBLIC            |-> <<F("type_", "BYTE"), F("nameAlg", "BYTE"),
                                 F("objectAttributes", "BYTE"), F("authPolicy", "TPM2B"),
                                 F("parameters", "TPMU_PUBLIC_PARMS"),
                                 F("unique", "TPMU_PUBLIC_ID")>>]

(* The members of the unions. *)
Members == [
    TPMU_SYM_KEY_BITS     |-> [aes |-> "BYTE", sm4 |-> "BYTE", camellia |-> "BYTE",
                               sym |-> "BYTE", exclusiveOr |-> "BYTE"],
    TPMU_SYM_MODE         |-> [aes |-> "BYTE", sm4 |-> "BYTE", camellia |-> "BYTE",
                               sym |-> "BYTE"],
    TPMU_SCHEME_KEYEDHASH |-> [hmac |-> "TPMS_SCHEME_HASH", exclusiveOr |-> "TPMS_SCHEME_XOR"],
    TPMU_ASYM_SCHEME      |-> [ecdh |-> "TPMS_SCHEME_HASH", ecmqv |-> "TPMS_SCHEME_HASH",
                               sm2 |-> "TPMS_SCHEME_HASH", ecdsa |-> "TPMS_SCHEME_HASH",
                               ecdaa |-> "TPMS_SCHEME_ECDAA", ecschnorr |-> "TPMS_SCHEME_HASH",
                               rsassa |-> "TPMS_SCHEME_HASH", rsapss |-> "TPMS_SCHEME_HASH",
                               rsaes |-> "TPMS_EMPTY", oaep |-> "TPMS_SCHEME_HASH"],
    TPMU_KDF_SCHEME       |-> [mgf1 |-> "TPMS_SCHEME_HASH", kdf1_sp800_56a |-> "TPMS_SCHEME_HASH",
                               kdf2 |-> "TPMS_SCHEME_HASH", kdf1_sp800_108 |-> "TPMS_SCHEME_HASH"],
    TPMU_PUBLIC_PARMS     |-> [keyedHashDetail |-> "TPMS_KEYEDHASH_PARMS",
                               symDetail |-> "TPMS_SYMCIPHER_PARMS",
                               rsaDetail |-> "TPMS_RSA_PARMS", eccDetail |-> "TPMS_ECC_PARMS"],
    TPMU_PUBLIC_ID        |-> [keyedHash |-> "TPM2B", sym |-> "TPM2B", rsa |-> "TPM2B",
                               ecc |-> "TPMS_ECC_POINT"]]

Types == DOMAIN Layout \cup DOMAIN Members \cup {"BYTE"}

\* The types whose impl dispatches on a discriminant, their first field.
Tagged == {"TPMT_SYM_DEF_OBJECT", "TPMT_KEYEDHASH_SCHEME", "TPMT_RSA_SCHEME",
           "TPMT_ECC_SCHEME", "TPMT_KDF_SCHEME", "TPMT_PUBLIC"}

RECURSIVE Size(_), SizeBefore(_, _)
Size(T) ==
    IF T = "BYTE" THEN 1
    ELSE IF T \in DOMAIN Members
         THEN LET sizes == {Size(Members[T][m]) : m \in DOMAIN Members[T]}
              IN  CHOOSE n \in sizes : \A k \in sizes : k <= n
    ELSE SizeBefore(Layout[T], Len(Layout[T]) + 1)

\* The number of cells of the fields before the i-th one.
SizeBefore(fs, i) == IF i = 1 THEN 0 ELSE SizeBefore(fs, i - 1) + Size(fs[i - 1].t)

FieldIndex(T, f) == CHOOSE i \in 1..Len(Layout[T]) : Layout[T][i].f = f

FieldType(T, f) == Layout[T][FieldIndex(T, f)].t

FieldOff(T, f) == SizeBefore(Layout[T], FieldIndex(T, f))

\* The cells of a value of type T that starts at cell base.
Cells(T, base) == base..(base + Size(T) - 1)

-----------------------------------------------------------------------------
(* The code: what each impl of FfiDataZeroize calls, in its order.          *)

W(f) == [f |-> f, how |-> "wipe"]   \* self.f.zeroize()
K(f) == [f |-> f, how |-> "walk"]   \* self.f.ffi_data_zeroize()

\* The macro-generated and hand-written impls of the types without a
\* discriminant.
Code == [
    TPM2B                  |-> <<W("size"), W("buffer")>>,
    TPM2B_PUBLIC           |-> <<W("size"), K("publicArea")>>,
    TPM2B_SENSITIVE_CREATE |-> <<W("size"), K("sensitive")>>,
    TPM2B_CREATION_DATA    |-> <<W("size"), K("creationData")>>,
    TPMS_SENSITIVE_CREATE  |-> <<K("userAuth"), K("data")>>,
    TPMS_CREATION_DATA     |-> <<K("pcrSelect"), K("pcrDigest"), W("locality"),
                                 W("parentNameAlg"), K("parentName"),
                                 K("parentQualifiedName"), K("outsideInfo")>>,
    TPML_PCR_SELECTION     |-> <<W("count"), K("pcrSelections1"), K("pcrSelections2")>>,
    TPMS_PCR_SELECTION     |-> <<W("hash"), W("sizeofSelect"), W("pcrSelect")>>,
    TPMT_TK_CREATION       |-> <<W("tag"), W("hierarchy"), K("digest")>>,
    TPMS_SCHEME_HASH       |-> <<W("hashAlg")>>,
    TPMS_SCHEME_XOR        |-> <<W("hashAlg"), W("kdf")>>,
    TPMS_SCHEME_ECDAA      |-> <<W("hashAlg"), W("count")>>,
    TPMS_KEYEDHASH_PARMS   |-> <<K("scheme")>>,
    TPMS_SYMCIPHER_PARMS   |-> <<K("sym")>>,
    TPMS_ECC_PARMS         |-> <<K("symmetric"), K("scheme"), W("curveID"), K("kdf")>>,
    TPMS_RSA_PARMS         |-> <<K("symmetric"), K("scheme"), W("keyBits"), W("exponent")>>,
    TPMS_ECC_POINT         |-> <<K("x"), K("y")>>]

\* One call of a match arm: on field f, or on member m of union field f.
A(f, m, how) == [f |-> f, m |-> m, how |-> how]

\* Variant of the arms of TPMT_SYM_DEF_OBJECT whose Camellia arm forgets
\* the mode (detected by ZeroizationComplete).
SymDefArmsCamelliaKeyBitsOnly ==
    [aes      |-> <<A("keyBits", "aes", "wipe"), A("mode", "aes", "wipe")>>,
     sm4      |-> <<A("keyBits", "sm4", "wipe"), A("mode", "sm4", "wipe")>>,
     camellia |-> <<A("keyBits", "camellia", "wipe")>>,
     null     |-> << >>,
     tdes     |-> << >>]

\* TPMT_SYM_DEF_OBJECT: the arms of the SymmetricObject match.
SymDefArms ==
    [aes      |-> <<A("keyBits", "aes", "wipe"), A("mode", "aes", "wipe")>>,
     sm4      |-> <<A("keyBits", "sm4", "wipe"), A("mode", "sm4", "wipe")>>,
     camellia |-> <<A("keyBits", "camellia", "wipe"), A("mode", "camellia", "wipe")>>,
     null     |-> << >>,
     tdes     |-> << >>]

\* TPMT_PUBLIC: every arm zeroizes the common fields, the parameters and the
\* unique member of its algorithm, and then, still inside the if let, type_.
PublicArm(p, u) ==
    <<A("objectAttributes", "", "wipe"), A("nameAlg", "", "wipe"),
      A("authPolicy", "", "walk"), A("parameters", p, "walk"),
      A("unique", u, "walk"), A("type_", "", "wipe")>>

PublicArms ==
    [rsa       |-> PublicArm("rsaDetail", "rsa"),
     keyedhash |-> PublicArm("keyedHashDetail", "keyedHash"),
     ecc       |-> PublicArm("eccDetail", "ecc"),
     symcipher |-> PublicArm("symDetail", "sym")]

Detail(m) == <<A("details", m, "walk")>>

KeyedHashSchemeArms ==
    [xor |-> Detail("exclusiveOr"), hmac |-> Detail("hmac"), null |-> << >>]

RsaSchemeArms ==
    [rsassa |-> Detail("rsassa"), rsaes |-> << >>, rsapss |-> Detail("rsapss"),
     oaep |-> Detail("oaep"), null |-> << >>]

EccSchemeArms ==
    [ecdsa |-> Detail("ecdsa"), ecdh |-> Detail("ecdh"), ecdaa |-> Detail("ecdaa"),
     sm2 |-> Detail("sm2"), ecschnorr |-> Detail("ecschnorr"),
     ecmqv |-> Detail("ecmqv"), null |-> << >>]

KdfSchemeArms ==
    [kdf1_sp800_56a |-> Detail("kdf1_sp800_56a"), kdf2 |-> Detail("kdf2"),
     kdf1_sp800_108 |-> Detail("kdf1_sp800_108"), mgf1 |-> Detail("mgf1"),
     null |-> << >>]

\* The discriminant values each TryFrom accepts are the arms of its match.
Arms == [TPMT_SYM_DEF_OBJECT   |-> SymDefArms,
         TPMT_PUBLIC           |-> PublicArms,
         TPMT_KEYEDHASH_SCHEME |-> KeyedHashSchemeArms,
         TPMT_RSA_SCHEME       |-> RsaSchemeArms,
         TPMT_ECC_SCHEME       |-> EccSchemeArms,
         TPMT_KDF_SCHEME       |-> KdfSchemeArms]

Task(op, T, base) == [op |-> op, t |-> T, base |-> base]

\* Variant that zeroizes the discriminant before the match reads it
\* (detected by DiscriminantPristineAtDispatch).
BodyWipeFirst(T, base) ==
    IF T \in Tagged
    THEN <<Task("wipe", "BYTE", base), Task("decode", T, base)>>
    ELSE [i \in 1..Len(Code[T]) |->
            Task(Code[T][i].how, FieldType(T, Code[T][i].f), base + FieldOff(T, Code[T][i].f))]

\* The calls ffi_data_zeroize makes on a value of type T at cell base.  A
\* TPMT impl first dispatches on its discriminant, then zeroizes it; the
\* TPMT_PUBLIC impl zeroizes type_ only inside its arms.
Body(T, base) ==
    IF T \in Tagged
    THEN <<Task("decode", T, base)>>
         \o (IF T = "TPMT_PUBLIC" THEN << >> ELSE <<Task("wipe", "BYTE", base)>>)
    ELSE [i \in 1..Len(Code[T]) |->
            Task(Code[T][i].how, FieldType(T, Code[T][i].f), base + FieldOff(T, Code[T][i].f))]

\* Variant that addresses each field of an arm at the offset of the next
\* field (detected by TypeOK).
ArmTasksNextField(T, base, v) ==
    [i \in 1..Len(Arms[T][v]) |->
        LET a  == Arms[T][v][i]
            ft == FieldType(T, a.f)
        IN  Task(a.how, IF a.m = "" THEN ft ELSE Members[ft][a.m],
                 base + SizeBefore(Layout[T], FieldIndex(T, a.f) + 1))]

\* The calls of the match arm for discriminant v.
ArmTasks(T, base, v) ==
    [i \in 1..Len(Arms[T][v]) |->
        LET a  == Arms[T][v][i]
            ft == FieldType(T, a.f)
        IN  Task(a.how, IF a.m = "" THEN ft ELSE Members[ft][a.m], base + FieldOff(T, a.f))]

-----------------------------------------------------------------------------
(* The reference: the member of each union a discriminant selects, from the  *)
(* selector tables of TPM 2.0 Part 2 (the "sym" members are selected by any  *)
(* block cipher that has no member of its own).  A discriminant outside a    *)
(* table is undecodable; one whose table entry is empty selects no member.   *)

None == [u \in {} |-> ""]

Sel(u, m) == [x \in {u} |-> m]

SchemeSelects(names) ==
    [n \in names \cup {"null"} |-> IF n = "null" THEN None ELSE Sel("details", n)]

Selects == [
    TPMT_SYM_DEF_OBJECT   |-> [aes |-> [keyBits |-> "aes", mode |-> "aes"],
                               sm4 |-> [keyBits |-> "sm4", mode |-> "sm4"],
                               camellia |-> [keyBits |-> "camellia", mode |-> "camellia"],
                               tdes |-> [keyBits |-> "sym", mode |-> "sym"],
                               null |-> None],
    TPMT_PUBLIC           |-> [rsa |-> [parameters |-> "rsaDetail", unique |-> "rsa"],
                               keyedhash |-> [parameters |-> "keyedHashDetail",
                                              unique |-> "keyedHash"],
                               ecc |-> [parameters |-> "eccDetail", unique |-> "ecc"],
                               symcipher |-> [parameters |-> "symDetail", unique |-> "sym"]],
    TPMT_KEYEDHASH_SCHEME |-> [xor |-> Sel("details", "exclusiveOr"),
                               hmac |-> Sel("details", "hmac"), null |-> None],
    TPMT_RSA_SCHEME       |-> SchemeSelects({"rsassa", "rsaes", "rsapss", "oaep"}),
    TPMT_ECC_SCHEME       |-> SchemeSelects({"ecdsa", "ecdh", "ecdaa", "sm2",
                                             "ecschnorr", "ecmqv"}),
    TPMT_KDF_SCHEME       |-> SchemeSelects({"kdf1_sp800_56a", "kdf2",
                                             "kdf1_sp800_108", "mgf1"})]

Selected(T, v) == IF v \in DOMAIN Selects[T] THEN Selects[T][v] ELSE None

IsUnion(T, i) == Layout[T][i].t \in DOMAIN Members

\* The values of type T the TPM can return: every discriminant of its table
\* but ExcludedInputs, or Reserved; the selected member of each union, the
\* rest of the union's cells holding Data.
RECURSIVE Inputs(_), FieldsInputs(_, _, _)
Inputs(T) ==
    IF T = "BYTE" THEN {<<Data>>}
    ELSE IF T \in Tagged
         THEN UNION {FieldsInputs(T, v, Len(Layout[T])) :
                       v \in (DOMAIN Selects[T] \ ExcludedInputs) \cup {Reserved}}
    ELSE FieldsInputs(T, Reserved, Len(Layout[T]))

Pad(s, n) == s \o [i \in 1..(n - Len(s)) |-> Data]

\* The images of the first n fields of a T whose discriminant is v.
FieldsInputs(T, v, n) ==
    IF n = 0 THEN {<< >>}
    ELSE LET fd == Layout[T][n]
             last == IF T \in Tagged /\ n = 1 THEN {<<v>>}
                     ELSE IF ~IsUnion(T, n) THEN Inputs(fd.t)
                     ELSE IF fd.f \in DOMAIN Selected(T, v)
                          THEN {Pad(x, Size(fd.t)) :
                                  x \in Inputs(Members[fd.t][Selected(T, v)[fd.f]])}
                     ELSE {Pad(<< >>, Size(fd.t))}
         IN  {a \o b : a \in FieldsInputs(T, v, n - 1), b \in last}

\* The values (type, first cell) of the active fields of a T at base in
\* memory m, T included; the unions of an undecodable discriminant are not
\* entered.
RECURSIVE Reached(_, _, _)
Reached(T, base, m) ==
    {<<T, base>>} \cup
    IF T = "BYTE" THEN {}
    ELSE LET sel  == IF T \in Tagged THEN Selected(T, m[base]) ELSE None
             idx  == {i \in 1..Len(Layout[T]) :
                        ~IsUnion(T, i) \/ Layout[T][i].f \in DOMAIN sel}
             Sub(i) == IF IsUnion(T, i) THEN Members[Layout[T][i].t][sel[Layout[T][i].f]]
                       ELSE Layout[T][i].t
         IN  UNION {Reached(Sub(i), base + SizeBefore(Layout[T], i), m) : i \in idx}

-----------------------------------------------------------------------------

VARIABLES
    root,   \* the type of the value being zeroized
    mem,    \* its cells
    mem0,   \* history: the cells as the ESAPI returned them
    work    \* the calls still to make, the next one first

vars == <<root, mem, mem0, work>>

Init ==
    /\ root \in Roots
    /\ mem \in Inputs(root)
    /\ mem0 = mem
    /\ work = <<Task("walk", root, 1)>>

\* Zeroize::zeroize on a field: all its bytes become zero.
Wipe ==
    /\ work # << >>
    /\ Head(work).op = "wipe"
    /\ mem' = [c \in DOMAIN mem |->
                 IF c \in Cells(Head(work).t, Head(work).base) THEN Zero ELSE mem[c]]
    /\ work' = Tail(work)
    /\ UNCHANGED <<root, mem0>>

\* ffi_data_zeroize on a value: its calls come next.
Walk ==
    /\ work # << >>
    /\ Head(work).op = "walk"
    /\ work' = Body(Head(work).t, Head(work).base) \o Tail(work)
    /\ UNCHANGED <<root, mem, mem0>>

\* Variant that runs an arm even for an undecodable discriminant, as a
\* match on the raw value with a catch-all arm would (detected by
\* UnknownPayloadUntouched).
DecodeCatchAll ==
    /\ work # << >>
    /\ Head(work).op = "decode"
    /\ LET t == Head(work)
           v == mem[t.base]
           arm == IF v \in DOMAIN Arms[t.t] THEN v ELSE CHOOSE a \in DOMAIN Arms[t.t] : TRUE
       IN  work' = ArmTasks(t.t, t.base, arm) \o Tail(work)
    /\ UNCHANGED <<root, mem, mem0>>

\* if let Ok(alg) = try_from(discriminant): the arm of alg, else nothing.
Decode ==
    /\ work # << >>
    /\ Head(work).op = "decode"
    /\ LET t == Head(work)
           v == mem[t.base]
       IN  work' = (IF v \in DOMAIN Arms[t.t] THEN ArmTasks(t.t, t.base, v) ELSE << >>)
                   \o Tail(work)
    /\ UNCHANGED <<root, mem, mem0>>

Next == Wipe \/ Walk \/ Decode

Spec == Init /\ [][Next]_vars

Done == work = << >>

Val == {Zero, Data, Reserved} \cup UNION {DOMAIN Selects[T] : T \in Tagged}

\* The calls that can be pending: a walk of a type with an impl, a decode of
\* a TPMT, a wipe of any field, inside the largest root.
MaxCells == CHOOSE n \in {Size(r) : r \in Roots} : \A r \in Roots : Size(r) <= n

EngineTasks ==
    {x \in [op : {"wipe", "walk", "decode"}, t : Types, base : 1..MaxCells] :
        /\ x.base + Size(x.t) - 1 <= MaxCells
        /\ x.op = "walk" => x.t \in DOMAIN Code \cup Tagged
        /\ x.op = "decode" => x.t \in Tagged}

\* The traversal is ZeroizeEngine's, with the crate's layout: the cells of a
\* call are those of its field, a walk makes the calls of Body, a decode
\* those of the arm of its discriminant, or none.
Engine == INSTANCE ZeroizeEngine WITH
    Tasks <- EngineTasks, Vals <- Val, Zero <- Zero,
    CellsOf <- LAMBDA x : Cells(x.t, x.base),
    BodyOf <- LAMBDA x : Body(x.t, x.base),
    DispatchOf <- LAMBDA x, v : IF v \in DOMAIN Arms[x.t] THEN ArmTasks(x.t, x.base, v) ELSE << >>

-----------------------------------------------------------------------------
(* Properties *)

TaskType == [op : {"wipe", "walk", "decode"}, t : Types, base : 1..Size(root)]

TypeOK ==
    /\ root \in Roots
    /\ mem \in [1..Size(root) -> Val]
    /\ mem0 \in [1..Size(root) -> Val]
    /\ work \in Seq(TaskType)

ActiveOf(m) == Reached(root, 1, m)

\* Every discriminant met on the active path of the input is decodable.
AllKnown(m) == \A p \in ActiveOf(m) : p[1] \in Tagged => m[p[2]] \in DOMAIN Selects[p[1]]

\* spec.md 8, completeness for known discriminants: when every discriminant
\* is supported, ffi_data_zeroize leaves every cell of every active field
\* zero, the active members of the unions and the discriminants included,
\* however deep the nesting of TPMT_PUBLIC, its parameters and its schemes.
ZeroizationComplete ==
    Done /\ AllKnown(mem0) => \A p \in ActiveOf(mem0) : p[1] = "BYTE" => mem[p[2]] = Zero

UnionCells(T, base) ==
    UNION {Cells(Layout[T][i].t, base + SizeBefore(Layout[T], i)) :
             i \in {j \in 1..Len(Layout[T]) : IsUnion(T, j)}}

\* spec.md 4.5 and 8, safety for unknown discriminants: the cells of a union
\* whose discriminant does not decode are never written, at any point of
\* the traversal.
UnknownPayloadUntouched ==
    \A p \in ActiveOf(mem0) :
        p[1] \in Tagged /\ mem0[p[2]] \notin DOMAIN Selects[p[1]]
            => \A c \in UnionCells(p[1], p[2]) : mem[c] = mem0[c]

\* spec.md 4.5: every match reads its discriminant while it still holds the
\* value the ESAPI returned, whatever the calls made before it.
DiscriminantPristineAtDispatch ==
    ~Done /\ Head(work).op = "decode" => mem[Head(work).base] = mem0[Head(work).base]

\* The layout of the TSS structures meets the hypothesis of the theorems of
\* ZeroizeEngineProofs: every ffi_data_zeroize impl and every match arm, for
\* every call that can be pending and every discriminant value, calls only
\* inside its own value, and none of its calls zeroes a discriminant that a
\* later call of the same impl still has to read; and every call pending in
\* the traversal is one of the engine's calls.  Wipe, Walk and Decode are
\* Engine!Wipe, Engine!Walk and Engine!Decode under the substitution of
\* Engine, so the engine's theorems hold of this traversal when this holds.
EngineLayoutSound ==
    /\ Engine!LayoutSound
    /\ \A i \in 1..Len(work) : work[i] \in EngineTasks

\* spec.md 8: the discriminant of every tagged value met, decodable or not,
\* ends zeroized.
DiscriminantZeroized ==
    Done => \A p \in ActiveOf(mem0) : p[1] \in Tagged => mem[p[2]] = Zero

=============================================================================
