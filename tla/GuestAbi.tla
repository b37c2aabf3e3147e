------------------------------ MODULE GuestAbi ------------------------------
(***************************************************************************)
(* The two checks of the guest ABI. The API task checks the sections of    *)
(* the uploaded bytes (assert_abi_bytes), the host what Wasmtime compiled  *)
(* (assert_abi). A module is what both see of it; indices start at 0.      *)
(***************************************************************************)
EXTENDS Naturals, Sequences, FiniteSets

\* A function type by what the checks compare it with, or no function type.
TypeDefs == {"invoke", "http_get", "other", "struct"}

Import == [name: {"nitrum.http_get", "other"}, kind: {"func", "other"}, type: Nat]

\* memory, invoke: the kinds of these exports; index: the function of invoke.
WasmModule == [types: Seq(TypeDefs), imports: Seq(Import), funcs: Seq(Nat),
               memory: {"none", "memory", "other"},
               invoke: {"none", "func", "other"}, index: Nat]

TypeAt(m, i) == m.types[i + 1]

\* The places of the imports that are functions.
FuncPlaces(m) == {i \in DOMAIN m.imports : m.imports[i].kind = "func"}

\* The imported functions, in the order of the section.
ImportedFuncs(m) ==
    LET Rank(i) == Cardinality({j \in FuncPlaces(m) : j <= i}) IN
    [k \in 1..Cardinality(FuncPlaces(m)) |->
        m.imports[CHOOSE i \in FuncPlaces(m) : Rank(i) = k]]

\* The functions of a module as WebAssembly numbers them, imports first.
FuncSpace(m) ==
    [i \in 1 .. Len(ImportedFuncs(m)) + Len(m.funcs) |->
        IF i <= Len(ImportedFuncs(m))
          THEN TypeAt(m, ImportedFuncs(m)[i].type)
          ELSE TypeAt(m, m.funcs[i - Len(ImportedFuncs(m))])]

\* Module::validate: every index has something to refer to.
Validates(m) ==
    LET IsFuncType(i) == i + 1 \in DOMAIN m.types /\ TypeAt(m, i) # "struct" IN
    /\ \A i \in DOMAIN m.imports :
        m.imports[i].kind = "func" => IsFuncType(m.imports[i].type)
    /\ \A i \in DOMAIN m.funcs : IsFuncType(m.funcs[i])
    /\ m.invoke = "func" =>
        m.index < Len(ImportedFuncs(m)) + Len(m.funcs)

\* assert_abi, on the types Wasmtime resolved.
AssertAbi(m) ==
    /\ m.memory = "memory"
    /\ m.invoke = "func" /\ FuncSpace(m)[m.index + 1] = "invoke"
    /\ \A i \in DOMAIN m.imports :
        /\ m.imports[i].name = "nitrum.http_get" /\ m.imports[i].kind = "func"
        /\ TypeAt(m, m.imports[i].type) = "http_get"

FuncTypeIndicesDefined(m) == m.funcs

\* assert_abi_bytes: the type indices collected from the import section, of
\* functions only, and then from the function section.
FuncTypeIndices(m) ==
    [i \in 1..Len(ImportedFuncs(m)) |-> ImportedFuncs(m)[i].type] \o m.funcs

\* types.get(i): a function type with this signature.
HasType(m, i, sig) == i + 1 \in DOMAIN m.types /\ TypeAt(m, i) = sig

AssertAbiBytes(m) ==
    /\ m.memory = "memory"
    /\ m.invoke = "func"
    /\ m.index + 1 \in DOMAIN FuncTypeIndices(m)
    /\ HasType(m, FuncTypeIndices(m)[m.index + 1], "invoke")
    /\ \A i \in DOMAIN m.imports :
        /\ m.imports[i].name = "nitrum.http_get" /\ m.imports[i].kind = "func"
        /\ HasType(m, m.imports[i].type, "http_get")
=============================================================================
