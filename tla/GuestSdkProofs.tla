--------------------------- MODULE GuestSdkProofs ---------------------------
(***************************************************************************)
(* Proofs about the boundary between guests and hosts, and about functions *)
(* that are built and deployed with this repository's tools: the egress    *)
(* list, the two ABI checks, and the memory both sides read and write.     *)
(***************************************************************************)
EXTENDS GuestSdk, FiniteSetTheorems, TLAPS

-----------------------------------------------------------------------------
(* Egress lists.                                                           *)

\* A sequence has at most as many elements as places.
LEMMA RangeBound ==
    ASSUME NEW n \in Nat, NEW s, s = [i \in 1..n |-> s[i]]
    PROVE  IsFiniteSet(Range(s)) /\ Cardinality(Range(s)) <= n
<1>1. s \in Surjection(1..n, Range(s))
  BY DEF Surjection, Range
<1>2. IsFiniteSet(1..n) /\ Cardinality(1..n) = n
  BY FS_Interval
<1> QED
  BY <1>1, <1>2, FS_Surjection

\* A list normalize_egress_allow accepts is within the limit: the last origin came
\* when there was room for one more.
LEMMA AcceptedIsWithinLimit ==
    ASSUME NEW n \in Nat, NEW s, s = [i \in 1..n |-> s[i]], ~TooMany(s)
    PROVE  Cardinality(Range(s)) <= MAX_EGRESS_ALLOW
<1>1. CASE n = 0
  <2>1. Range(s) = {}
    BY <1>1 DEF Range
  <2> QED
    BY <2>1, FS_EmptySet, EgressAssumption
<1>2. CASE n # 0
  <2> DEFINE t == SubSeq(s, 1, n - 1)
  <2>0. n \in Nat \ {0} /\ n - 1 \in Nat
    BY <1>2
  <2>1. Len(s) = n
    OBVIOUS
  <2>2. t = [i \in 1..(n - 1) |-> s[i]]
    BY <2>0, <2>1
  <2> HIDE DEF t
  <2>3. t = [i \in 1..(n - 1) |-> t[i]]
    BY <2>2
  <2>4. IsFiniteSet(Range(t)) /\ Cardinality(Range(t)) \in Nat
    BY <2>0, <2>3, RangeBound, FS_CardinalityType
  <2>5. Cardinality(Range(t)) < MAX_EGRESS_ALLOW
    <3>1. n \in 1..Len(s)
      BY <2>0, <2>1
    <3>2. ~(Cardinality(Range(t)) >= MAX_EGRESS_ALLOW)
      BY <3>1, Zenon DEF TooMany, t
    <3> QED
      BY <2>4, <3>2, EgressAssumption
  <2>6. Range(s) = Range(t) \cup {s[n]}
    <3>1. DOMAIN s = 1..n /\ DOMAIN t = 1..(n - 1) /\ 1..n = (1..(n - 1)) \cup {n}
      BY <2>0, <2>2
    <3>2. \A i \in 1..(n - 1) : t[i] = s[i]
      BY <2>2
    <3>3. Range(s) = {s[i] : i \in (1..(n - 1)) \cup {n}}
      BY <3>1, Zenon DEF Range
    <3>4. Range(t) = {s[i] : i \in 1..(n - 1)}
      BY <3>1, <3>2, Zenon DEF Range
    <3> QED
      BY <3>3, <3>4, Zenon
  <2>7. Cardinality(Range(t) \cup {s[n]}) <= Cardinality(Range(t)) + 1
    <3>1. Cardinality(Range(t) \cup {s[n]}) =
            IF s[n] \in Range(t) THEN Cardinality(Range(t)) ELSE Cardinality(Range(t)) + 1
      BY <2>4, FS_AddElement, Zenon
    <3> QED
      BY <2>4, <3>1
  <2>8. Cardinality(Range(t) \cup {s[n]}) \in Nat
    BY <2>4, FS_AddElement, FS_CardinalityType
  <2>9. Cardinality(Range(s)) <= Cardinality(Range(t)) + 1 /\ Cardinality(Range(s)) \in Nat
    BY <2>6, <2>7, <2>8, Zenon
  <2> QED
    BY <2>4, <2>5, <2>9, EgressAssumption
<1> QED
  BY <1>1, <1>2

\* A list without duplicates within the limit is accepted.
LEMMA ShortIsAccepted ==
    ASSUME NEW n \in Nat, NEW s, s = [i \in 1..n |-> s[i]], n <= MAX_EGRESS_ALLOW
    PROVE  ~TooMany(s)
<1>1. SUFFICES ASSUME NEW i \in 1..n,
                      Cardinality(Range(SubSeq(s, 1, i - 1))) >= MAX_EGRESS_ALLOW
               PROVE  FALSE
  <2>1. Len(s) = n
    OBVIOUS
  <2> QED
    BY <2>1 DEF TooMany
<1> DEFINE t == SubSeq(s, 1, i - 1)
<1>2. i - 1 \in Nat /\ i - 1 < n
  OBVIOUS
<1>3. t = [j \in 1..(i - 1) |-> s[j]]
  BY <1>2
<1> HIDE DEF t
<1>4. t = [j \in 1..(i - 1) |-> t[j]]
  BY <1>3
<1>5. IsFiniteSet(Range(t)) /\ Cardinality(Range(t)) <= i - 1 /\ Cardinality(Range(t)) \in Nat
  BY <1>2, <1>4, RangeBound, FS_CardinalityType
<1> QED
  BY <1>1, <1>2, <1>5, EgressAssumption DEF t

\* SetToSeq lists every element of a finite set.
LEMMA ListsAll ==
    ASSUME NEW S, IsFiniteSet(S)
    PROVE  /\ SetToSeq(S) \in [1..Cardinality(S) -> S]
           /\ \A x \in S : \E i \in 1..Cardinality(S) : SetToSeq(S)[i] = x
<1>1. Cardinality(S) \in Nat /\ ExistsBijection(1..Cardinality(S), S)
  BY FS_CardinalityType
<1>2. PICK f : f \in Bijection(1..Cardinality(S), S)
  BY <1>1 DEF ExistsBijection
<1>3. f \in [1..Cardinality(S) -> S] /\ IsInjective(f)
  BY <1>2 DEF Bijection, Injection
<1>4. SetToSeq(S) \in [1..Cardinality(S) -> S] /\ IsInjective(SetToSeq(S))
  BY <1>3 DEF SetToSeq
<1>5. SetToSeq(S) \in Injection(1..Cardinality(S), S)
  BY <1>4, Zenon DEF Injection
<1>6. Cardinality(1..Cardinality(S)) = Cardinality(S)
  BY <1>1, FS_Interval
<1>7. SetToSeq(S) \in Surjection(1..Cardinality(S), S)
  BY <1>5, <1>6, FS_Injection
<1> QED
  BY <1>4, <1>7, Zenon DEF Surjection

\* The origins that the headers hs name.
Listed(hs) == {Origin(hs[i]) : i \in DOMAIN hs}

\* The list as the catalog may store it: its origins parse to themselves.
Storable(S) ==
    /\ S \subseteq EgressOrigin
    /\ IsFiniteSet(S) /\ Cardinality(S) <= MAX_EGRESS_ALLOW
    /\ \A o \in S : Parses(AsUrl(o)) /\ Origin(AsUrl(o)) = o

\* What parse returns is an origin that parses to itself, in a row and in a header.
LEMMA OriginParses ==
    ASSUME NEW u \in Url, Parses(u)
    PROVE  /\ Origin(u) \in EgressOrigin
           /\ Parses(AsUrl(Origin(u)))
           /\ Origin(AsUrl(Origin(u))) = Origin(u)
<1>1. u.host \in HostNames /\ u.port \in Ports \cup {Absent}
  BY Zenon DEF Url, Parses, ValidHost
<1>2. Origin(u) \in EgressOrigin
  BY <1>1 DEF Origin, EgressOrigin
<1>3. Parses(AsUrl(Origin(u)))
  BY DEF Parses, AsUrl, Origin, ValidHost
<1>4. Origin(AsUrl(Origin(u))) = Origin(u)
  BY DEF AsUrl, Origin
<1> QED
  BY <1>2, <1>3, <1>4

\* The list made of headers that parse and are not too many.
LEMMA ParsedList ==
    ASSUME NEW hs \in Headers, \A i \in DOMAIN hs : Parses(hs[i]),
           ~TooMany([i \in DOMAIN hs |-> Origin(hs[i])])
    PROVE  /\ Normalized([i \in DOMAIN hs |-> Origin(hs[i])]) = Listed(hs)
           /\ Storable(Listed(hs))
<1> DEFINE s == [i \in DOMAIN hs |-> Origin(hs[i])]
<1>1. hs \in Seq(Urls) /\ Urls \subseteq Url
  BY GuestAssumption
<1>2. Len(hs) \in Nat /\ DOMAIN hs = 1..Len(hs) /\ \A i \in DOMAIN hs : hs[i] \in Url
  BY <1>1
<1>3. DOMAIN s = DOMAIN hs /\ \A i \in DOMAIN hs : s[i] = Origin(hs[i])
  BY Zenon
<1>4. s = [i \in 1..Len(hs) |-> s[i]]
  BY <1>2, <1>3
<1>5. ~TooMany(s)
  OBVIOUS
<1> HIDE DEF s
<1>6. Range(s) = Listed(hs)
  BY <1>3, Zenon DEF Range, Listed
<1>7. IsFiniteSet(Range(s)) /\ Cardinality(Range(s)) <= MAX_EGRESS_ALLOW
  BY <1>2, <1>4, <1>5, RangeBound, AcceptedIsWithinLimit, Zenon
<1>8. \A i \in DOMAIN hs : /\ Origin(hs[i]) \in EgressOrigin
                           /\ Parses(AsUrl(Origin(hs[i])))
                           /\ Origin(AsUrl(Origin(hs[i]))) = Origin(hs[i])
  BY <1>2, OriginParses, Zenon
<1>9. Storable(Listed(hs))
  BY <1>6, <1>7, <1>8, Zenon DEF Storable, Listed
<1> QED
  BY <1>6, <1>9, Zenon DEF Normalized, s

\* One header per origin of such a list is accepted, and makes the same list.
LEMMA SentList ==
    ASSUME NEW S, Storable(S)
    PROVE  LET sent == [i \in 1..Cardinality(S) |-> AsUrl(SetToSeq(S)[i])]
               origins == [i \in DOMAIN sent |-> Origin(sent[i])] IN
           /\ \A i \in DOMAIN sent : Parses(sent[i])
           /\ ~TooMany(origins)
           /\ Normalized(origins) = S
<1> DEFINE q == SetToSeq(S)
           n == Cardinality(S)
           sent == [i \in 1..n |-> AsUrl(q[i])]
           origins == [i \in DOMAIN sent |-> Origin(sent[i])]
<1>1. /\ n \in Nat /\ n <= MAX_EGRESS_ALLOW
      /\ q \in [1..n -> S] /\ \A x \in S : \E i \in 1..n : q[i] = x
  BY FS_CardinalityType, ListsAll, Zenon DEF Storable
<1> HIDE DEF q, n
<1>2. DOMAIN sent = 1..n /\ \A i \in 1..n : sent[i] = AsUrl(q[i]) /\ q[i] \in S
  BY <1>1, Zenon
<1>3. DOMAIN origins = 1..n /\ \A i \in 1..n : origins[i] = Origin(sent[i])
  BY <1>2, Zenon
<1>4. \A i \in 1..n : Parses(sent[i]) /\ origins[i] = q[i]
  BY <1>2, <1>3, Zenon DEF Storable
<1>5. origins = [i \in 1..n |-> origins[i]]
  BY <1>3
<1>6. /\ \A i \in DOMAIN sent : Parses(sent[i])
      /\ ~TooMany(origins) /\ Normalized(origins) = S
  <2> HIDE DEF sent, origins
  <2>1. ~TooMany(origins)
    BY <1>1, <1>5, ShortIsAccepted, Zenon
  <2>2. Range(origins) = S
    <3>1. Range(origins) = {origins[i] : i \in 1..n}
      BY <1>3, Zenon DEF Range
    <3>2. {origins[i] : i \in 1..n} = {q[i] : i \in 1..n}
      BY <1>4, Zenon
    <3>3. {q[i] : i \in 1..n} = S
      BY <1>1, Zenon
    <3> QED
      BY <3>1, <3>2, <3>3, Zenon
  <2> QED
    BY <1>2, <1>4, <2>1, <2>2, Zenon DEF Normalized
<1> QED
  BY <1>6, Zenon DEF q, n

-----------------------------------------------------------------------------
(* The two ABI checks.                                                     *)

\* Every imported function is one of the imports.
LEMMA ImportedFuncsAreImports ==
    ASSUME NEW m \in WasmModule
    PROVE  \E n \in Nat :
             /\ DOMAIN ImportedFuncs(m) = 1..n /\ Len(ImportedFuncs(m)) = n
             /\ ImportedFuncs(m) \in Seq(Import)
             /\ \A k \in 1..n : \E i \in FuncPlaces(m) : ImportedFuncs(m)[k] = m.imports[i]
<1> DEFINE S == FuncPlaces(m)
           n == Cardinality(S)
           Upto(i) == {j \in S : j <= i}
           f == [i \in S |-> Cardinality(Upto(i))]
<1>1. m.imports \in Seq(Import)
  BY Zenon DEF WasmModule
<1>2. Len(m.imports) \in Nat /\ DOMAIN m.imports = 1..Len(m.imports)
  BY <1>1
<1>3. S \subseteq 1..Len(m.imports)
  BY <1>2 DEF FuncPlaces
<1>4. IsFiniteSet(S) /\ n \in Nat
  <2>1. IsFiniteSet(1..Len(m.imports))
    BY <1>2, FS_Interval
  <2> HIDE DEF S
  <2> QED
    BY <1>3, <2>1, FS_Subset, FS_CardinalityType
<1> HIDE DEF S
<1>5. \A i \in S : /\ IsFiniteSet(Upto(i)) /\ Cardinality(Upto(i)) \in Nat
                   /\ Cardinality(Upto(i)) <= n /\ i \in Upto(i) /\ Upto(i) # {}
  <2>1. SUFFICES ASSUME NEW i \in S
                 PROVE  /\ IsFiniteSet(Upto(i)) /\ Cardinality(Upto(i)) \in Nat
                        /\ Cardinality(Upto(i)) <= n /\ i \in Upto(i) /\ Upto(i) # {}
    OBVIOUS
  <2>2. Upto(i) \subseteq S /\ i \in Upto(i)
    BY <1>3
  <2> HIDE DEF Upto
  <2> QED
    BY <1>4, <2>2, FS_Subset, FS_CardinalityType
<1>6. f \in [S -> 1..n]
  <2>1. \A i \in S : Cardinality(Upto(i)) # 0
    BY <1>5, FS_EmptySet
  <2> HIDE DEF Upto, n
  <2> QED
    BY <1>4, <1>5, <2>1
<1>7. ASSUME NEW i \in S, NEW j \in S, i < j PROVE f[i] # f[j]
  <2>1. Upto(i) \subseteq Upto(j) /\ j \in Upto(j) /\ j \notin Upto(i)
    <3>1. S \subseteq Int
      BY <1>2, <1>3
    <3>2. \A x \in S : x <= i => x <= j
      BY <1>7, <3>1
    <3>3. j <= j /\ ~(j <= i)
      BY <1>7, <3>1
    <3> QED
      BY <3>2, <3>3, Zenon
  <2>2. Upto(i) # Upto(j)
    BY <2>1, Zenon
  <2>3. Cardinality(Upto(i)) # Cardinality(Upto(j))
    <3> HIDE DEF Upto
    <3> QED
      BY <1>5, <2>1, <2>2, FS_Subset
  <2> QED
    BY <2>3, Zenon
<1>8. IsInjective(f)
  <2>1. ASSUME NEW i \in S, NEW j \in S, f[i] = f[j] PROVE i = j
    <3>1. ~(i < j) /\ ~(j < i)
      BY <1>7, <2>1
    <3> QED
      BY <1>2, <1>3, <3>1
  <2>2. DOMAIN f = S
    OBVIOUS
  <2> HIDE DEF f
  <2> QED
    BY <2>1, <2>2, Zenon DEF IsInjective
<1>9. \A k \in 1..n : \E i \in S : f[i] = k
  <2> HIDE DEF f
  <2>1. f \in Injection(S, 1..n)
    BY <1>6, <1>8, Zenon DEF Injection
  <2>2. IsFiniteSet(1..n) /\ Cardinality(1..n) = n
    BY <1>4, FS_Interval
  <2>3. f \in Surjection(S, 1..n)
    BY <2>1, <2>2, FS_Injection
  <2> QED
    BY <2>3, Zenon DEF Surjection
<1>10. ImportedFuncs(m) = [k \in 1..n |-> m.imports[CHOOSE i \in S : Cardinality(Upto(i)) = k]]
  BY Zenon DEF ImportedFuncs, S
<1>11. \A k \in 1..n : (CHOOSE i \in S : Cardinality(Upto(i)) = k) \in S
  <2>1. \A k \in 1..n : \E i \in S : Cardinality(Upto(i)) = k
    BY <1>9, Zenon
  <2> QED
    BY <2>1, Zenon
<1>12. \A i \in S : m.imports[i] \in Import
  BY <1>1, <1>2, <1>3
<1>13. ImportedFuncs(m) \in [1..n -> Import]
  BY <1>10, <1>11, <1>12, Zenon
<1>14. \A k \in 1..n : \E i \in S : ImportedFuncs(m)[k] = m.imports[i]
  BY <1>10, <1>11, Zenon
<1>15. ImportedFuncs(m) \in Seq(Import) /\ Len(ImportedFuncs(m)) = n /\ DOMAIN ImportedFuncs(m) = 1..n
  BY <1>4, <1>13
<1> QED
  BY <1>4, <1>14, <1>15, Zenon DEF S

\* A sequence of type indices that goes on with another.
LEMMA IndicesConcat ==
    ASSUME NEW a \in Seq(Nat), NEW b \in Seq(Nat)
    PROVE  /\ DOMAIN (a \o b) = 1..(Len(a) + Len(b))
           /\ \A k \in 1..(Len(a) + Len(b)) :
                (a \o b)[k] = IF k <= Len(a) THEN a[k] ELSE b[k - Len(a)]
<1>1. Len(a \o b) = Len(a) + Len(b)
  OBVIOUS
<1>2. a \o b \in Seq(Nat)
  OBVIOUS
<1>3. \A k \in 1..(Len(a) + Len(b)) :
        (a \o b)[k] = IF k <= Len(a) THEN a[k] ELSE b[k - Len(a)]
  OBVIOUS
<1> QED
  BY <1>1, <1>2, <1>3

\* On a module that validates, assert_abi_bytes and assert_abi agree.
LEMMA AbiChecksAgree ==
    ASSUME NEW m \in WasmModule, Validates(m)
    PROVE  AssertAbi(m) <=> AssertAbiBytes(m)
<1> DEFINE F == ImportedFuncs(m)
<1>1. PICK n \in Nat :
        /\ DOMAIN F = 1..n /\ Len(F) = n /\ F \in Seq(Import)
        /\ \A k \in 1..n : \E i \in FuncPlaces(m) : F[k] = m.imports[i]
  BY ImportedFuncsAreImports, Zenon
<1> HIDE DEF F
<1>2. m.imports \in Seq(Import) /\ m.funcs \in Seq(Nat) /\ m.types \in Seq(TypeDefs) /\ m.index \in Nat
  BY Zenon DEF WasmModule
<1> DEFINE types == [i \in 1..n |-> F[i].type]
           l == Len(m.funcs)
<1>3. types \in Seq(Nat) /\ Len(types) = n
  <2>1. \A i \in 1..n : F[i] \in Import
    BY <1>1
  <2>2. \A i \in 1..n : F[i].type \in Nat
    BY <2>1, Zenon DEF Import
  <2>3. types \in [1..n -> Nat]
    BY <2>2, Zenon
  <2> QED
    BY <2>3
<1>4. l \in Nat /\ DOMAIN m.funcs = 1..l
  BY <1>2
<1>5. FuncTypeIndices(m) = types \o m.funcs
  BY <1>1 DEF FuncTypeIndices, F
<1>6. \A k \in 1..n : types[k] = F[k].type
  OBVIOUS
<1> HIDE DEF types
<1>7. DOMAIN FuncTypeIndices(m) = 1..(n + l)
  BY <1>2, <1>3, <1>5, IndicesConcat, Zenon
<1>8. \A k \in 1..(n + l) : FuncTypeIndices(m)[k] = IF k <= n THEN F[k].type ELSE m.funcs[k - n]
  <2>1. \A k \in 1..(n + l) :
          FuncTypeIndices(m)[k] = IF k <= n THEN types[k] ELSE m.funcs[k - n]
    BY <1>2, <1>3, <1>5, IndicesConcat, Zenon
  <2>2. \A k \in 1..(n + l) : k <= n => k \in 1..n
    BY <1>1, <1>4
  <2> QED
    BY <1>6, <2>1, <2>2, Zenon
<1>9. \A k \in 1..(n + l) : FuncSpace(m)[k] = TypeAt(m, FuncTypeIndices(m)[k])
  <2>1. FuncSpace(m) = [i \in 1..(n + l) |-> IF i <= n THEN TypeAt(m, F[i].type)
                                                       ELSE TypeAt(m, m.funcs[i - n])]
    BY <1>1, Zenon DEF FuncSpace, F
  <2> QED
    BY <1>8, <2>1, Zenon
<1>10. m.invoke = "func" => m.index + 1 \in 1..(n + l)
  BY <1>1, <1>2, <1>4 DEF Validates, F
\* An index the module declares refers to a function type.
<1>11. ASSUME NEW k \in 1..(n + l) PROVE FuncTypeIndices(m)[k] + 1 \in DOMAIN m.types
  <2>1. CASE k <= n
    <3>1. k \in 1..n
      BY <1>1, <1>4, <2>1
    <3>2. PICK i \in FuncPlaces(m) : F[k] = m.imports[i]
      BY <1>1, <3>1
    <3>3. i \in DOMAIN m.imports /\ m.imports[i].kind = "func"
      BY DEF FuncPlaces
    <3>4. m.imports[i].type + 1 \in DOMAIN m.types
      BY <3>3, Zenon DEF Validates
    <3> QED
      BY <1>8, <2>1, <3>2, <3>4
  <2>2. CASE ~(k <= n)
    <3>1. k - n \in DOMAIN m.funcs
      BY <1>1, <1>4, <2>2
    <3>2. m.funcs[k - n] + 1 \in DOMAIN m.types
      BY <3>1, Zenon DEF Validates
    <3> QED
      BY <1>8, <2>2, <3>2
  <2> QED
    BY <2>1, <2>2
<1>12. ASSUME NEW i \in DOMAIN m.imports, m.imports[i].kind = "func"
       PROVE  m.imports[i].type + 1 \in DOMAIN m.types
  BY <1>12, Zenon DEF Validates
<1>13. m.invoke = "func" =>
         (FuncSpace(m)[m.index + 1] = "invoke" <=>
            /\ m.index + 1 \in DOMAIN FuncTypeIndices(m)
            /\ HasType(m, FuncTypeIndices(m)[m.index + 1], "invoke"))
  <2> HIDE DEF l
  <2> QED
    BY <1>7, <1>9, <1>10, <1>11, Zenon DEF HasType
<1>14. ASSUME NEW i \in DOMAIN m.imports
       PROVE  (/\ m.imports[i].name = "nitrum.http_get" /\ m.imports[i].kind = "func"
               /\ TypeAt(m, m.imports[i].type) = "http_get")
              <=> (/\ m.imports[i].name = "nitrum.http_get" /\ m.imports[i].kind = "func"
                   /\ HasType(m, m.imports[i].type, "http_get"))
  BY <1>12, Zenon DEF HasType
<1> QED
  BY <1>13, <1>14, Zenon DEF AssertAbi, AssertAbiBytes

-----------------------------------------------------------------------------
(* The inductive invariant.                                                *)

\* From the time the headers are sent the list is what they name, as the catalog
\* may store it; what was fetched is named by one of them.
ListKept ==
    /\ deploy # Absent \/ pc \notin {"idle", "done"} =>
        allow = Listed(headers) /\ Storable(allow)
    /\ call.fetched # Absent =>
        \E i \in DOMAIN headers : Names(call.fetched) = Names(headers[i])

\* A module is kept from publish to compile, and published only when valid and
\* within the ABI.
ModuleKept ==
    /\ pc \notin {"published", "compile", "done"} => module = Absent
    /\ pc \in {"published", "compile"} =>
        module \in Modules /\ Validates(module) /\ AssertAbiBytes(module)
    /\ module # Absent =>
        (result = "Refused" <=> ~(Validates(module) /\ AssertAbiBytes(module)))

\* There is a call only once there is a guest; the buffer of an SDK guest lies in
\* its memory.
CallsInMemory ==
    /\ pc \notin {"input", "guest", "done"} => call = NoCall
    /\ WritesOnlyTheBuffer
    /\ sdk # Absent /\ sdk.out_ptr # Absent =>
        sdk.out_ptr + OUT_CAP <= memory.pages * PAGE
    /\ SdkFetchDelivers

\* A run has a result when it is done, and two of the errors are never one.
ResultsOK ==
    /\ pc # "done" => result = "None"
    /\ result \notin {"Domain", "OutOfBounds"}

SdkInv == SdkTypeOK /\ ListKept /\ ModuleKept /\ CallsInMemory /\ ResultsOK

-----------------------------------------------------------------------------
(* Memory and buffers.                                                     *)

\* The pages made room for hold the bytes.
LEMMA PagesHold ==
    ASSUME NEW n \in Nat
    PROVE  PagesFor(n) \in Nat /\ n <= PagesFor(n) * PAGE
BY DEF PagesFor, PAGE, KiB

\* StoreLimits: no more than the module declares, and no more than 64 MiB.
LEMMA LimitFits ==
    ASSUME NEW m \in [pages: Nat, max: Nat]
    PROVE  /\ Limit(m) \in Nat /\ Limit(m) <= m.max
           /\ Limit(m) * PAGE <= MAX_GUEST_MEMORY_BYTES
<1>1. m.max \in Nat
  OBVIOUS
<1>2. MAX_GUEST_MEMORY_BYTES \div PAGE = 1024
  BY DEF MAX_GUEST_MEMORY_BYTES, PAGE, KiB
<1> QED
  BY <1>1, <1>2 DEF Limit, MAX_GUEST_MEMORY_BYTES, PAGE, KiB

\* What a memory is.
MemoryOK(m) ==
    /\ m \in [pages: Nat, max: Nat]
    /\ m.pages * PAGE <= MAX_GUEST_MEMORY_BYTES
    /\ m.pages <= m.max

\* A memory that grows within its limit stays a memory.
LEMMA GrowthKeepsMemory ==
    ASSUME NEW m, MemoryOK(m), NEW p \in Nat, p <= Limit(m) \/ p = m.pages
    PROVE  /\ MemoryOK([m EXCEPT !.pages = p])
           /\ [m EXCEPT !.pages = p].pages = p
           /\ [m EXCEPT !.pages = p].max = m.max
<1>1. m \in [pages: Nat, max: Nat]
  BY DEF MemoryOK
<1> DEFINE g == [m EXCEPT !.pages = p]
<1>2. g \in [pages: Nat, max: Nat] /\ g.pages = p /\ g.max = m.max
  BY <1>1
<1>3. /\ Limit(m) \in Nat /\ Limit(m) <= m.max
      /\ Limit(m) * PAGE <= MAX_GUEST_MEMORY_BYTES
  BY <1>1, LimitFits
<1>4. p * PAGE <= MAX_GUEST_MEMORY_BYTES /\ p <= m.max
  BY <1>1, <1>3 DEF MemoryOK, MAX_GUEST_MEMORY_BYTES, PAGE, KiB
<1> HIDE DEF g
<1>5. MemoryOK(g)
  BY <1>2, <1>4 DEF MemoryOK
<1> QED
  BY <1>2, <1>5 DEF g

\* The pages GrowAndAccess and __invoke ask for are enough.
LEMMA GrownHolds ==
    ASSUME NEW n \in Nat, NEW q \in Nat
    PROVE  LET p == IF PagesFor(n) > q THEN PagesFor(n) ELSE q IN
           p \in Nat /\ q <= p /\ n <= p * PAGE
BY PagesHold DEF PAGE, KiB

\* What was written stays inside the memory when it grows.
LEMMA WrittenStays ==
    ASSUME MemoryOK(memory), MemoryOK(memory'), memory.pages <= memory'.pages,
           NEW ptr \in Int, NEW len \in Int, InMemory(ptr, len)
    PROVE  InMemory(ptr, len)'
<1>1. memory.pages \in Nat /\ memory'.pages \in Nat
  BY DEF MemoryOK
<1> QED
  BY <1>1 DEF InMemory, PAGE, KiB

\* Sizes on the wire.
LEMMA Sizes ==
    ASSUME NEW n \in Nat
    PROVE  /\ Base64(n) \in Nat
           /\ Envelope(n) \in Nat /\ Envelope(n) > 0
           /\ n <= MAX_HTTP_BODY_BYTES => Envelope(n) <= OUT_CAP
           /\ \A k \in Nat : WireBytes(n, k) \in Nat
BY DEF Base64, Envelope, MAX_HTTP_BODY_BYTES, OUT_CAP, KiB, WireBytes

-----------------------------------------------------------------------------
(* How an http_get ends.                                                   *)

\* The record of a call.
Call == [code: Int, out_ptr: Int, out_cap: Int, written: Nat,
         fetched: Urls \cup {Absent}, answer: HttpBodies \cup {Absent}]

\* A call that has not written but into the buffer it was offered.
WithinBuffer(c) ==
    /\ c.code > 0 => c.written = c.code /\ c.written <= c.out_cap /\ InMemory(c.out_ptr, c.written)
    /\ c.code <= 0 => c.written = 0

\* A call that delivers what the host accepted.
Delivers(c) ==
    c.answer # Absent /\ c.answer <= MAX_HTTP_BODY_BYTES => c.written = Envelope(c.answer)

\* A call that fails has written nothing.
LEMMA FailedCall ==
    ASSUME NEW code \in Int, code <= 0, NEW u \in Urls \cup {Absent},
           NEW answer \in HttpBodies \cup {Absent}, NEW ptr \in Int, NEW cap \in Int
    PROVE  LET c == Failed(code, u, answer, ptr, cap) IN
           /\ c \in Call /\ WithinBuffer(c)
           /\ c.fetched = u /\ c.answer = answer /\ c.written = 0
<1> DEFINE c == Failed(code, u, answer, ptr, cap)
<1>1. /\ c \in Call /\ c.code = code /\ c.fetched = u /\ c.answer = answer /\ c.written = 0
  BY DEF Failed, Call
<1> HIDE DEF c
<1>2. WithinBuffer(c)
  BY <1>1 DEF WithinBuffer
<1> QED
  BY <1>1, <1>2 DEF c

\* So has one that ends before anything is fetched.
LEMMA NothingFetched ==
    ASSUME NEW code \in Int, code <= 0, NEW ptr \in Int, NEW cap \in Int
    PROVE  LET c == Failed(code, Absent, Absent, ptr, cap) IN
           c \in Call /\ WithinBuffer(c) /\ c.fetched = Absent /\ c.answer = Absent
<1> DEFINE c == Failed(code, Absent, Absent, ptr, cap)
<1>1. /\ c \in Call /\ c.code = code /\ c.fetched = Absent /\ c.answer = Absent /\ c.written = 0
  BY DEF Failed, Call
<1> HIDE DEF c
<1>2. WithinBuffer(c)
  BY <1>1 DEF WithinBuffer
<1> QED
  BY <1>1, <1>2 DEF c

\* A call whose envelope fits the buffer and the memory writes all of it.
LEMMA DeliveredCall ==
    ASSUME NEW len \in Nat, len > 0, NEW u \in Urls \cup {Absent},
           NEW answer \in HttpBodies \cup {Absent}, NEW ptr \in Int, NEW cap \in Int
    PROVE  LET c == Deliver(len, u, answer, ptr, cap) IN
           /\ c \in Call /\ WithinBuffer(c)
           /\ c.fetched = u /\ c.answer = answer
           /\ len <= cap /\ InMemory(ptr, len) => c.written = len
<1> DEFINE c == Deliver(len, u, answer, ptr, cap)
<1>1. CASE len > cap
  <2>1. c = Failed(ERR_TOO_LARGE, u, answer, ptr, cap)
    BY <1>1, Zenon DEF Deliver
  <2>2. ERR_TOO_LARGE \in Int /\ ERR_TOO_LARGE <= 0 /\ ~(len <= cap)
    BY <1>1 DEF ERR_TOO_LARGE
  <2>3. c \in Call /\ WithinBuffer(c) /\ c.fetched = u /\ c.answer = answer
    BY <2>1, <2>2, FailedCall
  <2> QED
    BY <2>2, <2>3, Zenon
<1>2. CASE ~(len > cap) /\ ~InMemory(ptr, len)
  <2>1. c = Failed(ERR_BAD_ARGS, u, answer, ptr, cap)
    BY <1>2, Zenon DEF Deliver
  <2>2. ERR_BAD_ARGS \in Int /\ ERR_BAD_ARGS <= 0
    BY DEF ERR_BAD_ARGS
  <2>3. c \in Call /\ WithinBuffer(c) /\ c.fetched = u /\ c.answer = answer
    BY <2>1, <2>2, FailedCall
  <2> QED
    BY <1>2, <2>3, Zenon
<1>3. CASE ~(len > cap) /\ InMemory(ptr, len)
  <2>1. c = [Failed(len, u, answer, ptr, cap) EXCEPT !.written = len]
    BY <1>3, Zenon DEF Deliver
  <2>2. /\ c \in Call /\ c.code = len /\ c.written = len /\ c.out_ptr = ptr /\ c.out_cap = cap
        /\ c.fetched = u /\ c.answer = answer
    BY <2>1 DEF Failed, Call
  <2> HIDE DEF c
  <2>3. WithinBuffer(c)
    BY <1>3, <2>2 DEF WithinBuffer
  <2> QED
    BY <2>2, <2>3, Zenon DEF c
<1> QED
  BY <1>1, <1>2, <1>3, Zenon

\* fetch_url: only a URL on the list is fetched, nothing is written but into the
\* buffer, and a buffer of OUT_CAP in the memory takes every answer accepted.
LEMMA FetchedCall ==
    ASSUME NEW u \in Urls, NEW ptr \in Int, NEW cap \in Int, NEW c \in FetchUrl(u, ptr, cap)
    PROVE  /\ c \in Call /\ WithinBuffer(c)
           /\ c.fetched # Absent => c.fetched = u /\ IsAllowed(u, allow)
           /\ MemoryOK(memory) /\ cap = OUT_CAP /\ ptr + OUT_CAP <= memory.pages * PAGE => Delivers(c)
<1>0. /\ ERR_DENIED \in Int /\ ERR_DENIED <= 0 /\ ERR_TIMEOUT \in Int /\ ERR_TIMEOUT <= 0
      /\ ERR_TRANSPORT \in Int /\ ERR_TRANSPORT <= 0 /\ ERR_TOO_LARGE \in Int /\ ERR_TOO_LARGE <= 0
  BY DEF ERR_DENIED, ERR_TIMEOUT, ERR_TRANSPORT, ERR_TOO_LARGE
<1>1. CASE ~IsAllowed(u, allow)
  <2>1. c = Failed(ERR_DENIED, Absent, Absent, ptr, cap)
    BY <1>1, Zenon DEF FetchUrl
  <2>2. ERR_DENIED \in Int /\ ERR_DENIED <= 0
    BY DEF ERR_DENIED
  <2>3. c \in Call /\ WithinBuffer(c) /\ c.fetched = Absent /\ c.answer = Absent
    BY <2>1, <2>2, NothingFetched
  <2> QED
    BY <2>3, Zenon DEF Delivers
<1>2. CASE IsAllowed(u, allow)
  <2>1. \/ \E code \in {ERR_TIMEOUT, ERR_TRANSPORT} : c = Failed(code, u, Absent, ptr, cap)
        \/ \E answer \in HttpBodies :
             c = IF answer > MAX_HTTP_BODY_BYTES
                   THEN Failed(ERR_TOO_LARGE, u, answer, ptr, cap)
                   ELSE Deliver(Envelope(answer), u, answer, ptr, cap)
    BY <1>2, Zenon DEF FetchUrl
  <2>2. CASE \E code \in {ERR_TIMEOUT, ERR_TRANSPORT} : c = Failed(code, u, Absent, ptr, cap)
    <3>0. u \in Urls \cup {Absent} /\ Absent \in HttpBodies \cup {Absent}
      OBVIOUS
    <3>1. c \in Call /\ WithinBuffer(c) /\ c.fetched = u /\ c.answer = Absent
      <4>1. PICK code \in {ERR_TIMEOUT, ERR_TRANSPORT} : c = Failed(code, u, Absent, ptr, cap)
        BY <2>2
      <4>2. code \in Int /\ code <= 0
        BY <1>0
      <4> QED
        BY <3>0, <4>1, <4>2, FailedCall
    <3> QED
      BY <1>2, <3>1, Zenon DEF Delivers
  <2>3. ASSUME NEW answer \in HttpBodies, answer > MAX_HTTP_BODY_BYTES,
               c = Failed(ERR_TOO_LARGE, u, answer, ptr, cap)
        PROVE  /\ c \in Call /\ WithinBuffer(c)
               /\ c.fetched # Absent => c.fetched = u /\ IsAllowed(u, allow)
               /\ Delivers(c)
    <3>0. u \in Urls \cup {Absent} /\ answer \in HttpBodies \cup {Absent}
      OBVIOUS
    <3>1. c \in Call /\ WithinBuffer(c) /\ c.fetched = u /\ c.answer = answer
      BY <1>0, <2>3, <3>0, FailedCall
    <3>2. ~(answer <= MAX_HTTP_BODY_BYTES)
      BY <2>3, GuestAssumption DEF MAX_HTTP_BODY_BYTES, KiB
    <3> QED
      BY <1>2, <3>1, <3>2, Zenon DEF Delivers
  <2>4. ASSUME NEW answer \in HttpBodies, ~(answer > MAX_HTTP_BODY_BYTES),
               c = Deliver(Envelope(answer), u, answer, ptr, cap)
        PROVE  /\ c \in Call /\ WithinBuffer(c)
               /\ c.fetched # Absent => c.fetched = u /\ IsAllowed(u, allow)
               /\ MemoryOK(memory) /\ cap = OUT_CAP /\ ptr + OUT_CAP <= memory.pages * PAGE => Delivers(c)
    <3>0. u \in Urls \cup {Absent} /\ answer \in HttpBodies \cup {Absent}
      OBVIOUS
    <3>1. answer \in Nat /\ answer <= MAX_HTTP_BODY_BYTES
      BY <2>4, GuestAssumption DEF MAX_HTTP_BODY_BYTES, KiB
    <3>2. Envelope(answer) \in Nat /\ Envelope(answer) > 0 /\ Envelope(answer) <= OUT_CAP
      BY <3>1, Sizes
    <3>3. /\ c \in Call /\ WithinBuffer(c) /\ c.fetched = u /\ c.answer = answer
          /\ Envelope(answer) <= cap /\ InMemory(ptr, Envelope(answer)) => c.written = Envelope(answer)
      BY <2>4, <3>0, <3>2, DeliveredCall
    <3>4. ASSUME MemoryOK(memory), cap = OUT_CAP, ptr + OUT_CAP <= memory.pages * PAGE
          PROVE  Envelope(answer) <= cap /\ InMemory(ptr, Envelope(answer))
      <4>1. memory.pages \in Nat
        BY <3>4 DEF MemoryOK
      <4>2. ptr + Envelope(answer) <= memory.pages * PAGE
        BY <3>2, <3>4, <4>1 DEF OUT_CAP, PAGE, KiB
      <4> QED
        BY <3>2, <3>4, <4>2, Zenon DEF InMemory
    <3> QED
      BY <1>2, <3>3, <3>4, Zenon DEF Delivers
  <2> QED
    BY <2>1, <2>2, <2>3, <2>4, Zenon
<1> QED
  BY <1>1, <1>2

-----------------------------------------------------------------------------
(* What steps of a kind have in common.                                    *)

\* The type invariant, in the terms of the lemmas above.
LEMMA Types ==
    ASSUME SdkTypeOK
    PROVE  /\ MemoryOK(memory) /\ call \in Call
           /\ sdk # Absent => sdk \in Sdk
           /\ sdk # Absent /\ sdk.out_ptr # Absent => sdk.out_ptr \in Nat
           /\ sdk # Absent /\ sdk.out_len # Absent => sdk.out_len \in Int
<1>1. MemoryOK(memory) /\ call \in Call /\ (sdk # Absent => sdk \in Sdk)
  BY DEF SdkTypeOK, GuestTypeOK, MemoryOK, Call
<1> QED
  BY <1>1, Zenon DEF Sdk

\* Before there is a guest the memory, the calls and the guest stay as they are.
LEMMA EarlyCalls ==
    ASSUME CallsInMemory, UNCHANGED <<memory, call, sdk>>,
           pc \notin {"input", "guest", "done"} \/ pc' \in {"input", "guest", "done"}
    PROVE  CallsInMemory'
<1>1. pc' \notin {"input", "guest", "done"} => call' = NoCall
  BY Zenon DEF CallsInMemory
<1>2. WritesOnlyTheBuffer' /\ SdkFetchDelivers'
  BY Zenon DEF CallsInMemory, WritesOnlyTheBuffer, SdkFetchDelivers, InMemory
<1>3. (sdk # Absent /\ sdk.out_ptr # Absent =>
        sdk.out_ptr + OUT_CAP <= memory.pages * PAGE)'
  BY Zenon DEF CallsInMemory
<1> QED
  BY <1>1, <1>2, <1>3, Zenon DEF CallsInMemory

\* A step of publish, deploy or storage.
LEMMA EarlyStep ==
    ASSUME SdkInv, UNCHANGED <<memory, input, call, sdk>>, pc \notin {"input", "guest", "done"},
           pc' \in GuestPC,
           (pc' # "done" /\ result' = result) \/ (pc' = "done" /\ result' \in {"Refused", "Compile"}),
           headers' \in Headers \cup {<<>>}, module' \in Modules \cup {Absent},
           deploy' \in Headers \cup {Absent},
           Storable(allow') \/ UNCHANGED allow,
           deploy' # Absent \/ pc' \notin {"idle", "done"} =>
             allow' = Listed(headers') /\ Storable(allow'),
           ModuleKept'
    PROVE  SdkInv'
<1>1. allow' \subseteq EgressOrigin /\ Cardinality(allow') <= MAX_EGRESS_ALLOW
  BY Zenon DEF SdkInv, SdkTypeOK, GuestTypeOK, Storable
<1>2. result' \in GuestResults /\ result' \notin {"Domain", "OutOfBounds"}
        /\ (pc' # "done" => result' = "None")
  BY DEF SdkInv, SdkTypeOK, GuestTypeOK, GuestResults, ResultsOK
<1>3. GuestTypeOK'
  BY <1>1, <1>2 DEF SdkInv, SdkTypeOK, GuestTypeOK
<1>4. SdkTypeOK'
  BY <1>3, Zenon DEF SdkInv, SdkTypeOK
<1>5. CallsInMemory'
  BY EarlyCalls, Zenon DEF SdkInv
<1>6. call = NoCall
  BY Zenon DEF SdkInv, CallsInMemory
<1>7. call'.fetched = Absent
  BY <1>6 DEF NoCall
<1>8. ListKept'
  BY <1>7, Zenon DEF ListKept
<1> QED
  BY <1>2, <1>4, <1>5, <1>8, Zenon DEF SdkInv, ResultsOK

\* A step of the host, or of the guest, once the module is compiled.
LEMMA GuestStep ==
    ASSUME SdkInv, UNCHANGED <<headers, module, allow, deploy>>,
           pc \in {"run", "instantiate", "input", "guest"},
           \/ pc' \in {"instantiate", "input", "guest"} /\ result' = result
           \/ pc' = "done" /\ result' \in {"PayloadTooLarge", "Invoke", "Trap", "Ok"},
           MemoryOK(memory'), input' \in 0..MAX_INVOKE_BODY_BYTES, call' \in Call,
           sdk' \in Sdk \cup {Absent},
           call'.fetched # Absent =>
             call' = call \/ \E i \in DOMAIN headers : Names(call'.fetched) = Names(headers[i]),
           CallsInMemory'
    PROVE  SdkInv'
<1>1. pc' \in GuestPC /\ result' \in GuestResults
  BY DEF SdkInv, SdkTypeOK, GuestTypeOK, GuestPC, GuestResults
<1>2. GuestTypeOK'
  BY <1>1 DEF SdkInv, SdkTypeOK, GuestTypeOK, MemoryOK, Call
<1>3. SdkTypeOK'
  BY <1>2, Zenon DEF SdkInv, SdkTypeOK
<1>4. ListKept'
  <2>1. pc \notin {"idle", "done"}
    OBVIOUS
  <2> QED
    BY <2>1, Zenon DEF SdkInv, ListKept
<1>5. ModuleKept'
  <2>1. pc \notin {"published", "compile", "done"} /\ pc' \notin {"published", "compile"}
    OBVIOUS
  <2>2. module' = Absent
    BY <2>1, Zenon DEF SdkInv, ModuleKept
  <2> QED
    BY <2>1, <2>2, Zenon DEF ModuleKept
<1>6. ResultsOK'
  <2>1. pc # "done"
    OBVIOUS
  <2> QED
    BY <2>1 DEF SdkInv, ResultsOK
<1> QED
  BY <1>3, <1>4, <1>5, <1>6, Zenon DEF SdkInv

\* What calls have written and buffers hold stays in a memory that grows.
LEMMA CallsGrow ==
    ASSUME SdkInv, MemoryOK(memory'), memory.pages <= memory'.pages, UNCHANGED call,
           pc' \in {"input", "guest", "done"}, sdk' # Absent => sdk # Absent,
           sdk' # Absent /\ sdk'.out_ptr # Absent =>
             sdk'.out_ptr + OUT_CAP <= memory'.pages * PAGE
    PROVE  CallsInMemory'
<1>1. MemoryOK(memory) /\ call \in Call
  BY Types, Zenon DEF SdkInv
<1>2. call.out_ptr \in Int /\ call.written \in Int
  BY <1>1 DEF Call
<1>3. WritesOnlyTheBuffer'
  <2>1. InMemory(call.out_ptr, call.written) => InMemory(call.out_ptr, call.written)'
    BY <1>1, <1>2, WrittenStays
  <2>2. WritesOnlyTheBuffer
    BY Zenon DEF SdkInv, CallsInMemory
  <2> QED
    BY <2>1, <2>2, Zenon DEF WritesOnlyTheBuffer, InMemory
<1>4. SdkFetchDelivers'
  BY Zenon DEF SdkInv, CallsInMemory, SdkFetchDelivers
<1> QED
  BY <1>3, <1>4, Zenon DEF CallsInMemory

\* The buffer of an SDK guest stays in a memory that grows.
LEMMA BufferStays ==
    ASSUME SdkInv, MemoryOK(memory'), memory.pages <= memory'.pages,
           sdk # Absent, sdk.out_ptr # Absent
    PROVE  sdk.out_ptr + OUT_CAP <= memory'.pages * PAGE
<1>1. MemoryOK(memory) /\ sdk.out_ptr \in Nat
  BY Types, Zenon DEF SdkInv
<1>2. memory.pages \in Nat /\ memory'.pages \in Nat
  BY <1>1 DEF MemoryOK
<1>3. sdk.out_ptr + OUT_CAP <= memory.pages * PAGE
  BY Zenon DEF SdkInv, CallsInMemory
<1> QED
  BY <1>1, <1>2, <1>3 DEF OUT_CAP, PAGE, KiB

-----------------------------------------------------------------------------
(* Every step keeps the invariant.                                         *)

\* Nothing was published, nothing runs.
LEMMA InitOK == SdkInit => SdkInv
<1> SUFFICES ASSUME SdkInit PROVE SdkInv
  OBVIOUS
<1>1. /\ pc = "idle" /\ headers = <<>> /\ module = Absent /\ allow = {} /\ memory = NoMemory
      /\ input = 0 /\ call = NoCall /\ result = "None" /\ deploy = Absent /\ sdk = Absent
  BY DEF SdkInit, GuestInit
<1>2. allow \subseteq EgressOrigin /\ Cardinality(allow) <= MAX_EGRESS_ALLOW
  BY <1>1, FS_EmptySet, EgressAssumption
<1>3. call \in Call
  BY <1>1 DEF NoCall, Call
<1>4. MemoryOK(memory)
  BY <1>1 DEF NoMemory, MemoryOK, MAX_GUEST_MEMORY_BYTES, PAGE, KiB
<1>5. input \in 0..MAX_INVOKE_BODY_BYTES
  <2>1. MAX_INVOKE_BODY_BYTES \in Nat
    BY DEF MAX_INVOKE_BODY_BYTES, KiB
  <2> QED
    BY <1>1, <2>1
<1>6. SdkTypeOK
  BY <1>1, <1>2, <1>3, <1>4, <1>5
  DEF SdkTypeOK, GuestTypeOK, MemoryOK, Call, GuestPC, GuestResults
<1>7. call.fetched = Absent /\ call.answer = Absent /\ call.code = 0 /\ call.written = 0
  BY <1>1 DEF NoCall
<1>8. ListKept /\ ModuleKept /\ ResultsOK
  BY <1>1, <1>7 DEF ListKept, ModuleKept, ResultsOK
<1>9. CallsInMemory
  BY <1>1, <1>7 DEF CallsInMemory, WritesOnlyTheBuffer, SdkFetchDelivers
<1> QED
  BY <1>6, <1>8, <1>9 DEF SdkInv

\* The headers of a publish.
LEMMA PublishHeadersKeeps ==
    SdkInv /\ PublishHeaders /\ UNCHANGED <<deploy, sdk>> /\ deploy = Absent => SdkInv'
<1> SUFFICES ASSUME SdkInv, PublishHeaders, UNCHANGED <<deploy, sdk>>, deploy = Absent PROVE SdkInv'
  OBVIOUS
<1>1. PICK hs \in Headers :
        LET origins == [i \in DOMAIN hs |-> Origin(hs[i])] IN
        /\ headers' = hs
        /\ \/ Stop("Refused") /\ UNCHANGED allow
           \/ /\ (\A i \in DOMAIN hs : Parses(hs[i])) /\ ~TooMany(origins)
              /\ GoOn("headers") /\ allow' = Normalized(origins)
  BY Zenon DEF PublishHeaders
<1>2. pc = "idle" /\ UNCHANGED <<module, memory, input, call>>
  BY Zenon DEF PublishHeaders
<1>3. module = Absent /\ result = "None"
  BY <1>2 DEF SdkInv, ModuleKept, ResultsOK
<1>4. module' \in Modules \cup {Absent} /\ deploy' \in Headers \cup {Absent}
  BY <1>2, <1>3 DEF SdkInv, SdkTypeOK
<1>5. CASE Stop("Refused") /\ UNCHANGED allow
  <2>1. pc' = "done" /\ result' = "Refused" /\ UNCHANGED allow
    BY <1>5 DEF Stop
  <2>2. ModuleKept'
    BY <1>2, <1>3, <2>1 DEF ModuleKept
  <2> QED
    BY <1>1, <1>2, <1>4, <2>1, <2>2, EarlyStep DEF GuestPC
<1>6. CASE /\ \A i \in DOMAIN hs : Parses(hs[i])
           /\ ~TooMany([i \in DOMAIN hs |-> Origin(hs[i])])
           /\ GoOn("headers") /\ allow' = Normalized([i \in DOMAIN hs |-> Origin(hs[i])])
  <2>1. pc' = "headers" /\ result' = result
    BY <1>6 DEF GoOn
  <2>2. allow' = Listed(headers') /\ Storable(allow')
    BY <1>1, <1>6, ParsedList, Zenon
  <2>3. ModuleKept'
    BY <1>2, <1>3, <2>1 DEF ModuleKept
  <2> QED
    BY <1>1, <1>2, <1>4, <2>1, <2>2, <2>3, EarlyStep DEF GuestPC
<1> QED
  BY <1>1, <1>5, <1>6, Zenon

\* validate_sync
LEMMA ValidateKeeps ==
    SdkInv /\ Validate /\ UNCHANGED <<deploy, sdk>> => SdkInv'
<1> SUFFICES ASSUME SdkInv, Validate, UNCHANGED <<deploy, sdk>> PROVE SdkInv'
  OBVIOUS
<1>1. pc = "headers" /\ UNCHANGED <<headers, allow, memory, input, call>>
  BY Zenon DEF Validate
<1>2. PICK m \in Modules :
        /\ module' = m
        /\ IF Validates(m) /\ AssertAbiBytes(m) THEN GoOn("published") ELSE Stop("Refused")
  BY Zenon DEF Validate
<1>3. /\ headers' \in Headers \cup {<<>>} /\ module' \in Modules \cup {Absent}
      /\ deploy' \in Headers \cup {Absent}
  BY <1>1, <1>2 DEF SdkInv, SdkTypeOK, GuestTypeOK
<1>4. allow' = Listed(headers') /\ Storable(allow') /\ result = "None"
  BY <1>1 DEF SdkInv, ListKept, ResultsOK
<1>5. CASE Validates(m) /\ AssertAbiBytes(m)
  <2>1. pc' = "published" /\ result' = result
    BY <1>2, <1>5 DEF GoOn
  <2>2. ModuleKept'
    BY <1>2, <1>4, <1>5, <2>1 DEF ModuleKept
  <2> QED
    BY <1>1, <1>3, <1>4, <2>1, <2>2, EarlyStep DEF GuestPC
<1>6. CASE ~(Validates(m) /\ AssertAbiBytes(m))
  <2>1. pc' = "done" /\ result' = "Refused"
    BY <1>2, <1>6 DEF Stop
  <2>2. ModuleKept'
    BY <1>2, <1>6, <2>1 DEF ModuleKept
  <2> QED
    BY <1>1, <1>3, <1>4, <2>1, <2>2, EarlyStep DEF GuestPC
<1> QED
  BY <1>5, <1>6

\* resolve
LEMMA ResolveRowKeeps ==
    SdkInv /\ ResolveRow /\ UNCHANGED <<deploy, sdk>> => SdkInv'
<1> SUFFICES ASSUME SdkInv, ResolveRow, UNCHANGED <<deploy, sdk>> PROVE SdkInv'
  OBVIOUS
<1>1. pc = "published" /\ UNCHANGED <<headers, module, memory, input, call>>
  BY Zenon DEF ResolveRow
<1>2. allow = Listed(headers) /\ Storable(allow)
  BY <1>1 DEF SdkInv, ListKept
<1>3. \A o \in allow : Parses(AsUrl(o)) /\ Origin(AsUrl(o)) = o
  BY <1>2, Zenon DEF Storable
<1>4. GoOn("compile") /\ allow' = {Origin(AsUrl(o)) : o \in allow}
  BY <1>3, Zenon DEF ResolveRow
<1>5. pc' = "compile" /\ result' = result
  BY <1>4 DEF GoOn
<1>6. allow' = allow
  BY <1>3, <1>4, Zenon
<1>7. /\ headers' \in Headers \cup {<<>>} /\ module' \in Modules \cup {Absent}
      /\ deploy' \in Headers \cup {Absent}
  BY <1>1 DEF SdkInv, SdkTypeOK, GuestTypeOK
<1>8. ModuleKept'
  BY <1>1, <1>5 DEF SdkInv, ModuleKept
<1>9. allow' = Listed(headers') /\ Storable(allow')
  BY <1>1, <1>2, <1>6, Zenon
<1> QED
  BY <1>1, <1>5, <1>7, <1>8, <1>9, EarlyStep DEF GuestPC

\* cached_module
LEMMA CompileModuleKeeps ==
    SdkInv /\ CompileModule /\ UNCHANGED <<deploy, sdk>> => SdkInv'
<1> SUFFICES ASSUME SdkInv, CompileModule, UNCHANGED <<deploy, sdk>> PROVE SdkInv'
  OBVIOUS
<1>1. pc = "compile" /\ module' = Absent /\ UNCHANGED <<headers, allow, memory, input, call>>
  BY Zenon DEF CompileModule
<1>2. GoOn("run") \/ Stop("Compile")
  BY Zenon DEF CompileModule
<1>3. \/ pc' = "run" /\ result' = result
      \/ pc' = "done" /\ result' = "Compile"
  BY <1>2 DEF GoOn, Stop
<1>4. allow' = Listed(headers') /\ Storable(allow')
  BY <1>1 DEF SdkInv, ListKept
<1>5. /\ headers' \in Headers \cup {<<>>} /\ module' \in Modules \cup {Absent}
      /\ deploy' \in Headers \cup {Absent}
  BY <1>1 DEF SdkInv, SdkTypeOK, GuestTypeOK
<1>6. ModuleKept'
  BY <1>1, <1>3 DEF ModuleKept
<1> QED
  BY <1>1, <1>3, <1>4, <1>5, <1>6, EarlyStep DEF GuestPC

\* collect_allow_urls
LEMMA CliDeployKeeps == SdkInv /\ CliDeploy => SdkInv'
<1> SUFFICES ASSUME SdkInv, CliDeploy PROVE SdkInv'
  OBVIOUS
<1>1. pc = "idle" /\ deploy = Absent /\ UNCHANGED <<module, memory, input, call, sdk>>
  BY Zenon DEF CliDeploy
<1>2. PICK urls \in Headers :
        LET origins == [i \in DOMAIN urls |-> Origin(urls[i])] IN
        /\ headers' = urls
        /\ \/ Stop("Refused") /\ UNCHANGED <<allow, deploy>>
           \/ /\ (\A i \in DOMAIN urls : Parses(urls[i])) /\ ~TooMany(origins)
              /\ allow' = Normalized(origins) /\ deploy' = urls /\ UNCHANGED <<pc, result>>
  BY Zenon DEF CliDeploy
<1>3. module' = Absent /\ result = "None"
  BY <1>1 DEF SdkInv, ModuleKept, ResultsOK
<1>4. CASE Stop("Refused") /\ UNCHANGED <<allow, deploy>>
  <2>1. pc' = "done" /\ result' = "Refused" /\ UNCHANGED <<allow, deploy>>
    BY <1>4 DEF Stop
  <2>2. ModuleKept'
    BY <1>3, <2>1 DEF ModuleKept
  <2> QED
    BY <1>1, <1>2, <1>3, <2>1, <2>2, EarlyStep DEF GuestPC
<1>5. CASE /\ \A i \in DOMAIN urls : Parses(urls[i])
           /\ ~TooMany([i \in DOMAIN urls |-> Origin(urls[i])])
           /\ allow' = Normalized([i \in DOMAIN urls |-> Origin(urls[i])])
           /\ deploy' = urls /\ UNCHANGED <<pc, result>>
  <2>1. allow' = Listed(headers') /\ Storable(allow')
    BY <1>2, <1>5, ParsedList, Zenon
  <2>2. ModuleKept'
    BY <1>1, <1>3, <1>5 DEF ModuleKept
  <2> QED
    BY <1>1, <1>2, <1>3, <1>5, <2>1, <2>2, EarlyStep DEF GuestPC
<1> QED
  BY <1>2, <1>4, <1>5, Zenon

\* The API makes the same list of the headers that deploy sends.
LEMMA CliHeadersKeeps == SdkInv /\ CliHeaders => SdkInv'
<1> SUFFICES ASSUME SdkInv, CliHeaders PROVE SdkInv'
  OBVIOUS
<1>1. /\ pc = "idle" /\ deploy # Absent /\ deploy' = Absent
      /\ UNCHANGED <<headers, module, memory, input, call, sdk>>
  BY Zenon DEF CliHeaders
<1>2. allow = Listed(headers) /\ Storable(allow)
  BY <1>1 DEF SdkInv, ListKept
<1>3. GoOn("headers") /\ allow' = allow
  BY <1>2, SentList, Zenon DEF CliHeaders
<1>4. pc' = "headers" /\ result' = result
  BY <1>3 DEF GoOn
<1>5. allow' = Listed(headers') /\ Storable(allow')
  BY <1>1, <1>2, <1>3, Zenon
<1>6. headers' \in Headers \cup {<<>>} /\ module' \in Modules \cup {Absent}
  BY <1>1 DEF SdkInv, SdkTypeOK, GuestTypeOK
<1>7. ModuleKept'
  BY <1>1, <1>4 DEF SdkInv, ModuleKept
<1> QED
  BY <1>1, <1>4, <1>5, <1>6, <1>7, EarlyStep DEF GuestPC

\* The size of a request.
LEMMA CheckInputKeeps ==
    SdkInv /\ CheckInput /\ UNCHANGED <<deploy, sdk>> => SdkInv'
<1> SUFFICES ASSUME SdkInv, CheckInput, UNCHANGED <<deploy, sdk>> PROVE SdkInv'
  OBVIOUS
<1>1. pc = "run" /\ UNCHANGED <<headers, module, allow, memory, call>>
  BY Zenon DEF CheckInput
<1>2. PICK req \in Request :
        LET wire == WireBytes(req.body, req.overhead) IN
        IF req.body > MAX_INVOKE_BODY_BYTES \/ wire > MAX_INVOKE_BODY_BYTES
          THEN Stop("PayloadTooLarge") /\ UNCHANGED input
          ELSE GoOn("instantiate") /\ input' = wire
  BY Zenon DEF CheckInput
<1>3. req.body \in Nat /\ req.overhead \in Nat
  <2>1. req.body \in Bodies /\ req.overhead \in Overheads
    BY Zenon DEF Request
  <2> QED
    BY <2>1, GuestAssumption
<1> DEFINE wire == WireBytes(req.body, req.overhead)
<1>4. wire \in Nat
  BY <1>3, Sizes
<1> HIDE DEF wire
<1>5. \/ pc' = "done" /\ result' = "PayloadTooLarge" /\ UNCHANGED input
      \/ pc' = "instantiate" /\ result' = result /\ input' = wire /\ ~(wire > MAX_INVOKE_BODY_BYTES)
  BY <1>2 DEF Stop, GoOn, wire
<1>6. input' \in 0..MAX_INVOKE_BODY_BYTES
  <2>1. MAX_INVOKE_BODY_BYTES \in Nat
    BY DEF MAX_INVOKE_BODY_BYTES, KiB
  <2>2. input \in 0..MAX_INVOKE_BODY_BYTES
    BY DEF SdkInv, SdkTypeOK, GuestTypeOK
  <2> QED
    BY <1>4, <1>5, <2>1, <2>2
<1>7. MemoryOK(memory') /\ call' \in Call /\ sdk' \in Sdk \cup {Absent}
  <2>1. MemoryOK(memory) /\ call \in Call /\ sdk \in Sdk \cup {Absent}
    BY Types, Zenon DEF SdkInv, SdkTypeOK
  <2> QED
    BY <1>1, <2>1
<1>8. CallsInMemory'
  BY <1>1, EarlyCalls DEF SdkInv
<1> QED
  BY <1>1, <1>5, <1>6, <1>7, <1>8, GuestStep

\* A memory of its own, of no more pages than it may have; an SDK guest has no
\* buffer yet.
LEMMA InstantiateAnyKeeps == SdkInv /\ InstantiateAny => SdkInv'
<1> SUFFICES ASSUME SdkInv, InstantiateAny PROVE SdkInv'
  OBVIOUS
<1>1. /\ pc = "instantiate" /\ UNCHANGED <<headers, module, allow, input, call, deploy>>
      /\ sdk' \in {Absent, [out_ptr |-> Absent, out_len |-> Absent]}
  BY Zenon DEF InstantiateAny, InstantiateModule
<1>2. PICK max \in PageCounts, pages \in PageCounts :
        /\ pages <= max
        /\ \/ Stop("Invoke") /\ UNCHANGED memory
           \/ /\ pages <= Limit([pages |-> pages, max |-> max])
              /\ GoOn("input") /\ memory' = [pages |-> pages, max |-> max]
  BY Zenon DEF InstantiateAny, InstantiateModule
<1>3. \/ pc' = "done" /\ result' = "Invoke" /\ UNCHANGED memory
      \/ pc' = "input" /\ result' = result /\ memory' = [pages |-> pages, max |-> max]
  BY <1>2 DEF Stop, GoOn
<1>4. max \in Nat /\ pages \in Nat /\ pages <= max
  BY <1>2, GuestAssumption
<1>5. MemoryOK(memory')
  <2>1. CASE UNCHANGED memory
    BY <2>1, Types DEF SdkInv
  <2>2. CASE memory' = [pages |-> pages, max |-> max]
             /\ pages <= Limit([pages |-> pages, max |-> max])
    <3> DEFINE m == [pages |-> pages, max |-> max]
    <3>1. m \in [pages: Nat, max: Nat] /\ m.pages = pages /\ m.max = max
      BY <1>4
    <3>2. Limit(m) \in Nat /\ Limit(m) * PAGE <= MAX_GUEST_MEMORY_BYTES /\ pages <= Limit(m)
      BY <2>2, <3>1, LimitFits
    <3> HIDE DEF m
    <3>3. pages * PAGE <= MAX_GUEST_MEMORY_BYTES
      BY <1>4, <3>2 DEF MAX_GUEST_MEMORY_BYTES, PAGE, KiB
    <3>4. MemoryOK(m)
      BY <1>4, <3>1, <3>3 DEF MemoryOK
    <3> QED
      BY <2>2, <3>4 DEF m
  <2> QED
    BY <1>2, <2>1, <2>2, Zenon
<1>6. call = NoCall
  BY <1>1 DEF SdkInv, CallsInMemory
<1>7. call'.fetched = Absent /\ call'.answer = Absent /\ call'.code = 0 /\ call'.written = 0
  BY <1>1, <1>6 DEF NoCall
<1>8. sdk' \in Sdk \cup {Absent} /\ (sdk' # Absent => sdk'.out_ptr = Absent)
  BY <1>1 DEF Sdk
<1>9. CallsInMemory'
  BY <1>3, <1>7, <1>8 DEF CallsInMemory, WritesOnlyTheBuffer, SdkFetchDelivers
<1>10. call' \in Call /\ input' \in 0..MAX_INVOKE_BODY_BYTES
  BY <1>1, Types DEF SdkInv, SdkTypeOK, GuestTypeOK
<1> QED
  BY <1>1, <1>3, <1>5, <1>7, <1>8, <1>9, <1>10, GuestStep

\* A step that only grows the memory, or ends the run.
LEMMA GrowingStep ==
    ASSUME SdkInv, UNCHANGED <<headers, module, allow, deploy, call, sdk>>,
           pc \in {"input", "guest"},
           \/ pc' = "guest" /\ result' = result
           \/ pc' = "done" /\ result' \in {"PayloadTooLarge", "Invoke", "Trap", "Ok"},
           MemoryOK(memory'), memory.pages <= memory'.pages,
           input' \in 0..MAX_INVOKE_BODY_BYTES
    PROVE  SdkInv'
<1>1. call' \in Call /\ sdk' \in Sdk \cup {Absent}
  BY Types DEF SdkInv, SdkTypeOK
<1>2. CallsInMemory'
  BY BufferStays, CallsGrow
<1> QED
  BY <1>1, <1>2, GuestStep

\* After GrowAndAccess the bytes are there: either the run ends with an error of
\* growing, or what comes next comes.
LEMMA Grown ==
    ASSUME SdkTypeOK, NEW n \in Nat, NEW ACTION next, GrowAndAccess(n, next)
    PROVE  /\ MemoryOK(memory') /\ memory.pages <= memory'.pages
           /\ Stop("Invoke") \/ next
<1>1. MemoryOK(memory)
  BY Types
<1>2. memory.pages \in Nat
  BY <1>1 DEF MemoryOK
<1> DEFINE p == IF PagesFor(n) > memory.pages THEN PagesFor(n) ELSE memory.pages
<1>3. p \in Nat /\ memory.pages <= p /\ n <= p * PAGE
  BY <1>2, GrownHolds
<1>4. CASE p > Limit(memory) /\ p > memory.pages
  <2>1. Stop("Invoke") /\ UNCHANGED memory
    BY <1>4, Zenon DEF GrowAndAccess
  <2> QED
    BY <1>1, <1>2, <2>1
<1>5. CASE ~(p > Limit(memory) /\ p > memory.pages)
  <2>1. memory' = [memory EXCEPT !.pages = p] /\ (IF n <= p * PAGE THEN next ELSE Stop("OutOfBounds"))
    BY <1>5, Zenon DEF GrowAndAccess
  <2>2. next
    BY <1>3, <2>1, Zenon
  <2> HIDE DEF p
  <2>3. Limit(memory) \in Nat
    BY <1>1, LimitFits DEF MemoryOK
  <2>4. p <= Limit(memory) \/ p = memory.pages
    BY <1>2, <1>3, <1>5, <2>3
  <2>5. MemoryOK(memory') /\ memory'.pages = p
    BY <1>1, <1>3, <2>1, <2>4, GrowthKeepsMemory, Zenon
  <2> QED
    BY <1>3, <2>2, <2>5
<1> QED
  BY <1>4, <1>5

\* The input is written.
LEMMA WriteInputKeeps ==
    SdkInv /\ WriteInput /\ UNCHANGED <<deploy, sdk>> => SdkInv'
<1> SUFFICES ASSUME SdkInv, WriteInput, UNCHANGED <<deploy, sdk>> PROVE SdkInv'
  OBVIOUS
<1>1. pc = "input" /\ input' = 0 /\ UNCHANGED <<headers, module, allow, call>>
  BY Zenon DEF WriteInput
<1>2. OFFSET + input \in Nat
  BY DEF SdkInv, SdkTypeOK, GuestTypeOK, OFFSET
<1>3. GrowAndAccess(OFFSET + input, GoOn("guest"))
  BY Zenon DEF WriteInput
<1>4. /\ MemoryOK(memory') /\ memory.pages <= memory'.pages
      /\ Stop("Invoke") \/ GoOn("guest")
  BY <1>2, <1>3, Grown DEF SdkInv
<1>5. \/ pc' = "guest" /\ result' = result
      \/ pc' = "done" /\ result' = "Invoke"
  BY <1>4 DEF Stop, GoOn
<1>6. input' \in 0..MAX_INVOKE_BODY_BYTES
  <2>1. MAX_INVOKE_BODY_BYTES \in Nat
    BY DEF MAX_INVOKE_BODY_BYTES, KiB
  <2> QED
    BY <1>1, <2>1
<1> QED
  BY <1>1, <1>4, <1>5, <1>6, GrowingStep

\* memory.grow of the guest
LEMMA GuestGrowsKeeps ==
    SdkInv /\ GuestGrows /\ UNCHANGED <<deploy, sdk>> => SdkInv'
<1> SUFFICES ASSUME SdkInv, GuestGrows, UNCHANGED <<deploy, sdk>> PROVE SdkInv'
  OBVIOUS
<1>1. pc = "guest" /\ UNCHANGED <<pc, headers, module, allow, input, call, result>>
  BY Zenon DEF GuestGrows
<1>2. PICK pages \in PageCounts :
        pages > memory.pages /\ pages <= Limit(memory) /\ memory' = [memory EXCEPT !.pages = pages]
  BY Zenon DEF GuestGrows
<1>3. MemoryOK(memory) /\ pages \in Nat /\ memory.pages \in Nat
  BY Types, GuestAssumption DEF SdkInv, MemoryOK
<1>4. MemoryOK(memory') /\ memory'.pages = pages
  BY <1>2, <1>3, GrowthKeepsMemory
<1>5. memory.pages <= memory'.pages
  BY <1>2, <1>3, <1>4
<1>6. input' \in 0..MAX_INVOKE_BODY_BYTES
  BY <1>1 DEF SdkInv, SdkTypeOK, GuestTypeOK
<1> QED
  BY <1>1, <1>4, <1>5, <1>6, GrowingStep

\* invoke returns
LEMMA ReadOutputKeeps ==
    ASSUME SdkInv, pc = "guest", UNCHANGED <<deploy, sdk>>, NEW out_len \in Int, ReadOutput(out_len)
    PROVE  SdkInv'
<1>1. UNCHANGED <<headers, module, allow, input, call>>
  BY Zenon DEF ReadOutput
<1>2. \/ Stop("Invoke") /\ UNCHANGED memory
      \/ Stop("PayloadTooLarge") /\ UNCHANGED memory
      \/ /\ out_len \in 0 .. MAX_GUEST_OUTPUT_BYTES
         /\ GrowAndAccess(OFFSET + out_len, Stop("Ok"))
  BY Zenon DEF ReadOutput
<1>3. MemoryOK(memory) /\ memory.pages \in Nat
  BY Types DEF SdkInv, MemoryOK
<1>4. input' \in 0..MAX_INVOKE_BODY_BYTES
  BY <1>1 DEF SdkInv, SdkTypeOK, GuestTypeOK
<1>5. CASE (Stop("Invoke") \/ Stop("PayloadTooLarge")) /\ UNCHANGED memory
  <2>1. pc' = "done" /\ result' \in {"Invoke", "PayloadTooLarge"}
    BY <1>5 DEF Stop
  <2> QED
    BY <1>1, <1>3, <1>4, <1>5, <2>1, GrowingStep
<1>6. CASE /\ out_len \in 0 .. MAX_GUEST_OUTPUT_BYTES
           /\ GrowAndAccess(OFFSET + out_len, Stop("Ok"))
  <2>1. OFFSET + out_len \in Nat
    <3>1. MAX_GUEST_OUTPUT_BYTES \in Nat
      BY DEF MAX_GUEST_OUTPUT_BYTES, KiB
    <3>2. out_len \in Nat
      BY <1>6, <3>1
    <3> QED
      BY <3>2 DEF OFFSET
  <2>2. /\ MemoryOK(memory') /\ memory.pages <= memory'.pages
        /\ Stop("Invoke") \/ Stop("Ok")
    BY <1>6, <2>1, Grown DEF SdkInv
  <2>3. pc' = "done" /\ result' \in {"Invoke", "Ok"}
    BY <2>2 DEF Stop
  <2> QED
    BY <1>1, <1>4, <2>2, <2>3, GrowingStep
<1> QED
  BY <1>2, <1>5, <1>6

\* A list that is kept allows only what the headers name, and all of it.
LEMMA AllowedIsNamed ==
    ASSUME NEW u \in Urls, allow = Listed(headers)
    PROVE  /\ IsAllowed(u, allow) => \E i \in DOMAIN headers : Names(u) = Names(headers[i])
           /\ \A i \in DOMAIN headers :
                Parses(u) /\ Names(u) = Names(headers[i]) => IsAllowed(u, allow)
<1>1. \A i \in DOMAIN headers : Origin(u) = Origin(headers[i]) <=> Names(u) = Names(headers[i])
  BY DEF Origin, Names
<1>2. IsAllowed(u, allow) <=> Parses(u) /\ \E i \in DOMAIN headers : Origin(u) = Origin(headers[i])
  BY Zenon DEF IsAllowed, Listed
<1> QED
  BY <1>1, <1>2, Zenon

\* The call of a guest, whatever its arguments, or of the SDK's client.
LEMMA FetchKeeps ==
    ASSUME SdkInv, pc = "guest",
           UNCHANGED <<pc, headers, module, allow, memory, input, result, deploy, sdk>>,
           NEW ptr \in Int, NEW cap \in Int,
           \/ call' = Failed(ERR_BAD_ARGS, Absent, Absent, ptr, cap)
           \/ \E u \in Urls : call' \in FetchUrl(u, ptr, cap),
           sdk # Absent => cap = OUT_CAP /\ ptr + OUT_CAP <= memory.pages * PAGE
    PROVE  SdkInv'
<1>1. MemoryOK(memory) /\ sdk \in Sdk \cup {Absent} /\ input \in 0..MAX_INVOKE_BODY_BYTES
  BY Types DEF SdkInv, SdkTypeOK, GuestTypeOK
<1>2. allow = Listed(headers)
  BY DEF SdkInv, ListKept
<1>3. /\ call' \in Call /\ WithinBuffer(call')
      /\ call'.fetched # Absent =>
           \E i \in DOMAIN headers : Names(call'.fetched) = Names(headers[i])
      /\ sdk # Absent => Delivers(call')
  <2>1. CASE call' = Failed(ERR_BAD_ARGS, Absent, Absent, ptr, cap)
    <3> DEFINE d == Failed(ERR_BAD_ARGS, Absent, Absent, ptr, cap)
    <3>1. ERR_BAD_ARGS \in Int /\ ERR_BAD_ARGS <= 0
      BY DEF ERR_BAD_ARGS
    <3>2. d \in Call /\ WithinBuffer(d) /\ d.fetched = Absent /\ d.answer = Absent
      BY <3>1, NothingFetched
    <3> QED
      BY <2>1, <3>2, Zenon DEF Delivers
  <2>2. ASSUME NEW u \in Urls, call' \in FetchUrl(u, ptr, cap)
        PROVE  /\ call' \in Call /\ WithinBuffer(call')
               /\ call'.fetched # Absent =>
                    \E i \in DOMAIN headers : Names(call'.fetched) = Names(headers[i])
               /\ sdk # Absent => Delivers(call')
    <3>1. PICK c \in FetchUrl(u, ptr, cap) : c = call'
      BY <2>2, Zenon
    <3>2. /\ c \in Call /\ WithinBuffer(c)
          /\ c.fetched # Absent => c.fetched = u /\ IsAllowed(u, allow)
          /\ MemoryOK(memory) /\ cap = OUT_CAP /\ ptr + OUT_CAP <= memory.pages * PAGE => Delivers(c)
      BY FetchedCall
    <3>3. c.fetched # Absent =>
            \E i \in DOMAIN headers : Names(c.fetched) = Names(headers[i])
      BY <1>2, <3>2, AllowedIsNamed, Zenon
    <3> QED
      BY <1>1, <3>1, <3>2, <3>3, Zenon
  <2> QED
    BY <2>1, <2>2, Zenon
<1>4. WritesOnlyTheBuffer' /\ SdkFetchDelivers'
  <2>1. PICK c : c = call'
    BY Zenon
  <2> QED
    BY <1>3, <2>1, Zenon
    DEF WithinBuffer, WritesOnlyTheBuffer, InMemory, Delivers, SdkFetchDelivers
<1>5. (sdk # Absent /\ sdk.out_ptr # Absent =>
        sdk.out_ptr + OUT_CAP <= memory.pages * PAGE)'
  BY Zenon DEF SdkInv, CallsInMemory
<1>6. CallsInMemory'
  BY <1>4, <1>5, Zenon DEF CallsInMemory
<1>7. MemoryOK(memory') /\ sdk' \in Sdk \cup {Absent} /\ input' \in 0..MAX_INVOKE_BODY_BYTES
  BY <1>1, Zenon
<1> QED
  BY <1>3, <1>6, <1>7, GuestStep

\* A guest calls http_get.
LEMMA HttpGetHostKeeps ==
    SdkInv /\ HttpGetHost /\ UNCHANGED <<deploy, sdk>> /\ sdk = Absent => SdkInv'
<1> SUFFICES ASSUME SdkInv, HttpGetHost, UNCHANGED <<deploy, sdk>>, sdk = Absent PROVE SdkInv'
  OBVIOUS
<1>1. pc = "guest" /\ UNCHANGED <<pc, headers, module, allow, memory, input, result>>
  BY Zenon DEF HttpGetHost
<1>2. PICK ptr \in Ptrs, cap \in Lens :
        \/ call' = Failed(ERR_BAD_ARGS, Absent, Absent, ptr, cap)
        \/ \E u \in Urls : call' \in FetchUrl(u, ptr, cap)
  BY Zenon DEF HttpGetHost
<1>3. ptr \in Int /\ cap \in Int
  BY GuestAssumption
<1> QED
  BY <1>1, <1>2, <1>3, FetchKeeps

\* The client fetches into its buffer.
LEMMA SdkGetKeeps == SdkInv /\ SdkGet => SdkInv'
<1> SUFFICES ASSUME SdkInv, SdkGet PROVE SdkInv'
  OBVIOUS
<1>1. /\ pc = "guest" /\ sdk # Absent /\ sdk.out_ptr # Absent
      /\ UNCHANGED <<pc, headers, module, allow, memory, input, result, deploy, sdk>>
  BY Zenon DEF SdkGet, Handling
<1>2. sdk.out_ptr \in Int /\ OUT_CAP \in Int
  BY <1>1, Types DEF SdkInv, OUT_CAP, KiB
<1>3. sdk.out_ptr + OUT_CAP <= memory.pages * PAGE
  BY <1>1, Zenon DEF SdkInv, CallsInMemory
<1>4. \/ call' = Failed(ERR_BAD_ARGS, Absent, Absent, sdk.out_ptr, OUT_CAP)
      \/ \E u \in Urls : call' \in FetchUrl(u, sdk.out_ptr, OUT_CAP)
  BY Zenon DEF SdkGet, WasmGet
<1> QED
  BY <1>1, <1>2, <1>3, <1>4, FetchKeeps

\* The client's buffer is allocated at the end of the memory.
LEMMA SdkAllocateKeeps == SdkInv /\ SdkAllocate => SdkInv'
<1> SUFFICES ASSUME SdkInv, SdkAllocate PROVE SdkInv'
  OBVIOUS
<1>1. /\ pc = "guest" /\ sdk # Absent /\ UNCHANGED <<headers, module, allow, input, call, deploy>>
  BY Zenon DEF SdkAllocate, Handling
<1>2. PICK more \in {0, PagesFor(OUT_CAP)} :
        LET pages == memory.pages + more IN
        /\ pages * PAGE >= OUT_CAP
        /\ IF more > 0 /\ pages > Limit(memory)
             THEN Stop("Trap") /\ UNCHANGED <<memory, sdk>>
             ELSE /\ memory' = [memory EXCEPT !.pages = pages]
                  /\ sdk' = [sdk EXCEPT !.out_ptr = pages * PAGE - OUT_CAP]
                  /\ UNCHANGED <<pc, result>>
  BY Zenon DEF SdkAllocate
<1>3. OUT_CAP \in Nat
  BY DEF OUT_CAP, KiB
<1>4. more \in Nat
  BY <1>3, PagesHold
<1>5. MemoryOK(memory) /\ memory.pages \in Nat /\ sdk \in Sdk
  BY <1>1, Types DEF SdkInv, MemoryOK
<1>6. input' \in 0..MAX_INVOKE_BODY_BYTES /\ call' \in Call
  BY <1>1, Types DEF SdkInv, SdkTypeOK, GuestTypeOK
<1> DEFINE pages == memory.pages + more
<1>7. CASE more > 0 /\ pages > Limit(memory)
  <2>1. pc' = "done" /\ result' = "Trap" /\ UNCHANGED <<memory, sdk>>
    BY <1>2, <1>7 DEF Stop
  <2>2. MemoryOK(memory') /\ memory.pages <= memory'.pages
    BY <1>5, <2>1
  <2> QED
    BY <1>1, <1>6, <2>1, <2>2, GrowingStep
<1>8. CASE ~(more > 0 /\ pages > Limit(memory))
  <2>1. /\ memory' = [memory EXCEPT !.pages = pages] /\ pages * PAGE >= OUT_CAP
        /\ sdk' = [sdk EXCEPT !.out_ptr = pages * PAGE - OUT_CAP]
        /\ UNCHANGED <<pc, result>>
    BY <1>2, <1>8, Zenon
  <2>2. pages \in Nat /\ memory.pages <= pages
    BY <1>4, <1>5
  <2>3. Limit(memory) \in Nat
    BY <1>5, LimitFits DEF MemoryOK
  <2>4. pages <= Limit(memory) \/ pages = memory.pages
    BY <1>4, <1>5, <1>8, <2>3
  <2> HIDE DEF pages
  <2>5. MemoryOK(memory') /\ memory'.pages = pages
    BY <1>5, <2>1, <2>2, <2>4, GrowthKeepsMemory
  <2> DEFINE ptr == pages * PAGE - OUT_CAP
  <2>6. ptr \in Nat /\ ptr + OUT_CAP = pages * PAGE
    BY <1>3, <2>1, <2>2 DEF PAGE, KiB
  <2>7. sdk' = [sdk EXCEPT !.out_ptr = ptr]
    BY <2>1
  <2> HIDE DEF ptr
  <2>8. sdk' \in Sdk /\ sdk'.out_ptr = ptr
    BY <1>5, <2>6, <2>7 DEF Sdk
  <2>9. ptr + OUT_CAP <= memory'.pages * PAGE
    BY <2>2, <2>5, <2>6 DEF PAGE, KiB
  <2>10. CallsInMemory'
    BY <1>1, <2>1, <2>2, <2>5, <2>8, <2>9, CallsGrow
  <2>11. sdk' \in Sdk \cup {Absent}
    BY <2>8
  <2> QED
    BY <1>1, <1>6, <2>1, <2>5, <2>10, <2>11, GuestStep
<1> QED
  BY <1>7, <1>8

\* __invoke makes room for the response, or returns -1.
LEMMA SdkRespondKeeps == SdkInv /\ SdkRespond => SdkInv'
<1> SUFFICES ASSUME SdkInv, SdkRespond PROVE SdkInv'
  OBVIOUS
<1>1. /\ pc = "guest" /\ sdk # Absent /\ UNCHANGED <<headers, module, allow, input, call, deploy>>
  BY Zenon DEF SdkRespond, Handling
<1>2. PICK res \in Response :
        LET end == OFFSET + WireBytes(res.body, res.overhead)
            pages == IF EnsureMemory(end) > memory.pages
                       THEN EnsureMemory(end) ELSE memory.pages IN
        \/ /\ sdk' = [sdk EXCEPT !.out_len = -1]
           /\ UNCHANGED <<pc, result, memory>>
        \/ /\ pages <= Limit(memory) \/ pages = memory.pages
           /\ memory' = [memory EXCEPT !.pages = pages]
           /\ \/ /\ sdk' = [sdk EXCEPT !.out_len = end - OFFSET]
                 /\ UNCHANGED <<pc, result>>
              \/ end > pages * PAGE
  BY Zenon DEF SdkRespond
<1>3. res.body \in Nat /\ res.overhead \in Nat
  <2>1. res.body \in Bodies /\ res.overhead \in Overheads
    BY Zenon DEF Response
  <2> QED
    BY <2>1, GuestAssumption
<1>4. MemoryOK(memory) /\ memory.pages \in Nat /\ sdk \in Sdk
  BY <1>1, Types DEF SdkInv, MemoryOK
<1>5. input' \in 0..MAX_INVOKE_BODY_BYTES /\ call' \in Call
  BY <1>1, Types DEF SdkInv, SdkTypeOK, GuestTypeOK
<1> DEFINE end == OFFSET + WireBytes(res.body, res.overhead)
           pages == IF EnsureMemory(end) > memory.pages THEN EnsureMemory(end) ELSE memory.pages
<1>6. end \in Nat /\ end - OFFSET \in Int
  <2>1. WireBytes(res.body, res.overhead) \in Nat
    BY <1>3, Sizes
  <2> QED
    BY <2>1 DEF OFFSET
<1> HIDE DEF end
<1>7. pages \in Nat /\ memory.pages <= pages /\ end <= pages * PAGE
  BY <1>4, <1>6, GrownHolds DEF EnsureMemory
<1> HIDE DEF pages
<1>8. /\ memory.pages <= memory'.pages /\ MemoryOK(memory')
      /\ \E len \in Int : sdk' = [sdk EXCEPT !.out_len = len]
      /\ UNCHANGED <<pc, result>>
  <2>1. CASE sdk' = [sdk EXCEPT !.out_len = -1] /\ UNCHANGED <<pc, result, memory>>
    <3>1. memory.pages <= memory'.pages /\ MemoryOK(memory')
      BY <1>4, <2>1
    <3>2. -1 \in Int
      OBVIOUS
    <3> QED
      BY <2>1, <3>1, <3>2, Zenon
  <2>2. CASE /\ pages <= Limit(memory) \/ pages = memory.pages
             /\ memory' = [memory EXCEPT !.pages = pages]
             /\ \/ sdk' = [sdk EXCEPT !.out_len = end - OFFSET] /\ UNCHANGED <<pc, result>>
                \/ end > pages * PAGE
    <3>1. ~(end > pages * PAGE)
      BY <1>6, <1>7 DEF PAGE, KiB
    <3>2. MemoryOK(memory') /\ memory'.pages = pages
      BY <1>4, <1>7, <2>2, GrowthKeepsMemory
    <3> QED
      BY <1>6, <1>7, <2>2, <3>1, <3>2, Zenon
  <2> QED
    BY <1>2, <2>1, <2>2, Zenon DEF end, pages
<1>9. PICK len \in Int : sdk' = [sdk EXCEPT !.out_len = len]
  BY <1>8
<1>10. sdk' \in Sdk /\ sdk'.out_ptr = sdk.out_ptr
  BY <1>4, <1>9 DEF Sdk
<1>11. sdk' # Absent /\ sdk'.out_ptr # Absent =>
         sdk'.out_ptr + OUT_CAP <= memory'.pages * PAGE
  BY <1>1, <1>8, <1>10, BufferStays
<1>12. CallsInMemory'
  BY <1>1, <1>8, <1>11, CallsGrow
<1>13. sdk' \in Sdk \cup {Absent}
  BY <1>10
<1> QED
  BY <1>1, <1>5, <1>8, <1>12, <1>13, GuestStep

\* invoke of any guest returns.
LEMMA InvokeReturnsKeeps ==
    SdkInv /\ InvokeReturns /\ UNCHANGED <<deploy, sdk>> => SdkInv'
<1> SUFFICES ASSUME SdkInv, InvokeReturns, UNCHANGED <<deploy, sdk>> PROVE SdkInv'
  OBVIOUS
<1>1. PICK out_len \in OutLens : pc = "guest" /\ ReadOutput(out_len)
  BY Zenon DEF InvokeReturns
<1>2. out_len \in Int
  BY GuestAssumption
<1> QED
  BY <1>1, <1>2, ReadOutputKeeps

\* invoke of an SDK guest returns.
LEMMA SdkReturnsKeeps == SdkInv /\ SdkReturns => SdkInv'
<1> SUFFICES ASSUME SdkInv, SdkReturns PROVE SdkInv'
  OBVIOUS
<1>1. /\ pc = "guest" /\ sdk # Absent /\ sdk.out_len # Absent
      /\ ReadOutput(sdk.out_len) /\ UNCHANGED <<deploy, sdk>>
  BY Zenon DEF SdkReturns
<1>2. sdk.out_len \in Int
  BY <1>1, Types DEF SdkInv
<1> QED
  BY <1>1, <1>2, ReadOutputKeeps

\* A step that changes nothing.
LEMMA StutterKeeps == SdkInv /\ UNCHANGED sdkVars => SdkInv'
<1> SUFFICES ASSUME SdkInv, UNCHANGED sdkVars PROVE SdkInv'
  OBVIOUS
<1>1. UNCHANGED <<pc, headers, module, allow, memory, input, call, result, deploy, sdk>>
  BY DEF sdkVars, guestVars
<1>2. SdkTypeOK'
  BY <1>1 DEF SdkInv, SdkTypeOK, GuestTypeOK
<1>3. ListKept' /\ ModuleKept' /\ ResultsOK'
  BY <1>1, Zenon DEF SdkInv, ListKept, ModuleKept, ResultsOK
<1>4. CallsInMemory'
  BY <1>1, EarlyCalls DEF SdkInv
<1> QED
  BY <1>2, <1>3, <1>4 DEF SdkInv

\* Every step.
LEMMA NextKeeps == SdkInv /\ [SdkNext]_sdkVars => SdkInv'
<1> SUFFICES ASSUME SdkInv, [SdkNext]_sdkVars PROVE SdkInv'
  OBVIOUS
<1>1. CASE deploy = Absent /\ HostStep /\ UNCHANGED <<deploy, sdk>>
  BY <1>1, PublishHeadersKeeps, ValidateKeeps, ResolveRowKeeps, CompileModuleKeeps,
     CheckInputKeeps, WriteInputKeeps DEF HostStep
<1>2. CASE CliDeploy \/ CliHeaders \/ InstantiateAny
  BY <1>2, CliDeployKeeps, CliHeadersKeeps, InstantiateAnyKeeps
<1>3. CASE sdk = Absent /\ AnyGuest /\ UNCHANGED <<deploy, sdk>>
  BY <1>3, GuestGrowsKeeps, HttpGetHostKeeps, InvokeReturnsKeeps DEF AnyGuest
<1>4. CASE SdkAllocate \/ SdkGet \/ SdkRespond \/ SdkReturns
  BY <1>4, SdkAllocateKeeps, SdkGetKeeps, SdkRespondKeeps, SdkReturnsKeeps
<1>5. CASE UNCHANGED sdkVars
  BY <1>5, StutterKeeps
<1> QED
  BY <1>1, <1>2, <1>3, <1>4, <1>5 DEF SdkNext

-----------------------------------------------------------------------------
(* The theorems.                                                           *)

\* The inductive invariant holds of publish, deploy, host and guest together.
THEOREM SdkInvariant == SdkSpec => []SdkInv
<1>1. SdkInit => SdkInv
  BY InitOK
<1>2. SdkInv /\ [SdkNext]_sdkVars => SdkInv'
  BY NextKeeps
<1> QED
  BY <1>1, <1>2, PTL DEF SdkSpec

\* Type correctness: the egress list and the memory stay within their limits.
THEOREM SdkTypeCorrect == SdkSpec => []SdkTypeOK
<1>1. SdkInv => SdkTypeOK
  BY DEF SdkInv
<1> QED
  BY <1>1, SdkInvariant, PTL

\* assert_abi_bytes of the API task and assert_abi of the host agree on every
\* module that validates.
THEOREM AbiIsOne == SdkSpec => []ChecksAgree
<1>1. SdkInv => ChecksAgree
  <2> SUFFICES ASSUME SdkInv, module # Absent, Validates(module)
               PROVE  AssertAbi(module) <=> result # "Refused"
    BY Zenon DEF ChecksAgree
  <2>1. module \in WasmModule
    BY GuestAssumption DEF SdkInv, SdkTypeOK, GuestTypeOK
  <2>2. AssertAbi(module) <=> AssertAbiBytes(module)
    BY <2>1, AbiChecksAgree
  <2>3. result = "Refused" <=> ~AssertAbiBytes(module)
    BY Zenon DEF SdkInv, ModuleKept
  <2> QED
    BY <2>2, <2>3
<1> QED
  BY <1>1, SdkInvariant, PTL

\* A guest reaches exactly the hosts and ports the publisher named: deploy,
\* publish, storage and every further parse keep the list, and accept it.
THEOREM GuestsReachWhatWasNamed == SdkSpec => []ReachesWhatWasNamed
<1>1. SdkInv => ReachesWhatWasNamed
  <2> SUFFICES ASSUME SdkInv PROVE ReachesWhatWasNamed
    OBVIOUS
  <2>1. result # "Domain"
    BY DEF SdkInv, ResultsOK
  <2>2. call.fetched # Absent =>
          Names(call.fetched) \in {Names(headers[i]) : i \in DOMAIN headers}
    BY Zenon DEF SdkInv, ListKept
  <2>3. ASSUME pc \in {"compile", "run", "instantiate", "input", "guest"}, NEW u \in Urls,
               Parses(u), Names(u) \in {Names(headers[i]) : i \in DOMAIN headers}
        PROVE  IsAllowed(u, allow)
    <3>1. allow = Listed(headers)
      BY <2>3 DEF SdkInv, ListKept
    <3> QED
      BY <2>3, <3>1, AllowedIsNamed, Zenon
  <2> QED
    BY <2>1, <2>2, <2>3, Zenon DEF ReachesWhatWasNamed
<1> QED
  BY <1>1, SdkInvariant, PTL

\* The host writes nothing of the guest's memory but the buffer it was offered,
\* and what it wrote is what the code says.
THEOREM HostWritesOnlyTheBuffer == SdkSpec => []WritesOnlyTheBuffer
<1>1. SdkInv => WritesOnlyTheBuffer
  BY DEF SdkInv, CallsInMemory
<1> QED
  BY <1>1, SdkInvariant, PTL

\* Once the memory has grown, input and output fit: no run ends with an access
\* beyond the end of the memory.
THEOREM GrowthAlwaysSuffices == SdkSpec => []GrowthSuffices
<1>1. SdkInv => GrowthSuffices
  BY DEF SdkInv, ResultsOK, GrowthSuffices
<1> QED
  BY <1>1, SdkInvariant, PTL

\* Every answer the host accepts reaches a guest of the SDK in full.
THEOREM SdkFetchesDeliver == SdkSpec => []SdkFetchDelivers
<1>1. SdkInv => SdkFetchDelivers
  BY DEF SdkInv, CallsInMemory
<1> QED
  BY <1>1, SdkInvariant, PTL
=============================================================================
