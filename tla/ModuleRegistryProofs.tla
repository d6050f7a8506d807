-------------------------- MODULE ModuleRegistryProofs --------------------------
(***************************************************************************)
(* The registry, for every set of manifests and every sequence of loads    *)
(* and revocations.                                                        *)
(***************************************************************************)
EXTENDS ModuleRegistry, FiniteSetTheorems, TLAPS

(* A sequence without a certain element is one over the other elements. *)
LEMMA SeqWithout ==
  ASSUME NEW S, NEW x, NEW s \in Seq(S \cup {x}),
         \A i \in 1..Len(s) : s[i] # x
  PROVE  s \in Seq(S)
<1>1. s \in [1..Len(s) -> S \cup {x}] /\ Len(s) \in Nat
  OBVIOUS
<1>2. s \in [1..Len(s) -> S]
  BY <1>1
<1>3. QED BY <1>1, <1>2

(* A well-formed entry gives a profile. *)
LEMMA ProfileType ==
  ASSUME NEW raw \in RawEntry, WellFormedEntry(raw)
  PROVE  Profile(raw) \in RegisteredModule
<1>1. raw.exports \in Seq(Functions)
  BY SeqWithout DEF RawEntry, WellFormedEntry
<1>2. DeclaredTrusted(raw) \in BOOLEAN
  BY DEF DeclaredTrusted
<1>3. QED
  BY <1>1, <1>2 DEF RawEntry, WellFormedEntry, Profile, RegisteredModule

(* What a load puts into the table. *)
LEMMA ParsedType ==
  ASSUME NEW doc \in Documents
  PROVE  /\ DOMAIN ParsedModules(doc) = ReadableNames(doc)
         /\ ReadableNames(doc) \subseteq DOMAIN doc.modules
         /\ DOMAIN doc.modules \subseteq Names
         /\ doc.modules \in [DOMAIN doc.modules -> RawEntry]
         /\ ParsedModules(doc) \in [ReadableNames(doc) -> RegisteredModule]
<1>1. /\ DOMAIN doc.modules \subseteq Names /\ Names \subseteq Nat
      /\ doc.modules \in [DOMAIN doc.modules -> RawEntry]
  BY RegistryAssumption DEF IsDocument
<1>2. ReadableNames(doc) \subseteq DOMAIN doc.modules
  BY DEF ReadableNames
<1>3. ASSUME NEW n \in ReadableNames(doc)
      PROVE  Profile(doc.modules[n]) \in RegisteredModule
  <2>1. WellFormedEntry(doc.modules[n])
    <3>1. n \in DOMAIN doc.modules /\ n \in Nat
      BY <1>1, <1>2, Zenon
    <3>2. n <= n
      BY <3>1
    <3>3. \A k \in DOMAIN doc.modules : k <= n => WellFormedEntry(doc.modules[k])
      BY Zenon DEF ReadableNames
    <3>4. QED BY <3>1, <3>2, <3>3, Zenon
  <2>2. doc.modules[n] \in RawEntry
    BY <1>1, <1>2
  <2>3. QED BY <2>1, <2>2, ProfileType
<1>4. QED BY <1>1, <1>2, <1>3 DEF ParsedModules

(* Type correctness of the registry, one lemma for each operation: the     *)
(* modules that build on the registry use them again.                      *)
LEMMA LoadManifestType ==
  ASSUME RegistryTypeOK, LoadManifest
  PROVE  RegistryTypeOK'
<1>1. PICK doc \in Documents : LoadRejected(doc) \/ LoadModules(doc)
  BY DEF LoadManifest
<1>2. manifest_version' \in {"", kSupportedManifestVersion, "2"}
  BY <1>1, RegistryAssumption
  DEF RegistryTypeOK, LoadRejected, LoadModules, ReadVersion, IsDocument
<1>3. CASE LoadRejected(doc)
  BY <1>2, <1>3 DEF RegistryTypeOK, LoadRejected, RejectionOf, RegistryErrors
<1>4. CASE LoadModules(doc)
  <2>1. load_result' \in {"ok", "InvalidSchema"}
    BY <1>4 DEF LoadModules
  <2>2. QED
    BY <1>2, <1>4, <2>1, ParsedType DEF RegistryTypeOK, LoadModules, RegistryErrors
<1>5. QED BY <1>1, <1>3, <1>4

LEMMA RevokeModuleType ==
  ASSUME RegistryTypeOK, NEW n \in Names, RevokeModule(n)
  PROVE  RegistryTypeOK'
<1>1. tracked_modules' = [tracked_modules EXCEPT ![n].trusted = FALSE]
  BY DEF RevokeModule
<1>2. [tracked_modules[n] EXCEPT !.trusted = FALSE] \in RegisteredModule
  BY DEF RegistryTypeOK, RevokeModule, RegisteredModule
<1>3. /\ DOMAIN tracked_modules' = DOMAIN tracked_modules
      /\ tracked_modules' \in [DOMAIN tracked_modules -> RegisteredModule]
  BY <1>1, <1>2 DEF RegistryTypeOK
<1>4. QED BY <1>3 DEF RegistryTypeOK, RevokeModule

LEMMA RegistryInitType == RegistryInit => RegistryTypeOK
BY DEF RegistryInit, RegistryTypeOK, NoModules

THEOREM RegistryTypeCorrect == RegistrySpec => []RegistryTypeOK
<1>1. RegistryTypeOK /\ [RegistryNext]_registryVars => RegistryTypeOK'
  <2> SUFFICES ASSUME RegistryTypeOK, [RegistryNext]_registryVars PROVE RegistryTypeOK'
    OBVIOUS
  <2>1. CASE UNCHANGED registryVars
    BY <2>1 DEF RegistryTypeOK, registryVars
  <2>2. QED BY <2>1, LoadManifestType, RevokeModuleType DEF RegistryNext
<1>2. QED BY <1>1, RegistryInitType, PTL DEF RegistrySpec

-----------------------------------------------------------------------------
(* What a load and a revocation do to the entry of one name, seen from the *)
(* invariants: SingleGeneration is inductive as it stands, and the prefix  *)
(* property needs to know nothing more than it.                            *)
LEMMA LoadKeepsGeneration ==
  ASSUME SingleGeneration, PartialLoadIsPrefix, LoadManifest
  PROVE  SingleGeneration' /\ PartialLoadIsPrefix'
<1>1. PICK doc \in Documents : LoadRejected(doc) \/ LoadModules(doc)
  BY DEF LoadManifest
<1>2. CASE LoadRejected(doc)
  BY <1>2 DEF LoadRejected, RejectionOf, SingleGeneration, PartialLoadIsPrefix
<1>3. CASE LoadModules(doc)
  <2>1. /\ origin' = doc.modules
        /\ tracked_modules' = ParsedModules(doc)
        /\ load_result' = "ok" => ReadableNames(doc) = DOMAIN doc.modules
    BY <1>3 DEF LoadModules
  <2>2. SingleGeneration'
    BY <2>1, ParsedType DEF SingleGeneration, ParsedModules
  <2>3. ASSUME NEW n \in ReadableNames(doc), NEW k \in DOMAIN doc.modules, k <= n
        PROVE  k \in ReadableNames(doc)
    <3>1. DOMAIN doc.modules \subseteq Nat /\ n \in DOMAIN doc.modules
      BY ParsedType, RegistryAssumption
    <3>2. \A j \in DOMAIN doc.modules : j <= k => j <= n
      BY <2>3, <3>1
    <3>3. \A j \in DOMAIN doc.modules : j <= n => WellFormedEntry(doc.modules[j])
      BY <2>3, Zenon DEF ReadableNames
    <3>4. QED BY <2>3, <3>2, <3>3, Zenon DEF ReadableNames
  <2>4. PartialLoadIsPrefix'
    BY <2>1, <2>3, ParsedType DEF PartialLoadIsPrefix
  <2>5. QED BY <2>2, <2>4
<1>4. QED BY <1>1, <1>2, <1>3

LEMMA RevokeKeepsGeneration ==
  ASSUME RegistryTypeOK, SingleGeneration, PartialLoadIsPrefix,
         NEW n \in Names, RevokeModule(n)
  PROVE  SingleGeneration' /\ PartialLoadIsPrefix'
<1>1. /\ DOMAIN tracked_modules' = DOMAIN tracked_modules
      /\ tracked_modules'[n] = [tracked_modules[n] EXCEPT !.trusted = FALSE]
      /\ \A k \in DOMAIN tracked_modules \ {n} : tracked_modules'[k] = tracked_modules[k]
      /\ n \in DOMAIN tracked_modules
  BY DEF RevokeModule, RegistryTypeOK
<1>2. PartialLoadIsPrefix'
  BY <1>1 DEF PartialLoadIsPrefix, RevokeModule
<1>3. tracked_modules'[n] = [Profile(origin[n]) EXCEPT !.trusted = FALSE]
  BY <1>1 DEF SingleGeneration, Profile
<1>4. SingleGeneration'
  BY <1>1, <1>3 DEF SingleGeneration, RevokeModule, Profile
<1>5. QED BY <1>2, <1>4

LEMMA InitGeneration == RegistryInit => SingleGeneration /\ PartialLoadIsPrefix
BY DEF RegistryInit, NoModules, SingleGeneration, PartialLoadIsPrefix

RegistryInv == RegistryTypeOK /\ SingleGeneration /\ PartialLoadIsPrefix

LEMMA RegistryInvariant == RegistrySpec => []RegistryInv
<1>1. RegistryInit => RegistryInv
  BY RegistryInitType, InitGeneration DEF RegistryInv
<1>2. RegistryInv /\ [RegistryNext]_registryVars => RegistryInv'
  <2> SUFFICES ASSUME RegistryInv, [RegistryNext]_registryVars PROVE RegistryInv'
    OBVIOUS
  <2>1. CASE LoadManifest
    BY <2>1, LoadManifestType, LoadKeepsGeneration DEF RegistryInv
  <2>2. ASSUME NEW n \in Names, RevokeModule(n) PROVE RegistryInv'
    BY <2>2, RevokeModuleType, RevokeKeepsGeneration DEF RegistryInv
  <2>3. CASE UNCHANGED registryVars
    BY <2>3 DEF RegistryInv, RegistryTypeOK, SingleGeneration, PartialLoadIsPrefix,
       registryVars
  <2>4. QED BY <2>1, <2>2, <2>3 DEF RegistryNext
<1>3. QED BY <1>1, <1>2, PTL DEF RegistrySpec

(* The table never mixes two manifests. *)
THEOREM OneGeneration == RegistrySpec => []SingleGeneration
<1>1. RegistryInv => SingleGeneration
  BY DEF RegistryInv
<1>2. QED BY RegistryInvariant, <1>1, PTL

(* A load that stops half-way leaves a prefix of its manifest. *)
THEOREM LoadLeavesPrefix == RegistrySpec => []PartialLoadIsPrefix
<1>1. RegistryInv => PartialLoadIsPrefix
  BY DEF RegistryInv
<1>2. QED BY RegistryInvariant, <1>1, PTL

(* Trust is gained from a manifest entry that grants it, and nowhere else. *)
THEOREM TrustIsGranted == RegistrySpec => TrustComesFromManifest
<1> DEFINE Granted(n) == /\ manifest_version' = kSupportedManifestVersion
                         /\ n \in DOMAIN origin'
                         /\ origin'[n].trusted = "true"
<1>1. ASSUME RegistryInv, [RegistryNext]_registryVars
      PROVE  [\A n \in Names : Trusted(n)' /\ ~Trusted(n) => Granted(n)]_registryVars
  <2> SUFFICES ASSUME RegistryNext, NEW n \in Names, Trusted(n)', ~Trusted(n)
               PROVE  Granted(n)
    BY <1>1
  <2>1. ASSUME NEW k \in Names, RevokeModule(k) PROVE FALSE
    BY <1>1, <2>1 DEF RevokeModule, Trusted, RegistryInv, RegistryTypeOK, RegisteredModule
  <2>2. PICK doc \in Documents : LoadRejected(doc) \/ LoadModules(doc)
    BY <2>1 DEF RegistryNext, LoadManifest
  <2>3. ~LoadRejected(doc)
    BY DEF LoadRejected, Trusted
  <2>4. LoadModules(doc)
    BY <2>2, <2>3
  <2>5. n \in DOMAIN doc.modules /\ DeclaredTrusted(doc.modules[n])
    BY <2>4, ParsedType DEF LoadModules, Trusted, ParsedModules, Profile
  <2>6. QED BY <2>4, <2>5 DEF LoadModules, ReadVersion, Readable, DeclaredTrusted,
               kSupportedManifestVersion, Absent
<1>2. QED BY RegistryInvariant, <1>1, PTL DEF RegistrySpec, TrustComesFromManifest
-----------------------------------------------------------------------------
(* The three summaries.  The table is always finite, because a file lists  *)
(* finitely many modules: without that its counters would mean nothing.    *)
FiniteTable == IsFiniteSet(DOMAIN tracked_modules)

LEMMA TableIsFinite == RegistrySpec => []FiniteTable
<1>1. RegistryInit => FiniteTable
  BY FS_EmptySet DEF RegistryInit, NoModules, FiniteTable
<1>2. RegistryInv /\ FiniteTable /\ [RegistryNext]_registryVars => FiniteTable'
  <2> SUFFICES ASSUME RegistryInv, FiniteTable, [RegistryNext]_registryVars
               PROVE  FiniteTable'
    OBVIOUS
  <2>1. ASSUME NEW doc \in Documents, LoadModules(doc) PROVE FiniteTable'
    <3>1. IsFiniteSet(DOMAIN doc.modules)
      BY RegistryAssumption DEF IsDocument
    <3>2. DOMAIN tracked_modules' = ReadableNames(doc)
      BY <2>1, ParsedType DEF LoadModules
    <3>3. ReadableNames(doc) \in SUBSET DOMAIN doc.modules
      BY ParsedType
    <3>4. QED BY <3>1, <3>2, <3>3, FS_Subset DEF FiniteTable
  <2>2. ASSUME NEW doc \in Documents, LoadRejected(doc) PROVE FiniteTable'
    BY <2>2 DEF LoadRejected, FiniteTable
  <2>3. ASSUME NEW n \in Names, RevokeModule(n) PROVE FiniteTable'
    BY <2>3 DEF RevokeModule, FiniteTable
  <2>4. CASE UNCHANGED registryVars
    BY <2>4 DEF registryVars, FiniteTable
  <2>5. QED BY <2>1, <2>2, <2>3, <2>4 DEF RegistryNext, LoadManifest
<1>3. QED BY RegistryInvariant, <1>1, <1>2, PTL DEF RegistrySpec

(* The modules that all three walks stop at, under the name of one set.    *)
Offered == {n \in DOMAIN tracked_modules : Trusted(n) /\ AbiCompatible(n)}

(* Every pair of the policy stands at a position of an export list, and at *)
(* each position stands a pair of the policy.                              *)
PairAt(x) == <<x[1], tracked_modules[x[1]].exports[x[2]]>>

LEMMA PolicyIsListed ==
  ASSUME RegistryTypeOK
  PROVE  /\ \A x \in ListedExports(Offered) : PairAt(x) \in GenerateSystemPolicy
         /\ \A p \in GenerateSystemPolicy :
              \E x \in ListedExports(Offered) : PairAt(x) = p
<1>1. ASSUME NEW n \in Offered, NEW i \in 1..Len(tracked_modules[n].exports)
      PROVE  <<n, tracked_modules[n].exports[i]>> \in GenerateSystemPolicy
  <2>1. n \in DOMAIN tracked_modules /\ Trusted(n) /\ AbiCompatible(n)
    BY DEF Offered
  <2>2. tracked_modules[n].exports \in Seq(Functions)
    BY <2>1 DEF RegistryTypeOK, RegisteredModule
  <2>3. tracked_modules[n].exports[i] \in Functions
    BY <2>2
  <2>4. QED BY <2>1, <2>3, Zenon DEF GenerateSystemPolicy, ExportsOf
<1>2. ASSUME NEW p \in GenerateSystemPolicy
      PROVE  \E x \in ListedExports(Offered) : PairAt(x) = p
  <2>1. p \in (DOMAIN tracked_modules) \X Functions /\ p[1] \in Offered
    BY DEF GenerateSystemPolicy, Offered
  <2>2. PICK i \in 1..Len(tracked_modules[p[1]].exports) :
          p[2] = tracked_modules[p[1]].exports[i]
    BY Zenon DEF GenerateSystemPolicy, ExportsOf
  <2>3. <<p[1], i>> \in ListedExports(Offered) /\ PairAt(<<p[1], i>>) = p
    BY <2>1, <2>2 DEF ListedExports, PairAt
  <2>4. QED BY <2>3
<1>3. ASSUME NEW x \in ListedExports(Offered) PROVE PairAt(x) \in GenerateSystemPolicy
  <2>1. PICK n \in Offered : x \in {n} \X (1..Len(tracked_modules[n].exports))
    BY DEF ListedExports
  <2>2. QED BY <1>1, <2>1 DEF PairAt
<1>4. QED BY <1>2, <1>3

(* What is walked when the exports are counted is finite.                  *)
LEMMA ListedIsFinite ==
  ASSUME RegistryTypeOK, FiniteTable
  PROVE  IsFiniteSet(ListedExports(Offered))
<1> DEFINE PositionsOf(n) == {n} \X (1..Len(tracked_modules[n].exports))
           Lists == {PositionsOf(n) : n \in Offered}
           listOf == [n \in Offered |-> PositionsOf(n)]
<1>1. IsFiniteSet(Offered)
  BY FS_Subset DEF FiniteTable, Offered
<1>2. listOf \in Surjection(Offered, Lists)
  BY DEF Surjection
<1>3. IsFiniteSet(Lists)
  BY <1>1, <1>2, FS_Surjection
<1>4. ASSUME NEW n \in Offered PROVE IsFiniteSet(PositionsOf(n))
  <2>1. tracked_modules[n].exports \in Seq(Functions)
    BY DEF RegistryTypeOK, RegisteredModule, Offered
  <2>2. IsFiniteSet(1..Len(tracked_modules[n].exports))
    BY <2>1, FS_Interval
  <2>3. QED BY <2>2, FS_Singleton, FS_Product
<1>5. QED BY <1>3, <1>4, FS_UNION DEF ListedExports

(* The three walks over the table agree in every reachable state, whatever *)
(* the manifests, the loads and the revocations have been: the policy, the *)
(* prompt and the counters of the diagnostics.                             *)
THEOREM SummariesNeverDiffer == RegistrySpec => []SummariesAgree
<1>1. ASSUME RegistryTypeOK, FiniteTable PROVE SummariesAgree
  <2> DEFINE pairOf == [x \in ListedExports(Offered) |-> PairAt(x)]
             count == Cardinality(ListedExports(Offered))
  <2>1. GetDiagnostics(0).policy_exports_count = count
    <3>1. {n \in {k \in DOMAIN tracked_modules : Trusted(k)} : AbiCompatible(n)} = Offered
      BY DEF Offered
    <3>2. QED BY <3>1, Zenon DEF GetDiagnostics
  <2>2. pairOf \in Surjection(ListedExports(Offered), GenerateSystemPolicy)
    BY <1>1, PolicyIsListed DEF Surjection
  <2>3. /\ IsFiniteSet(ListedExports(Offered)) /\ IsFiniteSet(GenerateSystemPolicy)
        /\ Cardinality(GenerateSystemPolicy) <= count
    BY <1>1, <2>2, ListedIsFinite, FS_Surjection
  <2>4. count \in Nat /\ (count = 0 <=> ListedExports(Offered) = {})
    BY <2>3, FS_EmptySet, FS_CardinalityType
  <2>5. ListedExports(Offered) = {} <=> GenerateSystemPolicy = {}
    BY <1>1, PolicyIsListed
  <2>6. DescribePromptCapabilities = GenerateSystemPolicy
    <3>1. DescribePromptCapabilities \subseteq GenerateSystemPolicy
      <4>1. ASSUME NEW n \in DOMAIN tracked_modules PROVE ExportsOf(n) \subseteq Functions
        <5>1. tracked_modules[n].exports \in Seq(Functions)
          BY <1>1 DEF RegistryTypeOK, RegisteredModule
        <5>2. QED BY <5>1 DEF ExportsOf
      <4>2. QED BY <4>1 DEF DescribePromptCapabilities, GenerateSystemPolicy
    <3>2. GenerateSystemPolicy \subseteq DescribePromptCapabilities
      BY DEF DescribePromptCapabilities, GenerateSystemPolicy
    <3>3. QED BY <3>1, <3>2
  <2>7. Cardinality(GenerateSystemPolicy) \in Nat
    BY <2>3, FS_CardinalityType
  <2> HIDE DEF count
  <2>8. QED BY <2>1, <2>3, <2>4, <2>5, <2>6, <2>7 DEF SummariesAgree
<1>2. RegistryInv => RegistryTypeOK
  BY DEF RegistryInv
<1>3. QED BY RegistryInvariant, TableIsFinite, <1>1, <1>2, PTL
===============================================================================
