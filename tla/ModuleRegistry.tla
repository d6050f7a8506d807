---------------------------- MODULE ModuleRegistry ----------------------------
(***************************************************************************)
(* The table of guest modules of the Seraph side (seraph/ModuleRegistry):  *)
(* it is filled from a JSON manifest, answers which exports the system     *)
(* policy allows, and can revoke a module or load the manifest again.      *)
(*                                                                         *)
(* A manifest on disk is a "document"; LoadManifest may find a different   *)
(* document each time it runs.  A field of a document whose JSON value is  *)
(* missing or has the wrong JSON type is Absent: the code treats both      *)
(* alike.                                                                  *)
(***************************************************************************)
EXTENDS Integers, FiniteSets, Sequences

CONSTANTS
  Names,      \* module names, numbered in the order of the keys of a JSON object
  Paths,      \* file paths
  Digests,    \* SHA-256 digests
  Functions,  \* names of guest functions
  Documents   \* manifest files that a load may find

Absent == "absent"
NonString == "nonstring"

kVersion == "1.0"
kSupportedManifestVersion == "1"

(* The manifest entry of one module as it is written in the file. *)
RawEntry ==
  [path : Paths \cup {Absent}, sha256 : Digests \cup {Absent},
   trusted : {"true", "false", Absent}, abi : {kVersion, "0.9", Absent},
   exports : Seq(Functions \cup {NonString})]

IsDocument(doc) ==
  /\ doc.file \in {"missing", "garbled", "json"}
  /\ doc.version \in {kSupportedManifestVersion, "2", Absent}
  /\ doc.hasModules \in BOOLEAN
  /\ DOMAIN doc.modules \subseteq Names /\ IsFiniteSet(DOMAIN doc.modules)
  /\ doc.modules \in [DOMAIN doc.modules -> RawEntry]

ASSUME RegistryAssumption ==
  /\ Names \subseteq Nat
  /\ Absent \notin Paths \cup Digests
  /\ NonString \notin Functions
  /\ \A doc \in Documents : IsDocument(doc)

-----------------------------------------------------------------------------
VARIABLES
  tracked_modules,   \* name -> profile, the modules the registry knows
  manifest_version,  \* manifest_version_: the version field read last
  load_result,       \* what the latest LoadManifest returned
  origin             \* history: the "modules" object the table was last filled from

registryVars == <<tracked_modules, manifest_version, load_result, origin>>

RegistryErrors ==
  {"ManifestNotFound", "ManifestParseFailed", "InvalidSchema",
   "UnsupportedManifestVersion"}

RegisteredModule ==
  [path : Paths, sha256 : Digests, trusted : BOOLEAN,
   abi : {kVersion, "0.9"}, exports : Seq(Functions)]

RegistryTypeOK ==
  /\ DOMAIN tracked_modules \subseteq Names
  /\ tracked_modules \in [DOMAIN tracked_modules -> RegisteredModule]
  /\ manifest_version \in {"", kSupportedManifestVersion, "2"}
  /\ load_result \in {"none", "ok"} \cup RegistryErrors
  /\ DOMAIN origin \subseteq Names
  /\ origin \in [DOMAIN origin -> RawEntry]

-----------------------------------------------------------------------------
(* Slip: a missing "sha256" is let through. *)
WellFormedEntry_NoDigest(raw) ==
  /\ raw.path # Absent
  /\ raw.abi # Absent
  /\ \A i \in 1..Len(raw.exports) : raw.exports[i] # NonString

(* Reading one entry.  "trusted" is optional and false by default; an      *)
(* absent, empty or non-array "allowed_exports" allows nothing.            *)
WellFormedEntry(raw) ==
  /\ raw.path # Absent
  /\ raw.sha256 # Absent
  /\ raw.abi # Absent
  /\ \A i \in 1..Len(raw.exports) : raw.exports[i] # NonString

(* Slip: trust is the default when the field is missing. *)
DeclaredTrusted_ByDefault(raw) == raw.trusted # "false"

DeclaredTrusted(raw) == raw.trusted = "true"

Profile(raw) ==
  [path |-> raw.path, sha256 |-> raw.sha256, trusted |-> DeclaredTrusted(raw),
   abi |-> raw.abi, exports |-> raw.exports]

(* Slip: a malformed entry is skipped and the load goes on. *)
ReadableNames_SkipMalformed(doc) ==
  {n \in DOMAIN doc.modules : WellFormedEntry(doc.modules[n])}

(* The entries are read in key order and the first malformed one ends the  *)
(* load: the entries before it stay in the table.                          *)
ReadableNames(doc) ==
  {n \in DOMAIN doc.modules :
     \A k \in DOMAIN doc.modules : k <= n => WellFormedEntry(doc.modules[k])}

(* Slip: the table is not cleared before the entries are assigned. *)
ParsedModules_NotCleared(doc) ==
  [n \in DOMAIN tracked_modules \cup ReadableNames(doc) |->
     IF n \in ReadableNames(doc) THEN Profile(doc.modules[n])
     ELSE tracked_modules[n]]

ParsedModules(doc) == [n \in ReadableNames(doc) |-> Profile(doc.modules[n])]

(* The checks that come before the table is cleared. *)
Readable(doc) ==
  /\ doc.file = "json"
  /\ doc.version = kSupportedManifestVersion
  /\ doc.hasModules

RejectionOf(doc) ==
  CASE doc.file = "missing" -> "ManifestNotFound"
    [] doc.file = "garbled" -> "ManifestParseFailed"
    [] doc.file = "json" /\ doc.version \notin {Absent, kSupportedManifestVersion} ->
         "UnsupportedManifestVersion"
    [] OTHER -> "InvalidSchema"

(* manifest_version_ is assigned before it is compared. *)
ReadVersion(doc) ==
  manifest_version' = IF doc.file = "json" /\ doc.version # Absent
                      THEN doc.version ELSE manifest_version

LoadRejected(doc) ==
  /\ ~Readable(doc)
  /\ ReadVersion(doc)
  /\ load_result' = RejectionOf(doc)
  /\ UNCHANGED <<tracked_modules, origin>>

LoadModules(doc) ==
  /\ Readable(doc)
  /\ ReadVersion(doc)
  /\ tracked_modules' = ParsedModules(doc)
  /\ load_result' = IF ReadableNames(doc) = DOMAIN doc.modules
                    THEN "ok" ELSE "InvalidSchema"
  /\ origin' = doc.modules

(* LoadManifest; ReloadManifest only calls it. *)
LoadManifest == \E doc \in Documents : LoadRejected(doc) \/ LoadModules(doc)

RevokeModule(n) ==
  /\ n \in DOMAIN tracked_modules
  /\ tracked_modules' = [tracked_modules EXCEPT ![n].trusted = FALSE]
  /\ UNCHANGED <<manifest_version, load_result, origin>>

-----------------------------------------------------------------------------
(* Queries *)
Trusted(n) == n \in DOMAIN tracked_modules /\ tracked_modules[n].trusted

AbiCompatible(n) == tracked_modules[n].abi = kVersion

ExportsOf(n) ==
  {tracked_modules[n].exports[i] : i \in 1..Len(tracked_modules[n].exports)}

(* Slip: the policy forgets the filter on trusted. *)
GenerateSystemPolicy_AnyTrust ==
  {p \in (DOMAIN tracked_modules) \X Functions :
     AbiCompatible(p[1]) /\ p[2] \in ExportsOf(p[1])}

(* The pairs <<module, function>> of the CapabilityManifest. *)
GenerateSystemPolicy ==
  {p \in (DOMAIN tracked_modules) \X Functions :
     Trusted(p[1]) /\ AbiCompatible(p[1]) /\ p[2] \in ExportsOf(p[1])}

(* The "module::function" lines of the prompt; it walks the same table. *)
DescribePromptCapabilities ==
  UNION {{<<n, f>> : f \in ExportsOf(n)} :
           n \in {k \in DOMAIN tracked_modules : Trusted(k) /\ AbiCompatible(k)}}

(* The positions <<module, index>> of the export lists of some modules: a  *)
(* name that a list has twice counts twice.                                *)
ListedExports(modules) ==
  UNION {{n} \X (1..Len(tracked_modules[n].exports)) : n \in modules}

GetDiagnostics(cache_count) ==
  LET trusted == {n \in DOMAIN tracked_modules : Trusted(n)}
      compatible == {n \in trusted : AbiCompatible(n)}
  IN [trusted_modules |-> Cardinality(trusted),
      active_cached_modules |-> cache_count,
      abi_compatible_modules |-> Cardinality(compatible),
      policy_exports_count |-> Cardinality(ListedExports(compatible))]

-----------------------------------------------------------------------------
NoModules == [n \in {} |-> Absent]

RegistryInit ==
  /\ tracked_modules = NoModules
  /\ manifest_version = ""
  /\ load_result = "none"
  /\ origin = NoModules

RegistryNext ==
  \/ LoadManifest
  \/ \E n \in Names : RevokeModule(n)

RegistrySpec == RegistryInit /\ [][RegistryNext]_registryVars

-----------------------------------------------------------------------------
(* Whatever sequence of loads, failed loads and revocations has run, every *)
(* profile in the table comes from ONE manifest, the last one that got     *)
(* past the checks in front of clear(): a load that fails half-way never   *)
(* leaves a mixture of an older and a newer manifest, and a profile        *)
(* differs from its entry only by a revocation.                            *)
SingleGeneration ==
  \A n \in DOMAIN tracked_modules :
    /\ n \in DOMAIN origin
    /\ \/ tracked_modules[n] = Profile(origin[n])
       \/ tracked_modules[n] = [Profile(origin[n]) EXCEPT !.trusted = FALSE]

(* A load that answers ok has installed every module of its manifest; one  *)
(* that fails after clear() has installed a prefix of it in key order that *)
(* stops short of the malformed entry, never a gap.                        *)
PartialLoadIsPrefix ==
  /\ load_result = "ok" => DOMAIN tracked_modules = DOMAIN origin
  /\ \A n \in DOMAIN tracked_modules, k \in DOMAIN origin :
       k <= n => k \in DOMAIN tracked_modules

(* Trust is never gained by accident: a module turns trusted only when a   *)
(* load installs a manifest whose own entry says "trusted": true, so a     *)
(* revocation lasts through every failed load that stops before clear().   *)
TrustComesFromManifest ==
  [][\A n \in Names :
       Trusted(n)' /\ ~Trusted(n) =>
         /\ manifest_version' = kSupportedManifestVersion
         /\ n \in DOMAIN origin'
         /\ origin'[n].trusted = "true"]_registryVars

(* The policy handed to the executor, the capabilities shown to the brain  *)
(* and the diagnostics never disagree: three walks over the table, each    *)
(* with its own copy of the filter.                                        *)
SummariesAgree ==
  LET diag == GetDiagnostics(0)
  IN /\ DescribePromptCapabilities = GenerateSystemPolicy
     /\ diag.policy_exports_count >= Cardinality(GenerateSystemPolicy)
     /\ diag.policy_exports_count = 0 <=> GenerateSystemPolicy = {}
=============================================================================
