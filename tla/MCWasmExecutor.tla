---------------------------- MODULE MCWasmExecutor ----------------------------
(* Constants of WasmExecutor for TLC.  Two questions, two sizes: the       *)
(* policy instance has many manifests and a memory of one cell, the memory *)
(* instance has one module and every pointer and length of a 2-bit word.   *)
EXTENDS WasmExecutor, TLC

Entry(path, digest, trusted, abi, exports) ==
  [path |-> path, sha256 |-> digest, trusted |-> trusted, abi |-> abi,
   exports |-> exports]

Manifest(modules) ==
  [file |-> "json", version |-> kSupportedManifestVersion, hasModules |-> TRUE,
   modules |-> modules]

MissingManifest ==
  [file |-> "missing", version |-> Absent, hasModules |-> FALSE,
   modules |-> NoModules]

MCNames == 0..3
MCRegexNames == {1, 3}                   \* 0 is "", 2 is a name like "my module"
MCPaths == {"echo.wasm", "echo.wat"}
MCWatPaths == {"echo.wat"}
MCBlobs == {"good", "changed"}
MCDigests == {"d1", "d2"}
MCSha256 == ("good" :> "d1") @@ ("changed" :> "d2")
MCFunctions == {"", "print"}

Echo(digest, trusted, abi) == Entry("echo.wasm", digest, trusted, abi, <<"print">>)

PolicyDocuments ==
  {MissingManifest,
   Manifest(1 :> Echo("d1", "true", kVersion)
            @@ 2 :> Entry("echo.wat", "d1", "true", kVersion, <<"print">>)),
   Manifest(1 :> Echo("d2", "true", kVersion)
            @@ 3 :> Entry("echo.wat", "d1", "true", kVersion, <<"", "print">>)),
   Manifest(1 :> Echo("d1", "true", "0.9")
            @@ 0 :> Echo("d1", "true", kVersion)),
   Manifest(1 :> Entry("echo.wat", "d1", "false", kVersion, <<"", "print">>))}

MemoryDocuments == {Manifest(1 :> Entry("echo.wat", "d1", "true", kVersion, <<"print">>))}
MemoryNames == {1}
MemoryPaths == {"echo.wat"}
MemoryFunctions == {"print"}
===============================================================================
