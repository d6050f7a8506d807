--------------------------- MODULE MCModuleRegistry ---------------------------
(* Constants of ModuleRegistry for TLC: two generations of a manifest over *)
(* three module names, and manifests that fail at every check of the load. *)
EXTENDS ModuleRegistry, Sha256, TLC

MCNames == 0..2
MCPaths == {"echo.wasm", "lib.wat"}
MCDigests == {"d1", "d2"}
MCFunctions == {"print", "sum"}

Entry(path, digest, trusted, abi, exports) ==
  [path |-> path, sha256 |-> digest, trusted |-> trusted, abi |-> abi,
   exports |-> exports]

Echo(digest, trusted) == Entry("echo.wasm", digest, trusted, kVersion, <<"print">>)
Lib == Entry("lib.wat", "d2", "true", kVersion, <<"sum", "print", "sum">>)
OldAbi == Entry("lib.wat", "d2", "true", "0.9", <<"sum">>)
NoExports == Entry("lib.wat", "d1", "true", kVersion, <<>>)

(* Entries that each miss one mandatory field. *)
Malformed ==
  {Entry(Absent, "d1", "true", kVersion, <<"print">>),
   Entry("echo.wasm", Absent, "true", kVersion, <<"print">>),
   Entry("echo.wasm", "d1", "true", Absent, <<"print">>),
   Entry("echo.wasm", "d1", "true", kVersion, <<"print", NonString>>)}

Json(version, modules) ==
  [file |-> "json", version |-> version, hasModules |-> TRUE, modules |-> modules]

Unreadable(file) ==
  [file |-> file, version |-> Absent, hasModules |-> FALSE, modules |-> NoModules]

MCDocuments ==
  {Unreadable("missing"), Unreadable("garbled"), Unreadable("json"),
   [Unreadable("json") EXCEPT !.version = kSupportedManifestVersion],
   Json("2", (1 :> Echo("d2", "true"))),
   Json("1", NoModules),
   Json("1", (1 :> Echo("d1", "true") @@ 2 :> Lib)),
   Json("1", (1 :> Echo("d2", "false") @@ 2 :> OldAbi)),
   Json("1", (0 :> NoExports @@ 1 :> Echo("d2", Absent))),
   Json("1", (2 :> Lib))}
  \cup {Json("1", (0 :> Lib @@ 1 :> bad @@ 2 :> Echo("d1", "true"))) : bad \in Malformed}

(* Beside the registry, the file that is hashed: lengths on both sides of  *)
(* one and of two blocks, and last bytes that do not matter, that are the  *)
(* mark, or the mark with zeros behind it.                                 *)
MCLengths == {0, 1, 3} \cup 54..66 \cup 117..130 \cup {256}
MCTails == {<<>>, <<128>>, <<128, 0, 0>>}

File(length, tail) ==
  [i \in 1..length |-> IF i + Len(tail) > length THEN tail[i + Len(tail) - length] ELSE 1]

MCInit ==
  /\ RegistryInit
  /\ \E length \in MCLengths, tail \in MCTails : payload = File(length, tail)

MCSpec == MCInit /\ [][RegistryNext /\ UNCHANGED payload]_<<registryVars, payload>>
===============================================================================
