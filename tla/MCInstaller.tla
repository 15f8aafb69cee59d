----------------------------- MODULE MCInstaller -----------------------------
(***************************************************************************)
(* Bounded inputs for Installer: directories of up to three characters,   *)
(* with spaces and backslashes anywhere, the trailing one of the test     *)
(* included; the executable part with and without "run".                   *)
(***************************************************************************)
EXTENDS Installer

MCDirs == UNION {[1..n -> {"a", " ", "\\"}] : n \in 0..3}

\* "C:\...\storagenode.exe" run
MCPrefixes == {<<Quote, "a", "\\", "a", Quote>>,
               <<Quote, "a", "\\", "a", Quote, " ", "a">>}
=============================================================================
